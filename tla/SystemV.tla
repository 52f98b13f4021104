------------------------------ MODULE SystemV ------------------------------
(***************************************************************************)
(* Application/ipc/systemV_msgque and systemV_shm, with a key that stands  *)
(* in the code (KEY_DEPEND_FILE is not defined).  Processes come and go,   *)
(* the queue and the segment stay.                                         *)
(***************************************************************************)
EXTENDS Sequences, Integers

CONSTANTS Setters,     \* systemV_shm processes
          SegSize,     \* length of the segment, an argument of -c
          MsgLens,     \* lengths given to -s and -r
          QueueMax,    \* messages the queue has room for
          MaxSent      \* messages ever sent: the bound

ASSUME SizesAssumption == {SegSize, QueueMax, MaxSent} \subseteq Nat

VARIABLES
  seg,       \* the bytes of the segment, <<>> before -c made it
  index,     \* i of each process that writes or reads the segment, or -1
  filled,    \* history: a process has written the whole segment
  msgs,      \* the queue: lengths and numbers of messages
  exists,    \* whether the queue was made
  sent,      \* history: messages sent
  received   \* history: the numbers of messages received

svVars == <<seg, index, filled, msgs, exists, sent, received>>

SvInit ==
  /\ seg = <<>> /\ index = [p \in Setters |-> -1] /\ filled = FALSE
  /\ msgs = <<>> /\ exists = FALSE /\ sent = 0 /\ received = <<>>

(* systemV_shm -c: an existing segment stays as it is. *)
shmget_create ==
  /\ seg' = IF seg = <<>> THEN [i \in 1 .. SegSize |-> 0] ELSE seg
  /\ UNCHANGED <<index, filled, msgs, exists, sent, received>>

(* -s and -r start; without a segment shmat returns -1, which the test for *)
(* NULL lets through, and the process faults.                              *)
shmat_set(p) ==
  /\ index[p] = -1 /\ seg # <<>>
  /\ index' = [index EXCEPT ![p] = 0]
  /\ UNCHANGED <<seg, filled, msgs, exists, sent, received>>

(* Mutant: the pointer has moved on before the byte is stored. *)
StoresNext(i) == [k \in DOMAIN seg |-> IF k = i + 2 THEN i % 256 ELSE seg[k]]

(* The loop of -s: byte i, a char, becomes i. *)
stores(i) == [seg EXCEPT ![i + 1] = i % 256]

set_byte(p) ==
  /\ index[p] \in 0 .. SegSize - 1
  /\ seg' = stores(index[p])
  /\ index' = [index EXCEPT ![p] = @ + 1]
  /\ UNCHANGED <<filled, msgs, exists, sent, received>>

set_ends(p) ==
  /\ index[p] = SegSize
  /\ index' = [index EXCEPT ![p] = -1]
  /\ filled' = TRUE
  /\ UNCHANGED <<seg, msgs, exists, sent, received>>

(* A process of either program is stopped between two bytes. *)
StopSetter(p) ==
  /\ index[p] # -1
  /\ index' = [index EXCEPT ![p] = -1]
  /\ UNCHANGED <<seg, filled, msgs, exists, sent, received>>

(* systemV_msgque -s len: makes the queue if need be; waits for room. *)
msgsnd(len) ==
  /\ sent < MaxSent /\ Len(msgs) < QueueMax
  /\ exists' = TRUE
  /\ sent' = sent + 1
  /\ msgs' = Append(msgs, [number |-> sent', len |-> len])
  /\ UNCHANGED <<seg, index, filled, received>>

(* Mutant: the message that fits is taken instead of the first. *)
ReceiveFitting(len) ==
  \E k \in 1 .. Len(msgs) :
    /\ msgs[k].len <= len
    /\ received' = Append(received, msgs[k].number)
    /\ msgs' = SubSeq(msgs, 1, k - 1) \o SubSeq(msgs, k + 1, Len(msgs))
    /\ UNCHANGED <<seg, index, filled, exists, sent>>

(* -r len: without a queue msgget fails; type 0 takes the first message;   *)
(* one that is longer than len stays and msgrcv fails with E2BIG; on an    *)
(* empty queue the process waits.                                          *)
msgrcv(len) ==
  /\ exists /\ msgs # <<>>
  /\ Head(msgs).len <= len
  /\ received' = Append(received, Head(msgs).number)
  /\ msgs' = Tail(msgs)
  /\ UNCHANGED <<seg, index, filled, exists, sent>>

SvNext ==
  \/ shmget_create
  \/ \E p \in Setters : shmat_set(p) \/ set_byte(p) \/ set_ends(p) \/ StopSetter(p)
  \/ \E len \in MsgLens : msgsnd(len) \/ msgrcv(len)

-----------------------------------------------------------------------------
SvTypeOK ==
  /\ seg = <<>> \/ seg \in [1 .. SegSize -> 0 .. 255]
  /\ index \in [Setters -> -1 .. SegSize]
  /\ filled \in BOOLEAN /\ exists \in BOOLEAN
  /\ sent \in 0 .. MaxSent /\ Len(msgs) <= QueueMax
  /\ \A k \in 1 .. Len(msgs) : msgs[k] \in [number : 1 .. MaxSent, len : MsgLens]
  /\ \A k \in 1 .. Len(received) : received[k] \in 1 .. MaxSent

(* Once a process has gone through the segment every byte stays its index, *)
(* whatever other processes write, or leave half written.                  *)
SegmentFilled == filled => \A i \in 0 .. SegSize - 1 : seg[i + 1] = i % 256

(* Receivers of any lengths together get the messages in the order they    *)
(* were sent: one that came with too small a buffer loses none.            *)
ReceivedInOrder ==
  received \o [k \in 1 .. Len(msgs) |-> msgs[k].number] = [k \in 1 .. sent |-> k]
=============================================================================
