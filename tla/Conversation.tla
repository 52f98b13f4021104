---------------------------- MODULE Conversation ----------------------------
(***************************************************************************)
(* Application/ipc/fifo: two processes exchange one line each.  "first"    *)
(* (fifo_sev, or the child of pipe.c) types, writes and then reads;        *)
(* "second" (fifo_cli, or the parent) reads, types, writes and ends the    *)
(* conversation: the client removes the two names, the parent waits for    *)
(* its child.  FIFO1 and fd2 lead to "first", FIFO2 and fd1 to "second".   *)
(***************************************************************************)
EXTENDS Integers

CONSTANT MaxFifos   \* FIFOs ever made: the bound of the model

ASSUME FifosAssumption == MaxFifos \in Nat /\ MaxFifos >= 2

Ends  == {"first", "second"}
Names == {"FIFO1", "FIFO2"}
NotOpen == 0    \* a descriptor, or a name that no file has
Failed  == -1   \* open() found no file; its result is not looked at

VARIABLES
  overPipe,  \* pipe.c, not the two fifo programs
  name,      \* the file each name stands for
  made,      \* files made so far
  bytes,     \* whether a line lies in each file
  at,        \* where each process stands
  fd,        \* the file each process holds for each name
  silent,    \* history: the line a process typed was empty
  stopped    \* history: a process was interrupted since both were away

talkVars == <<overPipe, name, made, bytes, at, fd, silent, stopped>>

Other(p) == IF p = "first" THEN "second" ELSE "first"
In(p)    == IF p = "first" THEN "FIFO1" ELSE "FIFO2"
Out(p)   == In(Other(p))

(* pipe.c makes both pipes before it forks; the fifo programs start alone. *)
TalkInit ==
  /\ overPipe \in BOOLEAN
  /\ name = [c \in Names |-> NotOpen]
  /\ made = IF overPipe THEN 2 ELSE 0
  /\ bytes = [i \in 1 .. MaxFifos |-> FALSE]
  /\ at = [p \in Ends |-> IF overPipe THEN "turn1" ELSE "off"]
  /\ fd = [p \in Ends |-> [c \in Names |->
             IF overPipe THEN (IF c = "FIFO1" THEN 1 ELSE 2) ELSE NotOpen]]
  /\ silent = [p \in Ends |-> FALSE]
  /\ stopped = FALSE

Goto(p, to) == at' = [at EXCEPT ![p] = to]
Drop(p) == fd' = [fd EXCEPT ![p] = [c \in Names |-> NotOpen]]

(* What is not read from a file is lost when nobody holds it any more. *)
Unread(read) ==
  [i \in 1 .. MaxFifos |-> bytes[i] /\ i # read /\ \E q \in Ends, c \in Names : fd'[q][c] = i]

start(p) ==
  /\ at[p] = "off" /\ ~overPipe
  /\ Goto(p, "make1")
  /\ silent' = [silent EXCEPT ![p] = FALSE]
  /\ stopped' = (stopped /\ at[Other(p)] # "off")
  /\ UNCHANGED <<overPipe, name, made, bytes, fd>>

(* mkfifo: an existing name is taken as it is (EEXIST). *)
mkfifo(p, from, c, to) ==
  /\ at[p] = from
  /\ Goto(p, to)
  /\ \/ name[c] # NotOpen /\ UNCHANGED <<name, made>>
     \/ /\ name[c] = NotOpen /\ made < MaxFifos
        /\ made' = made + 1
        /\ name' = [name EXCEPT ![c] = made']
  /\ UNCHANGED <<overPipe, bytes, fd, silent, stopped>>

(* open() of a FIFO returns when the other end of the same file is opened, *)
(* in either order, and wakes a process that waits there.                  *)
open(p, from, c, waits, to) ==
  /\ at[p] = from
  /\ \/ /\ name[c] = NotOpen
        /\ fd' = [fd EXCEPT ![p][c] = Failed]
        /\ Goto(p, to)
     \/ /\ name[c] # NotOpen
        /\ fd' = [fd EXCEPT ![p][c] = name[c]]
        /\ IF fd[Other(p)][c] # name[c]
           THEN Goto(p, waits)
           ELSE at' = [q \in Ends |-> IF q = p \/ at[q] = waits THEN to ELSE at[q]]
  /\ UNCHANGED <<overPipe, name, made, bytes, silent, stopped>>

(* Mutant: the client opens the FIFO it reads first. *)
OpensReadEndFirst(p) ==
  \/ /\ p = "first"
     /\ open(p, "open1", "FIFO1", "wait1", "open2") \/ open(p, "open2", "FIFO2", "wait2", "turn1")
  \/ /\ p = "second"
     /\ open(p, "open1", "FIFO2", "wait2", "open2") \/ open(p, "open2", "FIFO1", "wait1", "turn1")

(* Both programs open FIFO1 first. *)
opens(p) ==
  open(p, "open1", "FIFO1", "wait1", "open2") \/ open(p, "open2", "FIFO2", "wait2", "turn1")

CanRead(p) ==
  LET i == fd[p][In(p)] IN i = Failed \/ (i > 0 /\ (bytes[i] \/ fd[Other(p)][In(p)] # i))

(* read() returns with a line, or without one when nobody holds the other  *)
(* end; it blocks while the writer has written nothing.                    *)
reads(p, from, to) ==
  /\ at[p] = from
  /\ CanRead(p)
  /\ Goto(p, to)
  /\ IF to = "off" THEN Drop(p) ELSE UNCHANGED fd
  /\ bytes' = Unread(fd[p][In(p)])
  /\ UNCHANGED <<overPipe, name, made, silent, stopped>>

(* gets() and write(): an empty line writes no byte; a line for nobody     *)
(* ends the process with SIGPIPE.                                          *)
writes(p, from, to) ==
  LET i == fd[p][Out(p)] IN
  /\ at[p] = from
  /\ \E empty \in BOOLEAN :
       /\ silent' = [silent EXCEPT ![p] = empty]
       /\ IF i = Failed \/ empty THEN Goto(p, to) /\ UNCHANGED <<bytes, fd>>
          ELSE IF fd[Other(p)][Out(p)] = i
          THEN Goto(p, to) /\ bytes' = [bytes EXCEPT ![i] = TRUE] /\ UNCHANGED fd
          ELSE Goto(p, "off") /\ Drop(p) /\ bytes' = Unread(NotOpen)
  /\ UNCHANGED <<overPipe, name, made, stopped>>

close_both ==
  /\ at["second"] = "end" /\ ~overPipe
  /\ Drop("second") /\ Goto("second", "unlink1")
  /\ bytes' = Unread(NotOpen)
  /\ UNCHANGED <<overPipe, name, made, silent, stopped>>

unlink(from, c, to) ==
  /\ at["second"] = from
  /\ name' = [name EXCEPT ![c] = NotOpen]
  /\ Goto("second", to)
  /\ UNCHANGED <<overPipe, made, bytes, fd, silent, stopped>>

waitpid ==
  /\ at["second"] = "end" /\ overPipe /\ at["first"] = "off"
  /\ Goto("second", "off") /\ Drop("second")
  /\ bytes' = Unread(NotOpen)
  /\ UNCHANGED <<overPipe, name, made, silent, stopped>>

converse(p) ==
  \/ p = "first" /\ (writes(p, "turn1", "turn2") \/ reads(p, "turn2", "off"))
  \/ p = "second" /\ (reads(p, "turn1", "turn2") \/ writes(p, "turn2", "end"))

(* Ctrl-C ends a fifo program, and both processes of pipe.c.  Names stay.  *)
Interrupt(p) ==
  /\ at[p] # "off"
  /\ at' = [q \in Ends |-> IF q = p \/ overPipe THEN "off" ELSE at[q]]
  /\ fd' = [q \in Ends |-> IF at'[q] = "off" THEN [c \in Names |-> NotOpen] ELSE fd[q]]
  /\ bytes' = Unread(NotOpen)
  /\ stopped' = TRUE
  /\ UNCHANGED <<overPipe, name, made, silent>>

TalkNext ==
  \/ \E p \in Ends :
       \/ start(p) \/ opens(p) \/ converse(p) \/ Interrupt(p)
       \/ mkfifo(p, "make1", "FIFO1", "make2") \/ mkfifo(p, "make2", "FIFO2", "open1")
  \/ close_both \/ waitpid
  \/ unlink("unlink1", "FIFO1", "unlink2") \/ unlink("unlink2", "FIFO2", "off")

-----------------------------------------------------------------------------
TalkTypeOK ==
  /\ overPipe \in BOOLEAN
  /\ name \in [Names -> 0 .. MaxFifos]
  /\ made \in 0 .. MaxFifos
  /\ bytes \in [1 .. MaxFifos -> BOOLEAN]
  /\ at \in [Ends -> {"off", "make1", "make2", "open1", "wait1", "open2", "wait2",
                      "turn1", "turn2", "end", "unlink1", "unlink2"}]
  /\ fd \in [Ends -> [Names -> -1 .. MaxFifos]]
  /\ silent \in [Ends -> BOOLEAN] /\ stopped \in BOOLEAN

Blocked(p) ==
  \/ at[p] \in {"wait1", "wait2"}
  \/ at[p] = (IF p = "first" THEN "turn2" ELSE "turn1") /\ ~CanRead(p)
  \/ p = "second" /\ at[p] = "end" /\ overPipe /\ at["first"] # "off"

(* Both processes wait for ever only when one of them typed an empty line, *)
(* which sends nothing, when one was interrupted and started again under   *)
(* the other, or when one holds, or failed to open, a FIFO whose name the  *)
(* previous client was just removing: the order in which the two open,     *)
(* write and read makes no deadlock of its own.                            *)
HungNeedsCause ==
  (\A p \in Ends : Blocked(p)) =>
    \/ stopped \/ \E p \in Ends : silent[p]
    \/ ~overPipe /\ \E p \in Ends, c \in Names : fd[p][c] \notin {NotOpen, name[c]}
=============================================================================
