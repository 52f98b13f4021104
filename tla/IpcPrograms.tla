---------------------------- MODULE IpcPrograms ----------------------------
(***************************************************************************)
(* The programs of Application/ipc.  A behaviour runs one of them; of      *)
(* mqueue, fifo, sharemem and systemV several processes.                   *)
(***************************************************************************)
EXTENDS SemProdCons, MutexCond, MessageQueue, Conversation, SharedMemory, RwLock, SystemV

VARIABLE program

vars == <<program, semVars, condVars, mqVars, talkVars, shmVars, rwVars, svVars>>

Init ==
  /\ SemInit /\ CondInit /\ MqInit /\ TalkInit /\ ShmInit /\ RwInit /\ SvInit
  /\ program \in {"sem", "mutex_cond", "mqueue", "fifo", "sharemem", "rwlock", "systemV"}
  /\ overPipe => program = "fifo"

(* What does not run stays as it is. *)
OnlySem == program = "sem" /\ UNCHANGED <<program, condVars, mqVars, talkVars, shmVars, rwVars, svVars>>
OnlyCond == program = "mutex_cond" /\ UNCHANGED <<program, semVars, mqVars, talkVars, shmVars, rwVars, svVars>>
OnlyMq == program = "mqueue" /\ UNCHANGED <<program, semVars, condVars, talkVars, shmVars, rwVars, svVars>>
OnlyTalk == program = "fifo" /\ UNCHANGED <<program, semVars, condVars, mqVars, shmVars, rwVars, svVars>>
OnlyShm == program = "sharemem" /\ UNCHANGED <<program, semVars, condVars, mqVars, talkVars, rwVars, svVars>>
OnlyRw == program = "rwlock" /\ UNCHANGED <<program, semVars, condVars, mqVars, talkVars, shmVars, svVars>>
OnlySv == program = "systemV" /\ UNCHANGED <<program, semVars, condVars, mqVars, talkVars, shmVars, rwVars>>

RunSem == OnlySem /\ SemNext
RunCond == OnlyCond /\ CondNext
RunMq == OnlyMq /\ MqNext
RunTalk == OnlyTalk /\ TalkNext
RunShm == OnlyShm /\ ShmNext
RunRw == OnlyRw /\ RwNext
RunSv == OnlySv /\ SvNext

Next == RunSem \/ RunCond \/ RunMq \/ RunTalk \/ RunShm \/ RunRw \/ RunSv

(* A thread that can go on does, and so does main(); whether a program is  *)
(* started, stopped or killed is open.  A mutex is handed on in the end to *)
(* every thread that keeps asking for it, and room in a message queue to   *)
(* every sender, in the order they wait.                                   *)
Spec ==
  /\ Init /\ [][Next]_vars
  /\ WF_vars(OnlySem /\ (main_joins \/ sem_unlink))
  /\ \A t \in Threads : WF_vars(OnlySem /\ thread_step(t))
  /\ \A w \in Producers : SF_vars(OnlyCond /\ produce(w))
  /\ \A w \in Consumers : SF_vars(OnlyCond /\ consume(w))
  /\ \A e \in Echoers : /\ SF_vars(OnlyMq /\ mq_send(e))
                         /\ WF_vars(OnlyMq /\ (handle_receivemsg(e) \/ pthread_join_echo(e)))

-----------------------------------------------------------------------------
(* Properties. *)

(* Every variable has its type. *)
TypeOK ==
  SemTypeOK /\ CondTypeOK /\ MqTypeOK /\ TalkTypeOK /\ ShmTypeOK /\ RwTypeOK /\ SvTypeOK

(* The threads of sem.c never wait for each other in a circle, on          *)
(* semaphores that no killed run has left: the program ends.               *)
SemFinishes ==
  (program = "sem" /\ run = "threads" /\ kills = 0) ~> (run = "off" \/ kills > 0)

(* The consumers of mutex_cond.c get through their items, although the     *)
(* producers go on for ever and wake one consumer at a time: cnt reaches   *)
(* nitems.                                                                 *)
CondConsumes == program = "mutex_cond" ~> cnt >= nitems

(* A sender of mqueue.c never hangs, although main() may block in mq_send  *)
(* on a full queue while it is its own thread that has yet to receive: of  *)
(* any number of them each takes a message out for the one it puts in.     *)
SendersEnd == \A e \in Echoers : (program = "mqueue" /\ emain[e] # "off") ~> emain[e] = "off"
=============================================================================
