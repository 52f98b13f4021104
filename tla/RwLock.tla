------------------------------- MODULE RwLock -------------------------------
(***************************************************************************)
(* Application/ipc/rwlock: writer threads append to a common text and      *)
(* reader threads print it, under a read-write lock; main() joins all.     *)
(* The second it sleeps before the readers orders nothing.  A text is the  *)
(* sequence of the writers whose messages it holds.                        *)
(***************************************************************************)
EXTENDS Sequences, Naturals, FiniteSets, Functions

CONSTANTS RwReaders, RwWriters

ASSUME ThreadsAssumption == RwReaders \cap RwWriters = {}

VARIABLES
  rwpc,     \* where each thread stands
  data,     \* rw_res_t.data
  strend,   \* where strcat of each writer found the end of the text
  shown     \* what each reader printed

rwVars == <<rwpc, data, strend, shown>>

RwThreads == RwReaders \cup RwWriters

RwInit ==
  /\ rwpc = [t \in RwThreads |-> "new"]
  /\ data = <<>>
  /\ strend = [w \in RwWriters |-> 0]
  /\ shown = [r \in RwReaders |-> <<>>]

Inside(T) == \E t \in T : rwpc[t] \in {"in", "append"}

rdlock(t) ==
  /\ rwpc[t] = "new" /\ ~Inside(RwWriters)
  /\ rwpc' = [rwpc EXCEPT ![t] = "in"]
  /\ UNCHANGED <<data, strend, shown>>

wrlock(t) ==
  /\ rwpc[t] = "new" /\ ~Inside(RwThreads)
  /\ rwpc' = [rwpc EXCEPT ![t] = "in"]
  /\ UNCHANGED <<data, strend, shown>>

(* gets() of the message, and strcat in two steps: the end is looked for,  *)
(* then the message is copied there.                                       *)
strcat_finds(w) ==
  /\ rwpc[w] = "in"
  /\ strend' = [strend EXCEPT ![w] = Len(data)]
  /\ rwpc' = [rwpc EXCEPT ![w] = "append"]
  /\ UNCHANGED <<data, shown>>

strcat_copies(w) ==
  /\ rwpc[w] = "append"
  /\ data' = Append(SubSeq(data, 1, strend[w]), w)
  /\ rwpc' = [rwpc EXCEPT ![w] = "done"]
  /\ UNCHANGED <<strend, shown>>

(* Mutant: the writers share the lock. *)
WriterSharesLock(w) ==
  \/ rwpc[w] = "new" /\ rwpc' = [rwpc EXCEPT ![w] = "in"] /\ UNCHANGED <<data, strend, shown>>
  \/ strcat_finds(w) \/ strcat_copies(w)

writer(w) == wrlock(w) \/ strcat_finds(w) \/ strcat_copies(w)

reader(r) ==
  \/ rdlock(r)
  \/ /\ rwpc[r] = "in"
     /\ shown' = [shown EXCEPT ![r] = data]
     /\ rwpc' = [rwpc EXCEPT ![r] = "done"]
     /\ UNCHANGED <<data, strend>>

RwNext == (\E w \in RwWriters : writer(w)) \/ (\E r \in RwReaders : reader(r))

-----------------------------------------------------------------------------
RwTypeOK ==
  /\ rwpc \in [RwThreads -> {"new", "in", "append", "done"}]
  /\ data \in Seq(RwWriters)
  /\ strend \in [RwWriters -> 0 .. Len(data)]
  /\ shown \in [RwReaders -> Seq(RwWriters)]

(* No message is lost and none a reader has seen is taken back: the text   *)
(* holds each finished writer's message once, and what readers printed is  *)
(* a beginning of it.                                                      *)
MessagesKept ==
  /\ Range(data) = {w \in RwWriters : rwpc[w] = "done"}
  /\ Len(data) = Cardinality(Range(data))
  /\ \A r \in RwReaders : /\ Len(shown[r]) <= Len(data)
                           /\ shown[r] = SubSeq(data, 1, Len(shown[r]))
=============================================================================
