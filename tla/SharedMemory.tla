---------------------------- MODULE SharedMemory ----------------------------
(***************************************************************************)
(* Application/ipc/sharemem: with two arguments the program prints the     *)
(* count in a named shared segment, with three it replaces segment and     *)
(* semaphore by new ones and stores a count.  Names are replaced one by    *)
(* one, while other processes of either kind are under way.                *)
(***************************************************************************)
EXTENDS Naturals

CONSTANTS Printers,  \* processes with two arguments
          Storers,   \* processes with three
          MaxSegs    \* segments, and semaphores, ever made: the bound

ASSUME SegsAssumption  == MaxSegs \in Nat
ASSUME ProcsAssumption == Printers \cap Storers = {}

VARIABLES
  shm, sem0,      \* what each of the two names stands for, 0 for nothing
  newShm, newSem, \* objects made so far
  stored,         \* whether a count was stored in each segment
  value,          \* the value of each semaphore
  spc,            \* where each process stands
  map, mutex,     \* the segment and semaphore each process uses
  cut,            \* history: a storer ended before its store
  calm,           \* history: printers since whose start no storer was under way
  disappointed    \* history: a calm printer failed or printed a count nobody stored

shmVars == <<shm, sem0, newShm, newSem, stored, value, spc, map, mutex, cut, calm, disappointed>>

Procs == Printers \cup Storers
StorersActive == {p \in Storers : spc[p] # "off"}

ShmInit ==
  /\ shm = 0 /\ sem0 = 0 /\ newShm = 0 /\ newSem = 0
  /\ stored = [i \in 1 .. MaxSegs |-> FALSE]
  /\ value = [i \in 1 .. MaxSegs |-> 1]
  /\ spc = [p \in Procs |-> "off"]
  /\ map = [p \in Procs |-> 0] /\ mutex = [p \in Procs |-> 0]
  /\ cut = TRUE /\ calm = {} /\ disappointed = FALSE

To(p, pc) == spc' = [spc EXCEPT ![p] = pc]

Leaves(p) == To(p, "off") /\ map' = [map EXCEPT ![p] = 0] /\ mutex' = [mutex EXCEPT ![p] = 0]

(* exit(-1), or a signal. *)
Quits(p) == Leaves(p) /\ cut' = (cut \/ p \in Storers)

print_starts(p) ==
  /\ p \in Printers /\ spc[p] = "off"
  /\ To(p, "shm_open")
  /\ calm' = IF StorersActive = {} /\ ~cut THEN calm \cup {p} ELSE calm \ {p}
  /\ UNCHANGED <<shm, sem0, newShm, newSem, stored, value, map, mutex, cut, disappointed>>

(* shm_unlink, the first call of a storer. *)
shm_unlink(p) ==
  /\ p \in Storers /\ spc[p] = "off"
  /\ cut' = (cut /\ StorersActive # {})
  /\ calm' = {}
  /\ shm' = 0
  /\ To(p, "shm_open")
  /\ UNCHANGED <<sem0, newShm, newSem, stored, value, map, mutex, disappointed>>

(* A storer makes the segment and fails if the name exists (O_EXCL); a     *)
(* printer fails if it does not.                                           *)
shm_open(p) ==
  /\ spc[p] = "shm_open"
  /\ IF (p \in Printers) = (shm = 0)
     THEN Quits(p) /\ disappointed' = (disappointed \/ p \in calm) /\ UNCHANGED <<shm, newShm>>
     ELSE /\ To(p, IF p \in Storers THEN "sem_unlink" ELSE "sem_open")
          /\ p \in Storers => newShm < MaxSegs
          /\ newShm' = IF p \in Storers THEN newShm + 1 ELSE newShm
          /\ shm' = IF p \in Storers THEN newShm' ELSE shm
          /\ map' = [map EXCEPT ![p] = shm']
          /\ UNCHANGED <<mutex, cut, disappointed>>
  /\ UNCHANGED <<sem0, newSem, stored, value, calm>>

sem_unlink_old(p) ==
  /\ spc[p] = "sem_unlink"
  /\ sem0' = 0
  /\ To(p, "sem_open")
  /\ UNCHANGED <<shm, newShm, newSem, stored, value, map, mutex, cut, calm, disappointed>>

(* The same for the semaphore, whose value starts at 1. *)
sem_open_named(p) ==
  /\ spc[p] = "sem_open"
  /\ IF (p \in Printers) = (sem0 = 0)
     THEN Quits(p) /\ disappointed' = (disappointed \/ p \in calm) /\ UNCHANGED <<sem0, newSem>>
     ELSE /\ To(p, "wait")
          /\ p \in Storers => newSem < MaxSegs
          /\ newSem' = IF p \in Storers THEN newSem + 1 ELSE newSem
          /\ sem0' = IF p \in Storers THEN newSem' ELSE sem0
          /\ mutex' = [mutex EXCEPT ![p] = sem0']
          /\ UNCHANGED <<map, cut, disappointed>>
  /\ UNCHANGED <<shm, newShm, stored, value, calm>>

sem_wait_named(p) ==
  /\ spc[p] = "wait" /\ value[mutex[p]] > 0
  /\ value' = [value EXCEPT ![mutex[p]] = @ - 1]
  /\ To(p, "turn")
  /\ UNCHANGED <<shm, sem0, newShm, newSem, stored, map, mutex, cut, calm, disappointed>>

turn(p) ==
  /\ spc[p] = "turn"
  /\ IF p \in Storers
     THEN stored' = [stored EXCEPT ![map[p]] = TRUE] /\ UNCHANGED disappointed
     ELSE disappointed' = (disappointed \/ (p \in calm /\ ~stored[map[p]])) /\ UNCHANGED stored
  /\ To(p, "post")
  /\ UNCHANGED <<shm, sem0, newShm, newSem, value, map, mutex, cut, calm>>

(* Mutant: a storer tidies up and removes the semaphore's name. *)
PostAndUnlink(p) ==
  /\ spc[p] = "post"
  /\ value' = [value EXCEPT ![mutex[p]] = @ + 1]
  /\ sem0' = IF p \in Storers THEN 0 ELSE sem0
  /\ Leaves(p)
  /\ UNCHANGED <<shm, newShm, newSem, stored, cut, calm, disappointed>>

sem_post_named(p) ==
  /\ spc[p] = "post"
  /\ value' = [value EXCEPT ![mutex[p]] = @ + 1]
  /\ Leaves(p)
  /\ UNCHANGED <<shm, sem0, newShm, newSem, stored, cut, calm, disappointed>>

(* A process is killed: a semaphore it holds stays taken. *)
KillProc(p) ==
  /\ spc[p] # "off"
  /\ Quits(p)
  /\ calm' = calm \ {p}
  /\ UNCHANGED <<shm, sem0, newShm, newSem, stored, value, disappointed>>

ShmNext ==
  \E p \in Procs :
    \/ print_starts(p) \/ shm_unlink(p) \/ shm_open(p) \/ sem_unlink_old(p) \/ sem_open_named(p)
    \/ sem_wait_named(p) \/ turn(p) \/ sem_post_named(p) \/ KillProc(p)

-----------------------------------------------------------------------------
ShmTypeOK ==
  /\ {shm, sem0, newShm, newSem} \subseteq 0 .. MaxSegs
  /\ stored \in [1 .. MaxSegs -> BOOLEAN] /\ value \in [1 .. MaxSegs -> 0 .. 1]
  /\ spc \in [Procs -> {"off", "shm_open", "sem_unlink", "sem_open", "wait", "turn", "post"}]
  /\ map \in [Procs -> 0 .. MaxSegs] /\ mutex \in [Procs -> 0 .. MaxSegs]
  /\ calm \subseteq Printers /\ {cut, disappointed} \subseteq BOOLEAN

(* A printer under way with no storer beside it finds both names and       *)
(* prints a count that was stored, however the storers before it           *)
(* overlapped, unless one of them ended early: segment and semaphore are   *)
(* replaced in two steps, yet whoever replaces one of them last goes on to *)
(* store.                                                                  *)
CalmPrinterPrints == ~disappointed
=============================================================================
