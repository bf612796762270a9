------------------------------ MODULE HostSafety ------------------------------
(***************************************************************************)
(* The durable kill switch (risk/kill_switch.py) of several processes over *)
(* one CompositeSafetyStateStore: an append-only journal in PostgreSQL and *)
(* a latch file (persistence/safety_state.py, risk/safety_state.py), and   *)
(* the host supervisor, which starts PAPER_LITE after a reboot and may     *)
(* issue one automatic incident-CLEAR per boot (scripts/                   *)
(* check_soak_safety_coherent.py, check_boot_clear_eligible.py,            *)
(* claim_boot_clear.py, driven by host_supervisor.ps1).                    *)
(*                                                                         *)
(* A save is three writes: the journal row takes its sequence number when  *)
(* it is inserted and is visible once committed, then the latch file is    *)
(* replaced, then the switch in memory changes.  A start-up reads the      *)
(* journal and then the latch.  All of it interleaves between processes,   *)
(* and any write may fail or be the last of its process.                   *)
(***************************************************************************)
EXTENDS Integers, Sequences, FiniteSets

CONSTANTS
    Procs,          \* processes that share the store
    Paper,          \* the one that the supervisor starts: PAPER_LITE
    Missing,        \* no latch file, no marker, no row
    MaxSaves,       \* bound on trips and resets
    MaxFaults,      \* bound on failures, crashes and losses
    MaxBoots        \* bound on boots

ASSUME PaperAssumption == Paper \in Procs

ASSUME MissingAssumption == Missing \notin Nat /\ Missing \notin {"RUNNING", "HALTED"}

VARIABLES
    rows,       \* committed rows of safety_state_events
    nextSeq,    \* the identity column
    latch,      \* the latch file
    switch,     \* the KillSwitch of each process, OFF when it is not running
    task,       \* what each process is doing
    boot,       \* the current boot
    marker,     \* the boot that the marker file records as consumed
    supervisor, \* where the host supervisor is
    clears,     \* boots for which an automatic CLEAR was issued, in order
    tripped,    \* history: sequence numbers of the trips that returned
    owed,       \* history: a trip has returned, alone, and no reset has begun since
    rolledBack, \* history: the database has been reset or restored
    saves, faults

stores == <<rows, nextSeq, latch>>
host == <<boot, marker, supervisor, clears>>
history == <<tripped, owed, rolledBack>>
vars == <<stores, switch, task, host, history, saves, faults>>

Idle == [at |-> "idle"]

\* The state of one of these rows, if there is one.
StateOf(rs) == IF rs = {} THEN Missing ELSE (CHOOSE r \in rs : TRUE).state

\* PostgresSafetyStateStore.load(): by sequence.
JournalState == StateOf({r \in rows : \A s \in rows : s.seq <= r.seq})

\* Mutants: the composite trusts one of its stores.
RecoveredFromJournal(journal, file) ==
    IF journal = "RUNNING" THEN "RUNNING" ELSE "UNKNOWN"

RecoveredFromLatch(journal, file) ==
    IF file = "RUNNING" THEN "RUNNING" ELSE "UNKNOWN"

\* CompositeSafetyStateStore.load() and KillSwitch.on_startup()
RecoveredState(journal, file) ==
    CASE journal = "RUNNING" /\ file = "RUNNING" -> "RUNNING"
      [] journal = "HALTED" /\ file # "RUNNING" -> "HALTED"
      [] OTHER -> "UNKNOWN"

------------------------------------------------------------------------------
(* trip() and reset()                                                      *)

\* reset_halt() of an operator, or --initialize-paper-safety of a process that
\* is not running yet; trip() of a process for a reason of its own, or
\* halt_new_orders().  Re-tripping is allowed.
Begin(p, state) ==
    /\ task[p].at = "idle"
    /\ state = "HALTED" => switch[p] # "OFF"
    /\ saves < MaxSaves /\ saves' = saves + 1
    /\ task' = [task EXCEPT ![p] = [at |-> "insert", state |-> state, began |-> saves]]
    /\ owed' = (owed /\ state = "HALTED")
    /\ UNCHANGED <<stores, switch, host, tripped, rolledBack, faults>>

Trip(p) == Begin(p, "HALTED")

Reset(p) == Begin(p, "RUNNING")

\* PostgresSafetyStateStore.save(): the row takes its number.
Insert(p) ==
    /\ task[p].at = "insert"
    /\ task' = [task EXCEPT ![p] = [at |-> "commit", state |-> task[p].state,
                                    began |-> task[p].began, seq |-> nextSeq]]
    /\ nextSeq' = nextSeq + 1
    /\ UNCHANGED <<rows, latch, switch, host, history, saves, faults>>

\* The transaction commits.
Commit(p) ==
    /\ task[p].at = "commit"
    /\ rows' = rows \cup {[seq |-> task[p].seq, began |-> task[p].began, state |-> task[p].state]}
    /\ task' = [task EXCEPT ![p].at = "latch"]
    /\ UNCHANGED <<nextSeq, latch, switch, host, history, saves, faults>>

Resetting(p) == task[p].at \in {"insert", "commit", "latch"} /\ task[p].state = "RUNNING"

\* FileSafetyStateStore.save() replaces the file; then the switch changes and
\* the call returns.
Finish(p) ==
    /\ task[p].at = "latch"
    /\ latch' = task[p].state
    /\ switch' = [switch EXCEPT ![p] = task[p].state]
    /\ task' = [task EXCEPT ![p] = Idle]
    /\ IF task[p].state = "HALTED"
       THEN /\ tripped' = tripped \cup {task[p].seq}
            /\ owed' = (owed \/ ~\E q \in Procs : Resetting(q))
       ELSE UNCHANGED <<tripped, owed>>
    /\ UNCHANGED <<rows, nextSeq, host, rolledBack, saves, faults>>

\* The journal or the latch refuses the write: the exception propagates, and the
\* switch keeps the state it had.
SaveFails(p) ==
    /\ task[p].at \in {"insert", "commit", "latch"}
    /\ faults < MaxFaults /\ faults' = faults + 1
    /\ task' = [task EXCEPT ![p] = Idle]
    /\ UNCHANGED <<stores, switch, host, history, saves>>

------------------------------------------------------------------------------
(* on_startup()                                                            *)

StartUp(p) ==
    task' = [task EXCEPT ![p] = [at |-> "latchRead", journal |-> JournalState, saw |-> tripped]]

\* build_durable_runtime(), or an operator's start of PAPER_LITE.
ReadJournal(p) ==
    /\ switch[p] = "OFF" /\ task[p].at = "idle"
    /\ StartUp(p)
    /\ UNCHANGED <<stores, switch, host, history, saves, faults>>

ReadLatch(p) ==
    /\ task[p].at = "latchRead"
    /\ switch' = [switch EXCEPT ![p] = RecoveredState(task[p].journal, latch)]
    /\ task' = [task EXCEPT ![p] = Idle]
    /\ UNCHANGED <<stores, host, history, saves, faults>>

Crash(p) ==
    /\ switch[p] # "OFF" \/ task[p].at # "idle"
    /\ faults < MaxFaults /\ faults' = faults + 1
    /\ switch' = [switch EXCEPT ![p] = "OFF"]
    /\ task' = [task EXCEPT ![p] = Idle]
    /\ UNCHANGED <<stores, host, history, saves>>

------------------------------------------------------------------------------
(* The stores themselves                                                   *)

\* reset_soak_database.py (n = 0), or a restore of an older backup.
RollBack(n) ==
    /\ faults < MaxFaults /\ faults' = faults + 1
    /\ \A p \in Procs : task[p].at # "commit"
    /\ rows # {}
    /\ rows' = {r \in rows : r.seq <= n}
    /\ nextSeq' = n + 1
    /\ rolledBack' = TRUE
    /\ UNCHANGED <<latch, switch, task, host, tripped, owed, saves>>

LoseLatch ==
    /\ faults < MaxFaults /\ faults' = faults + 1
    /\ latch # Missing /\ latch' = Missing
    /\ UNCHANGED <<rows, nextSeq, switch, task, host, history, saves>>

------------------------------------------------------------------------------
(* The host supervisor                                                     *)

\* Start-PaperLiteStage: no writer is running and check_soak_safety_coherent.py
\* finds both stores RUNNING; it orders the rows by the time their transaction
\* began, not by sequence.
CheckCoherent ==
    /\ supervisor = "idle"
    /\ switch[Paper] = "OFF"
    /\ latch = "RUNNING" /\ StateOf({r \in rows : \A s \in rows : s.began <= r.began}) = "RUNNING"
    /\ supervisor' = "eligible"
    /\ UNCHANGED <<stores, switch, task, boot, marker, clears, history, saves, faults>>

\* Mutant: a marker of the current boot counts as older.
CheckEligibleAgain ==
    /\ supervisor = "eligible"
    /\ supervisor' = IF marker # Missing /\ marker <= boot THEN "claim" ELSE "idle"
    /\ UNCHANGED <<stores, switch, task, boot, marker, clears, history, saves, faults>>

\* check_boot_clear_eligible.py: a readable marker strictly older than the boot.
CheckEligible ==
    /\ supervisor = "eligible"
    /\ supervisor' = IF marker # Missing /\ marker < boot THEN "claim" ELSE "idle"
    /\ UNCHANGED <<stores, switch, task, boot, marker, clears, history, saves, faults>>

\* claim_boot_clear.py: a temporary file replaces the marker, or nothing does.
Claim ==
    /\ supervisor = "claim"
    /\ \/ /\ marker' = boot /\ supervisor' = "start"
          /\ UNCHANGED faults
       \/ /\ faults < MaxFaults /\ faults' = faults + 1
          /\ supervisor' = "idle"
          /\ UNCHANGED marker
    /\ UNCHANGED <<stores, switch, task, boot, clears, history, saves>>

\* PAPER_LITE is spawned with --confirm-paper-incident-clear; like any other
\* process it reads its safety state first.
Spawn ==
    /\ supervisor = "start"
    /\ switch[Paper] = "OFF" /\ task[Paper].at = "idle"
    /\ clears' = Append(clears, boot)
    /\ StartUp(Paper)
    /\ supervisor' = "idle"
    /\ UNCHANGED <<stores, switch, boot, marker, history, saves, faults>>

SupervisorDies ==
    /\ supervisor # "idle"
    /\ faults < MaxFaults /\ faults' = faults + 1
    /\ supervisor' = "idle"
    /\ UNCHANGED <<stores, switch, task, boot, marker, clears, history, saves>>

\* bootstrap_boot_clear_marker.ps1: the current boot is recorded as consumed.
Bootstrap ==
    /\ supervisor = "idle" /\ marker = Missing
    /\ marker' = boot
    /\ UNCHANGED <<stores, switch, task, boot, supervisor, clears, history, saves, faults>>

Reboot ==
    /\ boot < MaxBoots
    /\ boot' = boot + 1
    /\ switch' = [p \in Procs |-> "OFF"]
    /\ task' = [p \in Procs |-> Idle]
    /\ supervisor' = "idle"
    /\ UNCHANGED <<stores, marker, clears, history, saves, faults>>

Init ==
    /\ rows = {} /\ nextSeq = 1
    /\ latch = Missing
    /\ switch = [p \in Procs |-> "OFF"]
    /\ task = [p \in Procs |-> Idle]
    /\ boot = 1 /\ marker = Missing
    /\ supervisor = "idle"
    /\ clears = <<>>
    /\ tripped = {} /\ owed = FALSE /\ rolledBack = FALSE
    /\ saves = 0 /\ faults = 0

Next ==
    \/ \E p \in Procs :
          \/ Trip(p) \/ Reset(p) \/ Insert(p) \/ Commit(p) \/ Finish(p) \/ SaveFails(p)
          \/ ReadJournal(p) \/ ReadLatch(p) \/ Crash(p)
    \/ \E n \in 0..(nextSeq - 1) : RollBack(n)
    \/ LoseLatch
    \/ CheckCoherent \/ CheckEligible \/ Claim \/ Spawn \/ SupervisorDies
    \/ Bootstrap \/ Reboot

Spec == Init /\ [][Next]_vars
------------------------------------------------------------------------------
States == {"RUNNING", "HALTED", "UNKNOWN"}

TypeOK ==
    /\ nextSeq \in Nat \ {0}
    /\ rows \subseteq [seq : 1..nextSeq, began : Nat, state : {"RUNNING", "HALTED"}]
    /\ latch \in {"RUNNING", "HALTED", Missing}
    /\ switch \in [Procs -> States \cup {"OFF"}]
    /\ boot \in Nat /\ marker \in Nat \cup {Missing}
    /\ supervisor \in {"idle", "eligible", "claim", "start"}

\* A halt that no operator has begun to lift outlives the database: once trip()
\* has returned, no start-up permits orders, although the journal be wiped or
\* restored from before the halt and the latch file be lost (ADR-002).
HaltOutlivesTheDatabase == owed => RecoveredState(JournalState, latch) # "RUNNING"

\* A process comes up RUNNING only if every trip that had returned when it
\* began to read is answered by a reset that the journal orders after it,
\* however that reset and that trip overlapped.
StartsSeeEveryTrip ==
    [][\A p \in Procs :
        /\ task[p].at = "latchRead" /\ switch'[p] = "RUNNING"
        /\ ~rolledBack
        => \A n \in task[p].saw : \E r \in rows : r.state = "RUNNING" /\ r.seq > n]_vars

\* The host supervisor issues at most one automatic incident-CLEAR per boot,
\* wherever it dies, whatever write fails and however often it is run again.
OneAutomaticClearPerBoot ==
    \A i, j \in DOMAIN clears : clears[i] = clears[j] => i = j
==============================================================================
