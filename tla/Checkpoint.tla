----------------------------- MODULE Checkpoint -----------------------------
(***************************************************************************)
(* The commands of the HMSSQL instance that log and checkpoint, run by the  *)
(* threads of the daemon's HTTP server on one instance: CREATE DATABASE     *)
(* (which appends a log record), \checkpoint (BeginCheckpoint, then         *)
(* EndCheckpoint), \save (SaveState: BeginCheckpoint, then the state file)  *)
(* and the destructor (SaveState, then StopFlushThread), over CheckpointManager *)
(* and the log manager.                                                      *)
(*                                                                         *)
(* pc[t] is where thread t is in its command:                                *)
(*   "idle"; "create" before and "log" after catalog_lock_ is locked;        *)
(*   "begin" about to lock checkpoint_mutex_, "wal" in FlushAllLogs,         *)
(*   "pages" in FlushAllPages, all of BeginCheckpoint; "end" about to lock   *)
(*   checkpoint_mutex_ and "resume" in RunFlushThread, of EndCheckpoint;     *)
(*   "save" writing the state file; "stop" in ~LogManager; "gone".           *)
(***************************************************************************)
EXTENDS LogManager

CONSTANTS Names  \* database names sessions create

ASSUME CheckpointAssumption == IsFiniteSet(Names) /\ Cardinality(Names) <= MaxLsn

VARIABLES
    pc, op,                  \* each thread's place and command
    databases,               \* the names in databases_
    catalog_lock,            \* who holds catalog_lock_ exclusively
    checkpoint_mutex,        \* who holds checkpoint_mutex_
    checkpoint_in_progress,  \* checkpoint_in_progress_
    begin_lsn                \* history: next_lsn when the last checkpoint began

cpVars == <<pc, op, databases, catalog_lock, checkpoint_mutex, checkpoint_in_progress, begin_lsn>>
vars == <<logVars, cpVars>>

NoOp == "none"

TypeOK ==
    /\ LogTypeOK
    /\ pc \in [Threads -> {"idle", "create", "log", "begin", "wal", "pages", "end", "resume",
                           "save", "stop", "gone"}]
    /\ op \in [Threads -> Names \cup {NoOp, "checkpoint", "save", "destroy"}]
    /\ databases \subseteq Names
    /\ catalog_lock \in Threads \cup {Free}
    /\ checkpoint_mutex \in Threads \cup {Free}
    /\ checkpoint_in_progress \in BOOLEAN
    /\ begin_lsn \in 0..MaxLsn

Init ==
    /\ LogInit
    /\ pc = [t \in Threads |-> "idle"]
    /\ op = [t \in Threads |-> NoOp]
    /\ databases = {}
    /\ catalog_lock = Free
    /\ checkpoint_mutex = Free
    /\ checkpoint_in_progress = FALSE
    /\ begin_lsn = 0

Go(t, place) == pc' = [pc EXCEPT ![t] = place] /\ UNCHANGED op
Done(t) == pc' = [pc EXCEPT ![t] = "idle"] /\ op' = [op EXCEPT ![t] = NoOp]
-----------------------------------------------------------------------------

(* A request arrives. The instance is destroyed when no request is running. *)
Request(t, o) ==
    /\ \A u \in Threads : pc[u] # "gone" /\ op[u] # "destroy"
    /\ pc[t] = "idle"
    /\ o = "destroy" => \A u \in Threads : pc[u] = "idle"
    /\ op' = [op EXCEPT ![t] = o]
    /\ pc' = [pc EXCEPT ![t] = IF o \in Names THEN "create" ELSE "begin"]
    /\ UNCHANGED <<logVars, databases, catalog_lock, checkpoint_mutex, checkpoint_in_progress,
                   begin_lsn>>

(* CreateDatabase: catalog_lock_ is held while the record is appended *)
CreateDatabase(t) ==
    /\ pc[t] = "create" /\ catalog_lock = Free
    /\ IF op[t] \in databases
       THEN Done(t) /\ UNCHANGED <<call, catalog_lock>>
       ELSE Enter(t, "append") /\ catalog_lock' = t /\ Go(t, "log")
    /\ UNCHANGED <<latch, next_lsn, persistent_lsn, log_buffer, capacity, block, flush_pos,
                   flush_thread_running, buffer_used, log_file, databases, checkpoint_mutex,
                   checkpoint_in_progress, begin_lsn>>

DatabaseCreated(t) ==
    /\ pc[t] = "log" /\ call[t] = "none"
    /\ databases' = databases \cup {op[t]}
    /\ catalog_lock' = Free
    /\ Done(t)
    /\ UNCHANGED <<logVars, checkpoint_mutex, checkpoint_in_progress, begin_lsn>>

(* Mutant: the log is not flushed before the pages *)
BeginCheckpointSkipsLog(t) ==
    /\ pc[t] = "begin" /\ checkpoint_mutex = Free /\ ~ checkpoint_in_progress
    /\ Go(t, "pages")
    /\ checkpoint_mutex' = t
    /\ checkpoint_in_progress' = TRUE
    /\ begin_lsn' = next_lsn
    /\ UNCHANGED <<logVars, databases, catalog_lock>>

(* BeginCheckpoint throws if one is in progress: the request ends, and the  *)
(* destructor, which catches, goes on.                                      *)
BeginCheckpoint(t) ==
    /\ pc[t] = "begin" /\ checkpoint_mutex = Free
    /\ \/ /\ checkpoint_in_progress
          /\ IF op[t] = "destroy" THEN Enter(t, "stop") /\ Go(t, "stop")
             ELSE Done(t) /\ UNCHANGED call
          /\ UNCHANGED <<checkpoint_mutex, checkpoint_in_progress, begin_lsn>>
       \/ /\ ~ checkpoint_in_progress
          /\ Enter(t, "flush") /\ Go(t, "wal")
          /\ checkpoint_mutex' = t
          /\ checkpoint_in_progress' = TRUE
          /\ begin_lsn' = next_lsn
    /\ UNCHANGED <<latch, next_lsn, persistent_lsn, log_buffer, capacity, block, flush_pos,
                   flush_thread_running, buffer_used, log_file, databases, catalog_lock>>

BeginFlushPages(t) ==
    /\ pc[t] = "wal" /\ call[t] = "none"
    /\ Go(t, "pages")
    /\ UNCHANGED <<logVars, databases, catalog_lock, checkpoint_mutex, checkpoint_in_progress,
                   begin_lsn>>

(* FlushAllPages returns (module BufferPool has its steps) *)
BeginReturn(t) ==
    /\ pc[t] = "pages"
    /\ checkpoint_mutex' = Free
    /\ Go(t, IF op[t] = "checkpoint" THEN "end" ELSE "save")
    /\ UNCHANGED <<logVars, databases, catalog_lock, checkpoint_in_progress, begin_lsn>>

(* The rest of SaveState: the checkpoint flag stays set *)
SaveState(t) ==
    /\ pc[t] = "save"
    /\ IF op[t] = "destroy" THEN Enter(t, "stop") /\ Go(t, "stop") ELSE Done(t) /\ UNCHANGED call
    /\ UNCHANGED <<latch, next_lsn, persistent_lsn, log_buffer, capacity, block, flush_pos,
                   flush_thread_running, buffer_used, log_file, databases, catalog_lock,
                   checkpoint_mutex, checkpoint_in_progress, begin_lsn>>

EndCheckpoint(t) ==
    /\ pc[t] = "end" /\ checkpoint_mutex = Free /\ checkpoint_in_progress
    /\ checkpoint_mutex' = t
    /\ Enter(t, "run") /\ Go(t, "resume")
    /\ UNCHANGED <<latch, next_lsn, persistent_lsn, log_buffer, capacity, block, flush_pos,
                   flush_thread_running, buffer_used, log_file, databases, catalog_lock,
                   checkpoint_in_progress, begin_lsn>>

(* Mutant: the mutex is not released *)
EndReturnKeepsMutex(t) ==
    /\ pc[t] = "resume" /\ call[t] = "none"
    /\ checkpoint_in_progress' = FALSE
    /\ Done(t)
    /\ UNCHANGED <<logVars, databases, catalog_lock, checkpoint_mutex, begin_lsn>>

EndReturn(t) ==
    /\ pc[t] = "resume" /\ call[t] = "none"
    /\ checkpoint_in_progress' = FALSE
    /\ checkpoint_mutex' = Free
    /\ Done(t)
    /\ UNCHANGED <<logVars, databases, catalog_lock, begin_lsn>>

Destroyed(t) ==
    /\ pc[t] = "stop" /\ call[t] = "none"
    /\ Go(t, "gone")
    /\ UNCHANGED <<logVars, databases, catalog_lock, checkpoint_mutex, checkpoint_in_progress,
                   begin_lsn>>

Step(t) ==
    \/ CreateDatabase(t) \/ DatabaseCreated(t)
    \/ BeginCheckpoint(t) \/ BeginFlushPages(t) \/ BeginReturn(t)
    \/ SaveState(t)
    \/ EndCheckpoint(t) \/ EndReturn(t)
    \/ Destroyed(t)

Log(t) == LogStep(t) /\ UNCHANGED cpVars
FlusherStep == Flusher /\ UNCHANGED cpVars

Next ==
    \/ \E t \in Threads, o \in Names \cup {"checkpoint", "save", "destroy"} : Request(t, o)
    \/ \E t \in Threads : Step(t) \/ Log(t)
    \/ FlusherStep

(* Every thread keeps running, and one that keeps finding a mutex free gets *)
(* it: the flush thread leaves latch_ alone for 100 ms in every turn.       *)
Fairness ==
    /\ \A t \in Threads : SF_vars(Step(t) \/ Log(t))
    /\ SF_vars(FlusherStep)

Spec == Init /\ [][Next]_vars /\ Fairness
-----------------------------------------------------------------------------

InCheckpoint(t) == pc[t] \in {"wal", "pages", "end", "resume", "save"}

(* At most one thread is between BeginCheckpoint and the end of its         *)
(* command, so EndCheckpoint never throws, though checkpoint_mutex_ is free *)
(* between the two calls.                                                   *)
OneCheckpoint ==
    \A t \in Threads : InCheckpoint(t) =>
        /\ checkpoint_in_progress
        /\ \A u \in Threads \ {t} : ~ InCheckpoint(u)

(* When a checkpoint writes pages, every record appended before it began    *)
(* has been flushed, whatever other threads append meanwhile.               *)
LogBeforePages ==
    \A t \in Threads : pc[t] \in {"pages", "end", "save"} => persistent_lsn >= begin_lsn - 1

(* The state of a checkpoint is that of the one thread that performs it,    *)
(* and its pages follow their log (checkpoint_manager.cpp:17-58).           *)
CheckpointConsistent == TypeOK /\ OneCheckpoint /\ LogBeforePages

(* Every command ends, the destructor's join included, unless the flush     *)
(* thread waits for the latch it holds: no other order of the four locks    *)
(* blocks anyone.                                                           *)
CommandsEnd ==
    \A t \in Threads : pc[t] \notin {"idle", "gone"} ~> pc[t] \in {"idle", "gone"} \/ FlusherStuck

(* The flush thread that EndCheckpoint starts empties the log buffer        *)
(* ("Start background flush thread", log_manager.h:34).                     *)
FlushThreadFlushes ==
    flush_thread_running /\ log_buffer # <<>> ~> log_buffer = <<>> \/ ~ flush_thread_running

=============================================================================
