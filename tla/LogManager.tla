----------------------------- MODULE LogManager -----------------------------
(***************************************************************************)
(* LogManager, its flush thread, and DiskManager::WriteLog underneath it.   *)
(* call[t] is the method thread t is inside and how far it got:             *)
(*   "none"                 not in the log manager                          *)
(*   "append", "flush", "run", "stop"   about to lock latch_                 *)
(*   "flushing"             in FlushAllLogs' loop, holding latch_           *)
(*   "join"                 in StopFlushThread, waiting for the flush thread *)
(* and for the flush thread itself                                           *)
(*   "off", "loop" (the while test), "lock", "check" (holding latch_),      *)
(*   "flush" (calling FlushAllLogs, holding latch_), "wait" (in wait_for).  *)
(* A record is its LSN. A record's address is a block of the vector and a   *)
(* position in it, which is what WriteLog compares with buffer_used.        *)
(***************************************************************************)
EXTENDS Integers, Sequences, FiniteSets, SequencesExt

CONSTANTS Threads, FlushThread,
          Free,    \* a mutex nobody holds
          Blocks,  \* where the vector's storage may be
          MaxLsn   \* bound: records the threads ever append

ASSUME LogAssumption ==
    /\ FlushThread \notin Threads
    /\ Free \notin Threads \cup {FlushThread}
    /\ MaxLsn \in Nat
    /\ Blocks # {} /\ \A b \in Blocks : Blocks \ {b} # {}

VARIABLES
    latch,                 \* who holds latch_
    next_lsn,              \* next_lsn_
    persistent_lsn,        \* persistent_lsn_
    log_buffer,            \* log_buffer_
    capacity, block,       \* its capacity and storage
    flush_pos,             \* the record FlushAllLogs' loop is at
    flush_thread_running,  \* flush_thread_running_
    call,                  \* where each thread is
    buffer_used,           \* DiskManager::buffer_used
    log_file               \* the records in the log file

logVars == <<latch, next_lsn, persistent_lsn, log_buffer, capacity, block, flush_pos,
             flush_thread_running, call, buffer_used, log_file>>

All == Threads \cup {FlushThread}
INVALID_LSN == -1
Nowhere == <<>>
Lsns == 0..(MaxLsn - 1)

LogTypeOK ==
    /\ latch \in All \cup {Free}
    /\ next_lsn \in 0..MaxLsn
    /\ persistent_lsn \in Lsns \cup {INVALID_LSN}
    /\ log_buffer \in Seq(Lsns) /\ Len(log_buffer) <= capacity
    /\ capacity \in 0..(2 * MaxLsn) /\ block \in Blocks
    /\ flush_pos \in 1..(MaxLsn + 1)
    /\ flush_thread_running \in BOOLEAN
    /\ call \in [All -> {"none", "append", "flush", "flushing", "run", "stop", "join",
                         "off", "loop", "lock", "check", "wait"}]
    /\ buffer_used \in (Blocks \X (1..MaxLsn)) \cup {Nowhere}
    /\ log_file \in Seq(Lsns)

LogInit ==
    /\ latch = Free
    /\ next_lsn = 0
    /\ persistent_lsn = INVALID_LSN
    /\ log_buffer = <<>>
    /\ capacity = 0 /\ block = CHOOSE b \in Blocks : TRUE
    /\ flush_pos = 1
    /\ flush_thread_running = FALSE
    /\ call = [t \in All |-> IF t = FlushThread THEN "off" ELSE "none"]
    /\ buffer_used = Nowhere
    /\ log_file = <<>>

Enter(t, method) == call' = [call EXCEPT ![t] = method]
Return(t) == call' = [call EXCEPT ![t] = "none"]
-----------------------------------------------------------------------------

(* log_buffer_.push_back: a full vector moves to a block twice as large *)
PushBack(r) ==
    /\ log_buffer' = Append(log_buffer, r)
    /\ IF Len(log_buffer) < capacity
       THEN UNCHANGED <<capacity, block>>
       ELSE /\ capacity' = IF capacity = 0 THEN 1 ELSE 2 * capacity
            /\ block' \in Blocks \ {block}

(* Mutant: the LSN is read before the latch and not advanced with it *)
AppendSharesLsn(t) ==
    /\ call[t] = "append" /\ latch = Free
    /\ next_lsn' = IF log_buffer = <<>> THEN next_lsn + 1 ELSE next_lsn
    /\ PushBack(IF log_buffer = <<>> THEN next_lsn ELSE Last(log_buffer))
    /\ Return(t)
    /\ UNCHANGED <<latch, persistent_lsn, flush_pos, flush_thread_running, buffer_used, log_file>>

AppendLogRecord(t) ==
    /\ call[t] = "append" /\ latch = Free
    /\ next_lsn' = next_lsn + 1
    /\ PushBack(next_lsn)
    /\ Return(t)
    /\ UNCHANGED <<latch, persistent_lsn, flush_pos, flush_thread_running, buffer_used, log_file>>

(* FlushAllLogs takes latch_ for its whole loop. For the flush thread latch *)
(* is never Free here: it holds it.                                         *)
FlushAllLogs(t) ==
    /\ call[t] = "flush" /\ latch = Free
    /\ IF log_buffer = <<>>
       THEN Return(t) /\ UNCHANGED <<latch, flush_pos>>
       ELSE latch' = t /\ flush_pos' = 1 /\ Enter(t, "flushing")
    /\ UNCHANGED <<next_lsn, persistent_lsn, log_buffer, capacity, block,
                   flush_thread_running, buffer_used, log_file>>

(* WriteLog(&record): a record at the address written last is skipped *)
WriteLog(address, r) ==
    IF address = buffer_used
    THEN UNCHANGED <<buffer_used, log_file>>
    ELSE buffer_used' = address /\ log_file' = Append(log_file, r)

FlushRecord(t) ==
    /\ call[t] = "flushing" /\ flush_pos <= Len(log_buffer)
    /\ WriteLog(<<block, flush_pos>>, log_buffer[flush_pos])
    /\ persistent_lsn' = log_buffer[flush_pos]
    /\ flush_pos' = flush_pos + 1
    /\ UNCHANGED <<latch, next_lsn, log_buffer, capacity, block, flush_thread_running, call>>

(* FlushLog, then clear(), which keeps the vector's storage *)
FlushEnd(t) ==
    /\ call[t] = "flushing" /\ flush_pos > Len(log_buffer)
    /\ log_buffer' = <<>>
    /\ latch' = Free
    /\ Return(t)
    /\ UNCHANGED <<next_lsn, persistent_lsn, capacity, block, flush_pos,
                   flush_thread_running, buffer_used, log_file>>
-----------------------------------------------------------------------------

RunFlushThread(t) ==
    /\ call[t] = "run" /\ latch = Free
    /\ IF flush_thread_running
       THEN Return(t) /\ UNCHANGED flush_thread_running
       ELSE /\ flush_thread_running' = TRUE
            /\ call' = [call EXCEPT ![t] = "none", ![FlushThread] = "loop"]
    /\ UNCHANGED <<latch, next_lsn, persistent_lsn, log_buffer, capacity, block, flush_pos,
                   buffer_used, log_file>>

StopFlushThread(t) ==
    /\ call[t] = "stop" /\ latch = Free
    /\ IF flush_thread_running THEN Enter(t, "join") ELSE Return(t)
    /\ flush_thread_running' = FALSE
    /\ UNCHANGED <<latch, next_lsn, persistent_lsn, log_buffer, capacity, block, flush_pos,
                   buffer_used, log_file>>

Join(t) ==
    /\ call[t] = "join" /\ call[FlushThread] = "off"
    /\ Return(t)
    /\ UNCHANGED <<latch, next_lsn, persistent_lsn, log_buffer, capacity, block, flush_pos,
                   flush_thread_running, buffer_used, log_file>>

(* The while test, made without latch_ *)
FlusherTest ==
    /\ call[FlushThread] = "loop"
    /\ Enter(FlushThread, IF flush_thread_running THEN "lock" ELSE "off")
    /\ UNCHANGED <<latch, next_lsn, persistent_lsn, log_buffer, capacity, block, flush_pos,
                   flush_thread_running, buffer_used, log_file>>

FlusherLock ==
    /\ call[FlushThread] = "lock" /\ latch = Free
    /\ latch' = FlushThread
    /\ Enter(FlushThread, "check")
    /\ UNCHANGED <<next_lsn, persistent_lsn, log_buffer, capacity, block, flush_pos,
                   flush_thread_running, buffer_used, log_file>>

(* Calls FlushAllLogs with latch_ held, or releases it in wait_for *)
FlusherCheck ==
    /\ call[FlushThread] = "check"
    /\ IF log_buffer # <<>>
       THEN Enter(FlushThread, "flush") /\ UNCHANGED latch
       ELSE Enter(FlushThread, "wait") /\ latch' = Free
    /\ UNCHANGED <<next_lsn, persistent_lsn, log_buffer, capacity, block, flush_pos,
                   flush_thread_running, buffer_used, log_file>>

(* wait_for ends, by notify_one or after 100 ms: latch_ is locked again and *)
(* released at the end of the loop's body.                                  *)
FlusherWake ==
    /\ call[FlushThread] = "wait" /\ latch = Free
    /\ Enter(FlushThread, "loop")
    /\ UNCHANGED <<latch, next_lsn, persistent_lsn, log_buffer, capacity, block, flush_pos,
                   flush_thread_running, buffer_used, log_file>>

Flusher == FlusherTest \/ FlusherLock \/ FlusherCheck \/ FlusherWake

(* A step of thread t inside the log manager *)
LogStep(t) ==
    \/ AppendLogRecord(t)
    \/ FlushAllLogs(t)
    \/ FlushRecord(t)
    \/ FlushEnd(t)
    \/ RunFlushThread(t)
    \/ StopFlushThread(t)
    \/ Join(t)

LogNext == Flusher \/ \E t \in All : LogStep(t)
-----------------------------------------------------------------------------

(* The flush thread calls FlushAllLogs while it holds latch_ *)
FlusherStuck == call[FlushThread] = "flush" /\ latch = FlushThread

(* Records reach the log file in LSN order and at most once, however        *)
(* appends, flushes and the flush thread interleave, and the buffer holds   *)
(* exactly the records past persistent_lsn, the flushed part of a running   *)
(* loop excepted.                                                           *)
LogOrdered ==
    /\ \A i, j \in DOMAIN log_file : i < j => log_file[i] < log_file[j]
    /\ \A i \in DOMAIN log_file : log_file[i] <= persistent_lsn
    /\ LET unflushed == IF \E t \in All : call[t] = "flushing"
                        THEN SubSeq(log_buffer, flush_pos, Len(log_buffer)) ELSE log_buffer
       IN  unflushed = [i \in 1..(next_lsn - 1 - persistent_lsn) |-> persistent_lsn + i]

(* A record counted as persistent is in the log file ("Flush all logs in    *)
(* buffer to disk", log_manager.h:40).                                      *)
PersistentMeansWritten == \A n \in 0..persistent_lsn : n \in ToSet(log_file)
=============================================================================
