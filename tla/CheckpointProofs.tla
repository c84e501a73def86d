-------------------------- MODULE CheckpointProofs --------------------------
(***************************************************************************)
(* Proofs about the log manager and the checkpoints over it, for any number *)
(* of threads, names and log records. The invariant of the log says what    *)
(* latch_ protects; the one of the checkpoints counts the log records by    *)
(* the databases that were created, which bounds the LSNs.                  *)
(***************************************************************************)
EXTENDS Checkpoint, FiniteSetTheorems, TLAPS

Methods == {"none", "append", "flush", "flushing", "run", "stop", "join"}
FlusherPlaces == {"off", "loop", "lock", "check", "flush", "wait"}

(* latch_ is held by the thread in FlushAllLogs' loop, or by the flush      *)
(* thread from its lock to its wait_for                                     *)
LatchHeld ==
    /\ \A t \in Threads : call[t] \in Methods /\ (latch = t <=> call[t] = "flushing")
    /\ call[FlushThread] \in FlusherPlaces
    /\ latch = FlushThread <=> call[FlushThread] \in {"check", "flush"}

(* The buffer holds the last LSNs in order; what precedes it is persistent, *)
(* and so is the part a running loop has passed                             *)
BufferHolds ==
    /\ Len(log_buffer) <= next_lsn
    /\ \A i \in 1..Len(log_buffer) : log_buffer[i] = next_lsn - Len(log_buffer) + i - 1
    /\ latch \notin Threads => persistent_lsn = next_lsn - Len(log_buffer) - 1
    /\ latch \in Threads => /\ flush_pos \in 1..(Len(log_buffer) + 1)
                            /\ persistent_lsn = next_lsn - Len(log_buffer) + flush_pos - 2

FileOrdered ==
    /\ \A i, j \in DOMAIN log_file : i < j => log_file[i] < log_file[j]
    /\ \A i \in DOMAIN log_file : log_file[i] <= persistent_lsn

LogInv == LogTypeOK /\ LatchHeld /\ BufferHolds /\ FileOrdered

(* The method of the log manager a command is in *)
CallsMatch ==
    \A t \in Threads :
       /\ call[t] = "append" => pc[t] = "log"
       /\ call[t] \in {"flush", "flushing"} => pc[t] = "wal"
       /\ call[t] = "run" => pc[t] = "resume"
       /\ call[t] \in {"stop", "join"} => pc[t] = "stop"

(* Every log record is of a database that was, or is being, created *)
RecordsCounted ==
    /\ \A t \in Threads : catalog_lock = t <=> pc[t] = "log"
    /\ \A t \in Threads : pc[t] = "create" => op[t] \in Names
    /\ \A t \in Threads : pc[t] = "log" => op[t] \in Names \ databases
    /\ catalog_lock = Free => next_lsn = Cardinality(databases)
    /\ \A t \in Threads : pc[t] = "log" =>
          next_lsn = Cardinality(databases) + IF call[t] = "append" THEN 0 ELSE 1

(* FlushAllLogs of the checkpoint covers every record before it *)
WalFlushed ==
    /\ begin_lsn <= next_lsn
    /\ \A t \in Threads : pc[t] = "wal" /\ call[t] = "none" => persistent_lsn >= begin_lsn - 1

CheckpointInv ==
    /\ TypeOK /\ LogInv /\ CallsMatch /\ RecordsCounted
    /\ OneCheckpoint /\ WalFlushed /\ LogBeforePages
-----------------------------------------------------------------------------

(* The log manager's constructor establishes its invariant *)
LEMMA LogStart == LogInit => LogInv
<1> SUFFICES ASSUME LogInit PROVE LogInv
  OBVIOUS
<1> USE LogAssumption DEF LogInit
<1>1. block \in Blocks
  OBVIOUS
<1>2. LogTypeOK
  <2>1. /\ 0 \in 0..MaxLsn /\ 1 \in 1..(MaxLsn + 1) /\ 0 \in 0..(2 * MaxLsn)
        /\ <<>> \in Seq(Lsns) /\ Len(<<>>) = 0
    OBVIOUS
  <2>2. call \in [All -> {"none", "append", "flush", "flushing", "run", "stop", "join",
                         "off", "loop", "lock", "check", "wait"}]
    OBVIOUS
  <2>3. log_buffer \in Seq(Lsns) /\ Len(log_buffer) <= capacity /\ log_file \in Seq(Lsns)
    BY <2>1
  <2>4. latch \in All \cup {Free} /\ persistent_lsn \in Lsns \cup {INVALID_LSN}
        /\ buffer_used \in (Blocks \X (1..MaxLsn)) \cup {Nowhere}
    OBVIOUS
  <2>5. next_lsn \in 0..MaxLsn /\ capacity \in 0..(2 * MaxLsn) /\ flush_pos \in 1..(MaxLsn + 1)
    BY <2>1
  <2> QED BY <1>1, <2>2, <2>3, <2>4, <2>5 DEF LogTypeOK
<1>3. LatchHeld
  BY DEF LatchHeld, All, Methods, FlusherPlaces
<1>4. BufferHolds
  <2>1. Len(<<>>) = 0 /\ 1..0 = {}
    OBVIOUS
  <2>2. Len(log_buffer) = 0 /\ next_lsn = 0 /\ latch \notin Threads
    BY <2>1
  <2>3. persistent_lsn = 0 - 0 - 1
    BY DEF INVALID_LSN
  <2> HIDE DEF LogInit
  <2>4. \A i \in 1..Len(log_buffer) : FALSE
    BY <2>1, <2>2
  <2> QED BY <2>2, <2>3, <2>4 DEF BufferHolds
<1>5. FileOrdered
  BY DEF FileOrdered
<1> QED BY <1>2, <1>3, <1>4, <1>5 DEF LogInv

(* A step of the log manager that only moves threads and hands latch_ over, *)
(* with nobody in the loop before or after it                               *)
LEMMA LogMoves ==
    ASSUME LogInv,
           UNCHANGED <<next_lsn, persistent_lsn, log_buffer, capacity, block, flush_pos,
                       buffer_used, log_file>>,
           flush_thread_running' \in BOOLEAN,
           latch' \in All \cup {Free}, call' \in [All -> Methods \cup FlusherPlaces],
           LatchHeld', latch' = latch \/ (latch \notin Threads /\ latch' \notin Threads)
    PROVE  LogInv'
<1>1. LogTypeOK'
  BY DEF LogInv, LogTypeOK, Methods, FlusherPlaces
<1>2. BufferHolds' /\ FileOrdered'
  BY DEF LogInv, BufferHolds, FileOrdered
<1> QED BY <1>1, <1>2 DEF LogInv

(* A command that is in no method enters one *)
LEMMA EnterKeeps ==
    ASSUME LogInv, NEW t \in Threads, NEW m \in Methods \ {"flushing"}, call[t] # "flushing",
           call' = [call EXCEPT ![t] = m],
           UNCHANGED <<latch, next_lsn, persistent_lsn, log_buffer, capacity, block, flush_pos,
                       buffer_used, log_file>>,
           flush_thread_running' \in BOOLEAN
    PROVE  LogInv'
<1>1. /\ call \in [All -> Methods \cup FlusherPlaces] /\ t \in All /\ t # FlushThread
      /\ latch \in All \cup {Free}
  BY LogAssumption DEF LogInv, LogTypeOK, Methods, FlusherPlaces, All
<1>2. call' \in [All -> Methods \cup FlusherPlaces]
  BY <1>1
<1>3. LatchHeld'
  BY <1>1 DEF LogInv, LatchHeld, All
<1> QED BY <1>1, <1>2, <1>3, LogMoves

(* AppendLogRecord: the next LSN goes to the end of the buffer *)
LEMMA AppendKeeps ==
    ASSUME LogInv, NEW t \in Threads, AppendLogRecord(t), next_lsn < MaxLsn
    PROVE  LogInv'
<1> DEFINE n == Len(log_buffer)
<1>1. /\ LogTypeOK /\ LatchHeld /\ BufferHolds /\ FileOrdered
      /\ n \in Nat /\ n <= next_lsn /\ next_lsn \in Lsns /\ next_lsn \in Nat /\ MaxLsn \in Nat
      /\ log_buffer \in Seq(Lsns) /\ capacity \in Nat /\ n <= capacity
  BY LogAssumption DEF LogInv, LogTypeOK, BufferHolds, Lsns
<1>2. /\ call[t] = "append" /\ latch = Free /\ next_lsn' = next_lsn + 1
      /\ log_buffer' = Append(log_buffer, next_lsn)
      /\ call' = [call EXCEPT ![t] = "none"]
      /\ UNCHANGED <<latch, persistent_lsn, flush_pos, flush_thread_running, buffer_used, log_file>>
  BY DEF AppendLogRecord, PushBack, Return
<1>3. /\ log_buffer' \in Seq(Lsns) /\ Len(log_buffer') = n + 1
      /\ \A i \in 1..n : log_buffer'[i] = log_buffer[i]
      /\ log_buffer'[n + 1] = next_lsn
  BY <1>1, <1>2
<1>4. capacity' \in 0..(2 * MaxLsn) /\ n + 1 <= capacity' /\ block' \in Blocks
  <2>1. CASE n < capacity
    BY <1>1, <2>1 DEF AppendLogRecord, PushBack, LogTypeOK
  <2>2. CASE ~ (n < capacity)
    <3>1. capacity = n
      BY <1>1, <2>2
    <3>2. capacity' = (IF n = 0 THEN 1 ELSE 2 * n) /\ block' \in Blocks
      BY <2>2, <3>1 DEF AppendLogRecord, PushBack
    <3> QED BY <1>1, <3>2
  <2> QED BY <2>1, <2>2
<1>5. call \in [All -> Methods \cup FlusherPlaces] /\ t \in All /\ t # FlushThread /\ Free \notin All
  BY <1>1, LogAssumption DEF LogTypeOK, Methods, FlusherPlaces, All
<1>6. call' \in [All -> Methods \cup FlusherPlaces]
  BY <1>2, <1>5 DEF Methods
<1>7. LogTypeOK'
  BY <1>1, <1>2, <1>3, <1>4, <1>6 DEF LogTypeOK, Methods, FlusherPlaces
<1>8. LatchHeld'
  BY <1>1, <1>2, <1>5 DEF LatchHeld, All, Methods
<1>9. BufferHolds'
  <2>1. \A i \in 1..(n + 1) : log_buffer'[i] = (next_lsn + 1) - (n + 1) + i - 1
    <3>1. ASSUME NEW i \in 1..(n + 1) PROVE log_buffer'[i] = (next_lsn + 1) - (n + 1) + i - 1
      <4>1. CASE i = n + 1
        BY <1>1, <1>3, <4>1
      <4>2. CASE i # n + 1
        <5>1. i \in 1..n
          BY <1>1, <4>2
        <5>2. log_buffer[i] = next_lsn - n + i - 1
          BY <1>1, <5>1 DEF BufferHolds
        <5> QED BY <1>1, <1>3, <5>1, <5>2
      <4> QED BY <4>1, <4>2
    <3> QED BY <3>1
  <2>2. latch \notin Threads /\ persistent_lsn = next_lsn - n - 1
    BY <1>1, <1>2, <1>5 DEF BufferHolds, All
  <2>3. Len(log_buffer') <= next_lsn' /\ persistent_lsn' = next_lsn' - Len(log_buffer') - 1
    BY <1>1, <1>2, <1>3, <2>2
  <2>4. latch' \notin Threads
    BY <1>2, <2>2
  <2> QED BY <1>2, <1>3, <2>1, <2>3, <2>4 DEF BufferHolds
<1>10. FileOrdered'
  BY <1>1, <1>2 DEF FileOrdered
<1> QED BY <1>7, <1>8, <1>9, <1>10 DEF LogInv

(* FlushAllLogs starts, or finds nothing to flush *)
LEMMA FlushStarts ==
    ASSUME LogInv, NEW t \in Threads, FlushAllLogs(t)
    PROVE  LogInv'
<1>1. CASE log_buffer = <<>>
  BY <1>1, EnterKeeps DEF FlushAllLogs, Return, Methods, LogInv, LogTypeOK
<1>2. CASE log_buffer # <<>>
  <2>1. /\ LogTypeOK /\ LatchHeld /\ BufferHolds /\ FileOrdered
    BY DEF LogInv
  <2>2. /\ latch = Free /\ latch' = t /\ flush_pos' = 1
        /\ call' = [call EXCEPT ![t] = "flushing"]
        /\ UNCHANGED <<next_lsn, persistent_lsn, log_buffer, capacity, block,
                       flush_thread_running, buffer_used, log_file>>
    BY <1>2 DEF FlushAllLogs, Enter
  <2>3. call \in [All -> Methods \cup FlusherPlaces] /\ t \in All /\ t # FlushThread /\ Free \notin All
    BY <2>1, LogAssumption DEF LogTypeOK, Methods, FlusherPlaces, All
  <2>4. call' \in [All -> Methods \cup FlusherPlaces]
    BY <2>2, <2>3 DEF Methods
  <2>5. LogTypeOK'
    BY <2>1, <2>2, <2>3, <2>4, LogAssumption DEF LogTypeOK, Methods, FlusherPlaces
  <2>6. LatchHeld'
    BY <2>1, <2>2, <2>3 DEF LatchHeld, All, Methods
  <2>7. BufferHolds'
    <3>1. Len(log_buffer) \in Nat /\ next_lsn \in Nat /\ latch \notin Threads
      BY <2>1, <2>2, <2>3 DEF LogTypeOK, All
    <3>2. persistent_lsn = next_lsn - Len(log_buffer) - 1
      BY <2>1, <3>1 DEF BufferHolds
    <3>3. 1 \in 1..(Len(log_buffer) + 1) /\ persistent_lsn = next_lsn - Len(log_buffer) + 1 - 2
      BY <3>1, <3>2
    <3> QED BY <2>1, <2>2, <3>3 DEF BufferHolds
  <2>8. FileOrdered'
    BY <2>1, <2>2 DEF FileOrdered
  <2> QED BY <2>5, <2>6, <2>7, <2>8 DEF LogInv
<1> QED BY <1>1, <1>2

(* The loop's state, for its two steps *)
LEMMA InLoop ==
    ASSUME LogInv, NEW t \in Threads, call[t] = "flushing"
    PROVE  /\ latch = t /\ flush_pos \in 1..(Len(log_buffer) + 1)
           /\ persistent_lsn = next_lsn - Len(log_buffer) + flush_pos - 2
           /\ Len(log_buffer) \in Nat /\ next_lsn \in Nat /\ MaxLsn \in Nat
           /\ Len(log_buffer) <= next_lsn /\ next_lsn <= MaxLsn
BY LogAssumption DEF LogInv, LatchHeld, BufferHolds, LogTypeOK

(* One record of the loop *)
LEMMA FlushRecordKeeps ==
    ASSUME LogInv, NEW t \in Threads, FlushRecord(t)
    PROVE  LogInv' /\ persistent_lsn' = persistent_lsn + 1
<1> DEFINE n == Len(log_buffer) r == log_buffer[flush_pos]
<1>1. LogTypeOK /\ LatchHeld /\ BufferHolds /\ FileOrdered
  BY DEF LogInv
<1>2. /\ call[t] = "flushing" /\ flush_pos <= n /\ WriteLog(<<block, flush_pos>>, r)
      /\ persistent_lsn' = r /\ flush_pos' = flush_pos + 1
      /\ UNCHANGED <<latch, next_lsn, log_buffer, capacity, block, flush_thread_running, call>>
  BY DEF FlushRecord
<1>3. /\ latch = t /\ flush_pos \in 1..(n + 1)
      /\ persistent_lsn = next_lsn - n + flush_pos - 2
      /\ n \in Nat /\ next_lsn \in Nat /\ MaxLsn \in Nat /\ n <= next_lsn /\ next_lsn <= MaxLsn
  BY <1>2, InLoop
<1>4. flush_pos \in 1..n /\ flush_pos \in 1..MaxLsn
  BY <1>2, <1>3
<1>5. r \in Lsns /\ r = next_lsn - n + flush_pos - 1
  BY <1>1, <1>4 DEF LogTypeOK, BufferHolds
<1>6. r = persistent_lsn + 1 /\ r \in Int /\ persistent_lsn \in Int
  BY <1>3, <1>5 DEF Lsns
<1>7. log_file \in Seq(Lsns)
  BY <1>1 DEF LogTypeOK
<1>13. \A i \in DOMAIN log_file : log_file[i] \in Int
  <2>1. \A i \in DOMAIN log_file : log_file[i] \in Lsns
    BY <1>7
  <2> QED BY <2>1 DEF Lsns
<1>8. \/ log_file' = log_file /\ buffer_used' = buffer_used
      \/ log_file' = Append(log_file, r) /\ buffer_used' = <<block, flush_pos>>
  BY <1>2 DEF WriteLog
<1> HIDE DEF r
<1>9. LogTypeOK'
  <2>1. log_file' \in Seq(Lsns)
    BY <1>5, <1>7, <1>8
  <2>2. buffer_used' \in (Blocks \X (1..MaxLsn)) \cup {Nowhere}
    BY <1>1, <1>4, <1>8 DEF LogTypeOK
  <2>3. flush_pos' \in 1..(MaxLsn + 1) /\ persistent_lsn' \in Lsns \cup {INVALID_LSN}
    BY <1>2, <1>3, <1>4, <1>5
  <2> QED BY <1>1, <1>2, <2>1, <2>2, <2>3 DEF LogTypeOK
<1>10. LatchHeld'
  BY <1>1, <1>2 DEF LatchHeld
<1>11. BufferHolds'
  <2>1. flush_pos' \in 1..(n + 1) /\ persistent_lsn' = next_lsn - n + flush_pos' - 2
    BY <1>2, <1>3, <1>4, <1>5
  <2> QED BY <1>1, <1>2, <1>3, <2>1 DEF BufferHolds
<1>12. FileOrdered'
  <2>1. CASE log_file' = log_file
    BY <1>1, <1>2, <1>6, <1>13, <2>1 DEF FileOrdered
  <2>2. CASE log_file' = Append(log_file, r)
    <3>1. /\ DOMAIN log_file = 1..Len(log_file) /\ DOMAIN log_file' = 1..(Len(log_file) + 1)
          /\ Len(log_file) \in Nat
          /\ \A i \in 1..Len(log_file) : log_file'[i] = log_file[i] /\ log_file[i] \in Int
          /\ log_file'[Len(log_file) + 1] = r
      BY <1>5, <1>7, <1>13, <2>2
    <3>2. \A i \in 1..Len(log_file) : log_file'[i] <= persistent_lsn /\ log_file'[i] < r
      BY <1>1, <1>6, <3>1 DEF FileOrdered
    <3>3. \A i \in DOMAIN log_file' : log_file'[i] <= r
      BY <1>6, <3>1, <3>2
    <3>4. ASSUME NEW i \in DOMAIN log_file', NEW j \in DOMAIN log_file', i < j
          PROVE  log_file'[i] < log_file'[j]
      <4>1. i \in 1..Len(log_file)
        BY <3>1, <3>4
      <4>2. CASE j = Len(log_file) + 1
        BY <3>1, <3>2, <4>1, <4>2
      <4>3. CASE j \in 1..Len(log_file)
        BY <1>1, <3>1, <3>4, <4>1, <4>3 DEF FileOrdered
      <4> QED BY <3>1, <4>2, <4>3
    <3> QED BY <1>2, <3>3, <3>4 DEF FileOrdered
  <2> QED BY <1>8, <2>1, <2>2
<1> QED BY <1>2, <1>6, <1>9, <1>10, <1>11, <1>12 DEF LogInv

(* The end of the loop: everything that was appended is persistent *)
LEMMA FlushEndKeeps ==
    ASSUME LogInv, NEW t \in Threads, FlushEnd(t)
    PROVE  LogInv' /\ persistent_lsn' = next_lsn' - 1
<1> DEFINE n == Len(log_buffer)
<1>1. LogTypeOK /\ LatchHeld /\ BufferHolds /\ FileOrdered
  BY DEF LogInv
<1>2. /\ call[t] = "flushing" /\ flush_pos > n /\ log_buffer' = <<>> /\ latch' = Free
      /\ call' = [call EXCEPT ![t] = "none"]
      /\ UNCHANGED <<next_lsn, persistent_lsn, capacity, block, flush_pos,
                     flush_thread_running, buffer_used, log_file>>
  BY DEF FlushEnd, Return
<1>3. /\ latch = t /\ flush_pos \in 1..(n + 1)
      /\ persistent_lsn = next_lsn - n + flush_pos - 2
      /\ n \in Nat /\ next_lsn \in Nat
  BY <1>2, InLoop
<1>4. persistent_lsn = next_lsn - 1
  <2>1. flush_pos = n + 1
    BY <1>2, <1>3
  <2> QED BY <1>3, <2>1
<1>5. call \in [All -> Methods \cup FlusherPlaces] /\ t \in All /\ t # FlushThread /\ Free \notin All
  BY <1>1, LogAssumption DEF LogTypeOK, Methods, FlusherPlaces, All
<1>6. call' \in [All -> Methods \cup FlusherPlaces]
  BY <1>2, <1>5 DEF Methods
<1>7. LogTypeOK'
  BY <1>1, <1>2, <1>6 DEF LogTypeOK, Methods, FlusherPlaces
<1>8. LatchHeld'
  BY <1>1, <1>2, <1>3, <1>5 DEF LatchHeld, All, Methods
<1>9. BufferHolds'
  <2>1. Len(log_buffer') = 0 /\ latch' \notin Threads
    BY <1>2, <1>5 DEF All
  <2> QED BY <1>2, <1>3, <1>4, <2>1 DEF BufferHolds
<1>10. FileOrdered'
  BY <1>1, <1>2 DEF FileOrdered
<1> QED BY <1>2, <1>4, <1>7, <1>8, <1>9, <1>10 DEF LogInv

(* RunFlushThread starts the flush thread, which is not holding latch_ *)
LEMMA RunKeeps ==
    ASSUME LogInv, NEW t \in Threads, RunFlushThread(t)
    PROVE  LogInv'
<1>1. CASE flush_thread_running
  BY <1>1, EnterKeeps DEF RunFlushThread, Return, Methods, LogInv, LogTypeOK
<1>2. CASE ~ flush_thread_running
  <2>1. /\ call[t] = "run" /\ latch = Free /\ flush_thread_running' = TRUE
        /\ call' = [call EXCEPT ![t] = "none", ![FlushThread] = "loop"]
        /\ UNCHANGED <<latch, next_lsn, persistent_lsn, log_buffer, capacity, block, flush_pos,
                       buffer_used, log_file>>
    BY <1>2 DEF RunFlushThread
  <2>2. /\ call \in [All -> Methods \cup FlusherPlaces] /\ t \in All /\ t # FlushThread
        /\ Free \notin All /\ FlushThread \in All /\ latch' \in All \cup {Free}
    BY <2>1, LogAssumption DEF LogInv, LogTypeOK, Methods, FlusherPlaces, All
  <2>3. call' \in [All -> Methods \cup FlusherPlaces]
    BY <2>1, <2>2 DEF Methods, FlusherPlaces
  <2>4. LatchHeld'
    BY <2>1, <2>2 DEF LogInv, LatchHeld, Methods, FlusherPlaces, All
  <2> QED BY <2>1, <2>2, <2>3, <2>4, LogMoves
<1> QED BY <1>1, <1>2

(* The other steps of a command in the log manager *)
LEMMA StopKeeps ==
    ASSUME LogInv, NEW t \in Threads, StopFlushThread(t) \/ Join(t)
    PROVE  LogInv'
<1>1. CASE StopFlushThread(t)
  <2>1. PICK m \in {"join", "none"} : call' = [call EXCEPT ![t] = m]
    BY <1>1 DEF StopFlushThread, Enter, Return
  <2> QED BY <1>1, <2>1, EnterKeeps DEF StopFlushThread, Methods
<1>2. CASE Join(t)
  BY <1>2, EnterKeeps DEF Join, Return, Methods, LogInv, LogTypeOK
<1> QED BY <1>1, <1>2

(* The flush thread's own steps *)
LEMMA FlusherKeeps ==
    ASSUME LogInv, Flusher
    PROVE  LogInv' /\ UNCHANGED <<next_lsn, persistent_lsn>> /\ \A t \in Threads : call'[t] = call[t]
<1>1. /\ call \in [All -> Methods \cup FlusherPlaces] /\ FlushThread \in All
      /\ Free \notin All /\ FlushThread \notin Threads /\ latch \in All \cup {Free}
      /\ flush_thread_running \in BOOLEAN /\ LatchHeld
  BY LogAssumption DEF LogInv, LogTypeOK, Methods, FlusherPlaces, All
<1>2. PICK m \in FlusherPlaces : call' = [call EXCEPT ![FlushThread] = m]
  BY DEF Flusher, FlusherTest, FlusherLock, FlusherCheck, FlusherWake, Enter, FlusherPlaces
<1>3. /\ call' \in [All -> Methods \cup FlusherPlaces]
      /\ \A t \in Threads : call'[t] = call[t]
      /\ call'[FlushThread] = m
  BY <1>1, <1>2 DEF All
<1>4. UNCHANGED <<next_lsn, persistent_lsn, log_buffer, capacity, block, flush_pos,
                  flush_thread_running, buffer_used, log_file>>
  BY DEF Flusher, FlusherTest, FlusherLock, FlusherCheck, FlusherWake
<1>5. /\ latch' \in {latch, FlushThread, Free}
      /\ latch' = latch \/ (latch \notin Threads /\ latch' \notin Threads)
      /\ latch' = FlushThread <=> m \in {"check", "flush"}
      /\ latch' \notin Threads \/ latch' = latch
  <2>1. CASE FlusherTest
    BY <1>1, <1>2, <1>3, <2>1 DEF FlusherTest, Enter, LatchHeld
  <2>2. CASE FlusherLock
    BY <1>1, <1>2, <1>3, <2>2 DEF FlusherLock, Enter, LatchHeld, All
  <2>3. CASE FlusherCheck
    BY <1>1, <1>2, <1>3, <2>3 DEF FlusherCheck, Enter, LatchHeld, All
  <2>4. CASE FlusherWake
    BY <1>1, <1>2, <1>3, <2>4 DEF FlusherWake, Enter, LatchHeld
  <2> QED BY <2>1, <2>2, <2>3, <2>4 DEF Flusher
<1>6. LatchHeld'
  BY <1>1, <1>2, <1>3, <1>5 DEF LatchHeld, All
<1>7. latch' \in All \cup {Free}
  BY <1>1, <1>5
<1> QED BY <1>1, <1>3, <1>4, <1>5, <1>6, <1>7, LogMoves
-----------------------------------------------------------------------------

(* The records so far are at most as many as there are names, and one less  *)
(* before an append                                                         *)
LEMMA RecordsBounded ==
    ASSUME TypeOK, RecordsCounted
    PROVE  /\ IsFiniteSet(databases) /\ Cardinality(databases) \in Nat
           /\ \A t \in Threads : pc[t] = "log" =>
                 /\ Cardinality(databases \cup {op[t]}) = Cardinality(databases) + 1
                 /\ Cardinality(databases) < MaxLsn
<1>1. IsFiniteSet(databases) /\ Cardinality(databases) \in Nat
  BY CheckpointAssumption, FS_Subset, FS_CardinalityType DEF TypeOK
<1>2. ASSUME NEW t \in Threads, pc[t] = "log"
      PROVE  /\ Cardinality(databases \cup {op[t]}) = Cardinality(databases) + 1
             /\ Cardinality(databases) < MaxLsn
  <2>1. op[t] \in Names \ databases
    BY <1>2 DEF RecordsCounted
  <2>2. Cardinality(databases \cup {op[t]}) = Cardinality(databases) + 1
    BY <1>1, <2>1, FS_AddElement
  <2>3. databases \cup {op[t]} \subseteq Names
    BY <2>1 DEF TypeOK
  <2>4. Cardinality(databases \cup {op[t]}) <= Cardinality(Names) /\ Cardinality(Names) \in Nat
    BY <2>3, CheckpointAssumption, FS_Subset, FS_CardinalityType
  <2> QED BY <1>1, <2>2, <2>4, CheckpointAssumption, LogAssumption
<1> QED BY <1>1, <1>2

(* The instance starts with the invariant *)
LEMMA CheckpointStart == Init => CheckpointInv
<1> SUFFICES ASSUME Init PROVE CheckpointInv
  OBVIOUS
<1> USE LogAssumption, CheckpointAssumption
<1>1. LogInv
  BY LogStart DEF Init
<1>2. TypeOK
  <2>1. LogTypeOK /\ 0 \in 0..MaxLsn
    BY <1>1 DEF LogInv
  <2>2. /\ pc \in [Threads -> {"idle", "create", "log", "begin", "wal", "pages", "end", "resume",
                             "save", "stop", "gone"}]
        /\ op \in [Threads -> Names \cup {NoOp, "checkpoint", "save", "destroy"}]
    BY DEF Init
  <2> QED BY <2>1, <2>2 DEF Init, TypeOK
<1>3. \A t \in Threads : call[t] = "none" /\ t # Free
  BY DEF Init, LogInit, All
<1>4. CallsMatch /\ OneCheckpoint /\ WalFlushed /\ LogBeforePages
  BY <1>3 DEF Init, LogInit, CallsMatch, OneCheckpoint, WalFlushed, LogBeforePages, InCheckpoint
<1>5. RecordsCounted
  BY <1>3, FS_EmptySet DEF Init, LogInit, RecordsCounted
<1> QED BY <1>1, <1>2, <1>4, <1>5 DEF CheckpointInv

(* What a step of the log manager leaves to show: its effect on the commands *)
LEMMA LogKeeps ==
    ASSUME CheckpointInv, NEW t \in Threads, Log(t)
    PROVE  CheckpointInv'
<1>1. /\ TypeOK /\ LogInv /\ CallsMatch /\ RecordsCounted /\ OneCheckpoint /\ WalFlushed
      /\ LogBeforePages /\ LogTypeOK /\ LatchHeld
  BY DEF CheckpointInv, LogInv
<1>2. UNCHANGED <<pc, op, databases, catalog_lock, checkpoint_mutex, checkpoint_in_progress, begin_lsn>>
  BY DEF Log, cpVars
<1>3. call[t] = "append" => pc[t] = "log" /\ next_lsn = Cardinality(databases) /\ next_lsn < MaxLsn
  <2>1. ASSUME call[t] = "append"
        PROVE  pc[t] = "log" /\ next_lsn = Cardinality(databases) + 0
    BY <1>1, <2>1 DEF CallsMatch, RecordsCounted
  <2>2. /\ Cardinality(databases) \in Nat
        /\ pc[t] = "log" => Cardinality(databases) < MaxLsn
    BY <1>1, RecordsBounded
  <2> QED BY <2>1, <2>2
<1>4. /\ call \in [All -> Methods \cup FlusherPlaces] /\ t \in All
      /\ Free \notin Threads /\ FlushThread \notin Threads
      /\ next_lsn \in Int /\ persistent_lsn \in Int /\ begin_lsn \in Int
  BY <1>1, LogAssumption DEF TypeOK, LogTypeOK, Methods, FlusherPlaces, All, Lsns, INVALID_LSN
<1>5. LogInv'
  BY <1>1, <1>3, AppendKeeps, FlushStarts, FlushRecordKeeps, FlushEndKeeps, RunKeeps, StopKeeps
     DEF Log, LogStep, AppendLogRecord
<1>6. TypeOK'
  BY <1>1, <1>2, <1>5 DEF TypeOK, LogInv
<1>7. PICK m \in {call[t], "none", "flushing", "join"} :
         /\ \A u \in Threads : call'[u] = IF u = t THEN m ELSE call[u]
         /\ m = "flushing" => call[t] \in {"flush", "flushing"}
         /\ m = "join" => call[t] \in {"stop", "join"}
  <2>1. CASE AppendLogRecord(t) \/ FlushEnd(t) \/ Join(t)
    BY <1>4, <2>1 DEF AppendLogRecord, FlushEnd, Join, Return, All
  <2>2. CASE FlushAllLogs(t)
    BY <1>4, <2>2 DEF FlushAllLogs, Return, Enter, All
  <2>3. CASE FlushRecord(t)
    BY <2>3 DEF FlushRecord
  <2>4. CASE RunFlushThread(t)
    BY <1>4, <2>4 DEF RunFlushThread, Return, All
  <2>5. CASE StopFlushThread(t)
    BY <1>4, <2>5 DEF StopFlushThread, Return, Enter, All
  <2> QED BY <2>1, <2>2, <2>3, <2>4, <2>5 DEF Log, LogStep
<1>8. \A u \in Threads \ {t} : call'[u] = call[u]
  BY <1>7
<1>9. CallsMatch'
  BY <1>1, <1>2, <1>7 DEF CallsMatch
<1>10. /\ AppendLogRecord(t) => next_lsn' = next_lsn + 1 /\ call'[t] = "none" /\ call[t] = "append"
       /\ ~ AppendLogRecord(t) => next_lsn' = next_lsn /\ (call'[t] = "append" <=> call[t] = "append")
  <2>1. AppendLogRecord(t) => next_lsn' = next_lsn + 1 /\ call'[t] = "none" /\ call[t] = "append"
    BY <1>4 DEF AppendLogRecord, Return
  <2>2. ASSUME ~ AppendLogRecord(t)
        PROVE  next_lsn' = next_lsn /\ (call'[t] = "append" <=> call[t] = "append")
    BY <1>4, <2>2, LogAssumption DEF Log, LogStep, FlushAllLogs, FlushRecord, FlushEnd,
       RunFlushThread, StopFlushThread, Join, Enter, Return
  <2> QED BY <2>1, <2>2
<1>11. RecordsCounted'
  <2>1. CASE AppendLogRecord(t)
    <3>1. pc[t] = "log" /\ catalog_lock = t /\ next_lsn' = Cardinality(databases) + 1
      BY <1>1, <1>3, <1>10, <2>1 DEF RecordsCounted
    <3>2. \A u \in Threads : pc[u] = "log" => u = t
      BY <1>1, <3>1 DEF RecordsCounted
    <3> QED BY <1>1, <1>2, <1>4, <1>10, <2>1, <3>1, <3>2 DEF RecordsCounted
  <2>2. CASE ~ AppendLogRecord(t)
    BY <1>1, <1>2, <1>8, <1>10, <2>2 DEF RecordsCounted
  <2> QED BY <2>1, <2>2
<1>12. OneCheckpoint'
  BY <1>1, <1>2 DEF OneCheckpoint, InCheckpoint
<1>13. next_lsn' >= next_lsn /\ persistent_lsn' >= persistent_lsn
  <2>1. next_lsn' >= next_lsn
    BY <1>4, <1>10
  <2>2. CASE FlushRecord(t)
    BY <1>1, <1>4, <2>1, <2>2, FlushRecordKeeps
  <2>3. CASE ~ FlushRecord(t)
    <3>1. persistent_lsn' = persistent_lsn
      BY <2>3 DEF Log, LogStep, AppendLogRecord, FlushAllLogs, FlushEnd, RunFlushThread,
         StopFlushThread, Join
    <3> QED BY <1>4, <2>1, <3>1
  <2> QED BY <2>2, <2>3
<1>14. next_lsn' \in Int /\ persistent_lsn' \in Int
  BY <1>6 DEF TypeOK, LogTypeOK, Lsns, INVALID_LSN
<1>15. ASSUME pc[t] = "wal", call[t] # "none", call'[t] = "none"
       PROVE  persistent_lsn' = next_lsn - 1
  <2>1. CASE FlushEnd(t)
    BY <1>1, <2>1, FlushEndKeeps DEF FlushEnd
  <2>2. CASE FlushAllLogs(t)
    <3>1. log_buffer = <<>> /\ latch = Free /\ persistent_lsn' = persistent_lsn
      BY <1>4, <1>15, <2>2 DEF FlushAllLogs, Enter
    <3>2. Len(log_buffer) = 0
      BY <3>1
    <3> QED BY <1>1, <1>4, <3>1, <3>2 DEF LogInv, BufferHolds
  <2>3. call[t] \in {"flush", "flushing"}
    BY <1>1, <1>15 DEF CallsMatch, LatchHeld, Methods
  <2>4. FlushEnd(t) \/ FlushAllLogs(t) \/ FlushRecord(t)
    BY <2>3 DEF Log, LogStep, AppendLogRecord, RunFlushThread, StopFlushThread, Join
  <2> QED BY <1>15, <2>1, <2>2, <2>3, <2>4 DEF FlushRecord
<1>16. WalFlushed'
  <2>1. begin_lsn' <= next_lsn'
    BY <1>1, <1>2, <1>4, <1>13, <1>14 DEF WalFlushed
  <2>2. ASSUME NEW u \in Threads, pc[u] = "wal", call'[u] = "none" PROVE persistent_lsn' >= begin_lsn - 1
    <3>1. CASE call[u] = "none"
      BY <1>1, <1>4, <1>13, <1>14, <2>2, <3>1 DEF WalFlushed
    <3>2. CASE call[u] # "none"
      BY <1>1, <1>4, <1>8, <1>14, <1>15, <2>2, <3>2 DEF WalFlushed
    <3> QED BY <3>1, <3>2
  <2> QED BY <1>2, <2>1, <2>2 DEF WalFlushed
<1>17. LogBeforePages'
  BY <1>1, <1>2, <1>4, <1>13, <1>14 DEF LogBeforePages
<1> QED BY <1>5, <1>6, <1>9, <1>11, <1>12, <1>16, <1>17 DEF CheckpointInv

(* The flush thread disturbs no command *)
LEMMA FlusherStepKeeps ==
    ASSUME CheckpointInv, FlusherStep
    PROVE  CheckpointInv'
<1>1. LogInv' /\ UNCHANGED <<next_lsn, persistent_lsn>> /\ \A t \in Threads : call'[t] = call[t]
  BY FlusherKeeps DEF CheckpointInv, FlusherStep
<1>2. UNCHANGED <<pc, op, databases, catalog_lock, checkpoint_mutex, checkpoint_in_progress, begin_lsn>>
  BY DEF FlusherStep, cpVars
<1>3. TypeOK'
  BY <1>1, <1>2 DEF CheckpointInv, TypeOK, LogInv
<1>4. CallsMatch' /\ RecordsCounted'
  BY <1>1, <1>2 DEF CheckpointInv, CallsMatch, RecordsCounted
<1>5. OneCheckpoint' /\ WalFlushed' /\ LogBeforePages'
  BY <1>1, <1>2 DEF CheckpointInv, OneCheckpoint, InCheckpoint, WalFlushed, LogBeforePages
<1> QED BY <1>1, <1>3, <1>4, <1>5 DEF CheckpointInv

(* The state a command's step finds *)
LEMMA CommandState ==
    ASSUME CheckpointInv, NEW t \in Threads
    PROVE  /\ TypeOK /\ LogInv /\ CallsMatch /\ RecordsCounted /\ OneCheckpoint /\ WalFlushed
           /\ LogBeforePages
           /\ t # Free /\ t \in All /\ flush_thread_running \in BOOLEAN
           /\ call \in [All -> Methods \cup FlusherPlaces]
           /\ next_lsn \in 0..MaxLsn /\ persistent_lsn \in Int /\ begin_lsn \in Int
           /\ pc[t] \notin {"log", "wal", "resume", "stop"} => call[t] = "none"
BY LogAssumption
   DEF CheckpointInv, TypeOK, LogInv, LogTypeOK, CallsMatch, LatchHeld, Methods, FlusherPlaces,
       All, Lsns, INVALID_LSN

(* A step that leaves the log manager alone keeps its invariant *)
LEMMA LogUnchanged ==
    ASSUME LogInv, UNCHANGED logVars
    PROVE  LogInv'
BY DEF LogInv, logVars, LogTypeOK, LatchHeld, BufferHolds, FileOrdered

(* A request arrives at an idle thread *)
LEMMA RequestKeeps ==
    ASSUME CheckpointInv, NEW t \in Threads,
           NEW o \in Names \cup {"checkpoint", "save", "destroy"}, Request(t, o)
    PROVE  CheckpointInv'
<1>1. /\ TypeOK /\ LogInv /\ CallsMatch /\ RecordsCounted /\ OneCheckpoint /\ WalFlushed
      /\ LogBeforePages
  BY CommandState
<1>2. PICK place \in {"create", "begin"} :
         /\ place = "create" => o \in Names
         /\ pc' = [pc EXCEPT ![t] = place] /\ op' = [op EXCEPT ![t] = o] /\ pc[t] = "idle"
  <2>1. CASE o \in Names
    BY <2>1 DEF Request
  <2>2. CASE o \notin Names
    BY <2>2 DEF Request
  <2> QED BY <2>1, <2>2
<1>3. UNCHANGED logVars /\ UNCHANGED <<databases, catalog_lock, checkpoint_mutex,
                                       checkpoint_in_progress, begin_lsn>>
  BY DEF Request
<1>4. LogInv' /\ UNCHANGED <<call, next_lsn, persistent_lsn>>
  BY <1>1, <1>3, LogUnchanged DEF logVars
<1>5. TypeOK'
  BY <1>1, <1>2, <1>3, <1>4 DEF TypeOK, LogInv
<1>6. \A u \in Threads : /\ pc'[u] = IF u = t THEN place ELSE pc[u]
                         /\ op'[u] = IF u = t THEN o ELSE op[u]
  BY <1>1, <1>2 DEF TypeOK
<1>7. CallsMatch' /\ OneCheckpoint' /\ WalFlushed' /\ LogBeforePages'
  BY <1>1, <1>2, <1>3, <1>4, <1>6 DEF CallsMatch, OneCheckpoint, InCheckpoint, WalFlushed, LogBeforePages
<1>8. RecordsCounted'
  BY <1>1, <1>2, <1>3, <1>4, <1>6 DEF RecordsCounted
<1> QED BY <1>4, <1>5, <1>7, <1>8 DEF CheckpointInv

(* A thread's step in its command: where it goes, which method it enters *)
Moves(t, place, method) ==
    /\ \A u \in Threads : pc'[u] = IF u = t THEN place ELSE pc[u]
    /\ \A u \in Threads : call'[u] = IF u = t THEN method ELSE call[u]
    /\ UNCHANGED <<next_lsn, persistent_lsn>>

Places == {"idle", "create", "log", "begin", "wal", "pages", "end", "resume", "save", "stop", "gone"}

(* The two shapes of a command's step on the log manager: it enters a       *)
(* method, or leaves the log manager alone                                  *)
LEMMA CommandMoves ==
    ASSUME CheckpointInv, NEW t \in Threads, NEW place \in Places,
           NEW m \in {"none", "append", "flush", "run", "stop"},
           pc' = [pc EXCEPT ![t] = place], call[t] = "none",
           \/ UNCHANGED call /\ m = "none"
           \/ Enter(t, m),
           UNCHANGED <<latch, next_lsn, persistent_lsn, log_buffer, capacity, block, flush_pos,
                       flush_thread_running, buffer_used, log_file>>
    PROVE  LogInv' /\ Moves(t, place, m) /\ pc' \in [Threads -> Places]
<1>1. /\ TypeOK /\ LogInv /\ call \in [All -> Methods \cup FlusherPlaces]
      /\ t \in All /\ flush_thread_running \in BOOLEAN
  BY CommandState
<1>2. CASE UNCHANGED call /\ m = "none"
  <2>1. LogInv'
    BY <1>1, <1>2, LogUnchanged DEF logVars
  <2> QED BY <1>1, <1>2, <2>1 DEF Moves, TypeOK, Places
<1>3. CASE Enter(t, m)
  <2>1. LogInv'
    BY <1>1, <1>3, EnterKeeps DEF Enter, Methods
  <2> QED BY <1>1, <1>3, <2>1 DEF Moves, TypeOK, Places, Enter, All
<1> QED BY <1>2, <1>3

(* CreateDatabase refuses a known name or goes to append its record *)
LEMMA CreateKeeps ==
    ASSUME CheckpointInv, NEW t \in Threads, CreateDatabase(t)
    PROVE  CheckpointInv'
<1>1. /\ TypeOK /\ LogInv /\ CallsMatch /\ RecordsCounted /\ OneCheckpoint /\ WalFlushed
      /\ LogBeforePages /\ t # Free /\ pc[t] = "create" /\ call[t] = "none"
      /\ catalog_lock = Free
  BY CommandState DEF CreateDatabase
<1>2. UNCHANGED <<databases, checkpoint_mutex, checkpoint_in_progress, begin_lsn>>
      /\ UNCHANGED <<latch, next_lsn, persistent_lsn, log_buffer, capacity, block, flush_pos,
                     flush_thread_running, buffer_used, log_file>>
  BY DEF CreateDatabase
<1>3. CASE op[t] \in databases
  <2>1. /\ pc' = [pc EXCEPT ![t] = "idle"] /\ op' = [op EXCEPT ![t] = NoOp]
        /\ UNCHANGED <<call, catalog_lock>>
    BY <1>3 DEF CreateDatabase, Done
  <2>2. LogInv' /\ Moves(t, "idle", "none") /\ pc' \in [Threads -> Places]
    BY <1>1, <1>2, <2>1, CommandMoves DEF Places
  <2>3. TypeOK' /\ \A u \in Threads \ {t} : op'[u] = op[u]
    BY <1>1, <1>2, <2>1, <2>2 DEF TypeOK, LogInv, Places
  <2>4. CallsMatch' /\ OneCheckpoint' /\ WalFlushed' /\ LogBeforePages'
    BY <1>1, <1>2, <2>2 DEF CallsMatch, OneCheckpoint, InCheckpoint, WalFlushed, LogBeforePages, Moves
  <2>5. RecordsCounted'
    BY <1>1, <1>2, <2>1, <2>2, <2>3 DEF RecordsCounted, Moves
  <2> QED BY <2>2, <2>3, <2>4, <2>5 DEF CheckpointInv
<1>4. CASE op[t] \notin databases
  <2>1. /\ pc' = [pc EXCEPT ![t] = "log"] /\ op' = op /\ Enter(t, "append") /\ catalog_lock' = t
    BY <1>4 DEF CreateDatabase, Go
  <2>2. LogInv' /\ Moves(t, "log", "append") /\ pc' \in [Threads -> Places]
    BY <1>1, <1>2, <2>1, CommandMoves DEF Places
  <2>3. TypeOK'
    BY <1>1, <1>2, <2>1, <2>2 DEF TypeOK, LogInv, Places
  <2>4. CallsMatch' /\ OneCheckpoint' /\ WalFlushed' /\ LogBeforePages'
    BY <1>1, <1>2, <2>2 DEF CallsMatch, OneCheckpoint, InCheckpoint, WalFlushed, LogBeforePages, Moves
  <2>5. RecordsCounted'
    <3>1. \A u \in Threads : pc[u] # "log"
      BY <1>1, LogAssumption DEF RecordsCounted
    <3>2. next_lsn = Cardinality(databases) /\ op[t] \in Names \ databases
      BY <1>1, <1>4 DEF RecordsCounted
    <3>3. \A u \in Threads : pc'[u] = "log" <=> u = t
      BY <2>2, <3>1 DEF Moves
    <3>4. Cardinality(databases) \in Nat
      BY <1>1, RecordsBounded
    <3> QED BY <1>1, <1>2, <2>1, <2>2, <3>2, <3>3, <3>4 DEF RecordsCounted, Moves
  <2> QED BY <2>2, <2>3, <2>4, <2>5 DEF CheckpointInv
<1> QED BY <1>3, <1>4

(* CreateDatabase, its record appended, stores the database *)
LEMMA CreatedKeeps ==
    ASSUME CheckpointInv, NEW t \in Threads, DatabaseCreated(t)
    PROVE  CheckpointInv'
<1>1. /\ TypeOK /\ LogInv /\ CallsMatch /\ RecordsCounted /\ OneCheckpoint /\ WalFlushed
      /\ LogBeforePages /\ t # Free /\ pc[t] = "log" /\ call[t] = "none"
  BY CommandState DEF DatabaseCreated
<1>2. /\ UNCHANGED <<checkpoint_mutex, checkpoint_in_progress, begin_lsn>> /\ UNCHANGED logVars
      /\ databases' = databases \cup {op[t]} /\ catalog_lock' = Free
      /\ pc' = [pc EXCEPT ![t] = "idle"] /\ op' = [op EXCEPT ![t] = NoOp]
  BY DEF DatabaseCreated, Done
<1>3. LogInv' /\ Moves(t, "idle", "none") /\ pc' \in [Threads -> Places]
  BY <1>1, <1>2, CommandMoves DEF Places, logVars
<1>4. op[t] \in Names \ databases /\ catalog_lock = t
  BY <1>1 DEF RecordsCounted
<1>5. TypeOK' /\ \A u \in Threads \ {t} : op'[u] = op[u]
  BY <1>1, <1>2, <1>3, <1>4 DEF TypeOK, LogInv, Places
<1>6. CallsMatch' /\ OneCheckpoint' /\ WalFlushed' /\ LogBeforePages'
  BY <1>1, <1>2, <1>3 DEF CallsMatch, OneCheckpoint, InCheckpoint, WalFlushed, LogBeforePages, Moves
<1>7. RecordsCounted'
  <2>1. \A u \in Threads : pc[u] = "log" => u = t
    BY <1>1, <1>4 DEF RecordsCounted
  <2>2. \A u \in Threads : pc'[u] # "log" /\ u # Free
    BY <1>3, <2>1, LogAssumption DEF Moves
  <2>3. next_lsn' = Cardinality(databases')
    <3>1. next_lsn = Cardinality(databases) + 1
      BY <1>1 DEF RecordsCounted
    <3>2. Cardinality(databases \cup {op[t]}) = Cardinality(databases) + 1
      BY <1>1, RecordsBounded
    <3> QED BY <1>2, <3>1, <3>2 DEF logVars
  <2>4. \A u \in Threads : pc'[u] = "create" => op'[u] \in Names
    BY <1>1, <1>3, <1>5 DEF RecordsCounted, Moves
  <2> QED BY <1>2, <2>2, <2>3, <2>4 DEF RecordsCounted
<1> QED BY <1>3, <1>5, <1>6, <1>7 DEF CheckpointInv

(* A step of a command other than CREATE DATABASE keeps everything but what *)
(* is about checkpoints                                                     *)
LEMMA CheckpointMoves ==
    ASSUME CheckpointInv, NEW t \in Threads, NEW place \in Places \ {"create", "log"},
           NEW m \in {"none", "append", "flush", "run", "stop"},
           pc' = [pc EXCEPT ![t] = place], call[t] = "none", pc[t] \notin {"create", "log"},
           \/ UNCHANGED call /\ m = "none"
           \/ Enter(t, m),
           op' = op \/ op' = [op EXCEPT ![t] = NoOp],
           UNCHANGED <<databases, catalog_lock>>,
           UNCHANGED <<latch, next_lsn, persistent_lsn, log_buffer, capacity, block, flush_pos,
                       flush_thread_running, buffer_used, log_file>>,
           checkpoint_mutex' \in Threads \cup {Free}, checkpoint_in_progress' \in BOOLEAN,
           begin_lsn' \in 0..MaxLsn
    PROVE  LogInv' /\ Moves(t, place, m) /\ TypeOK' /\ RecordsCounted'
<1>1. TypeOK /\ RecordsCounted
  BY CommandState
<1>2. LogInv' /\ Moves(t, place, m) /\ pc' \in [Threads -> Places]
  BY CommandMoves
<1>3. /\ op' \in [Threads -> Names \cup {NoOp, "checkpoint", "save", "destroy"}]
      /\ \A u \in Threads \ {t} : op'[u] = op[u]
  BY <1>1 DEF TypeOK
<1>4. TypeOK'
  BY <1>1, <1>2, <1>3 DEF TypeOK, LogInv, Places
<1>5. RecordsCounted'
  BY <1>1, <1>2, <1>3 DEF RecordsCounted, Moves
<1> QED BY <1>2, <1>4, <1>5

(* BeginCheckpoint is refused, or begins the only checkpoint *)
LEMMA BeginKeeps ==
    ASSUME CheckpointInv, NEW t \in Threads, BeginCheckpoint(t)
    PROVE  CheckpointInv'
<1>1. /\ TypeOK /\ CallsMatch /\ OneCheckpoint /\ WalFlushed /\ LogBeforePages
      /\ pc[t] = "begin" /\ call[t] = "none" /\ begin_lsn \in 0..MaxLsn
      /\ checkpoint_mutex \in Threads \cup {Free} /\ next_lsn \in 0..MaxLsn
  BY CommandState DEF BeginCheckpoint, TypeOK
<1>2. UNCHANGED <<latch, next_lsn, persistent_lsn, log_buffer, capacity, block, flush_pos,
                  flush_thread_running, buffer_used, log_file>>
      /\ UNCHANGED <<databases, catalog_lock>>
  BY DEF BeginCheckpoint
<1>3. CASE checkpoint_in_progress
  <2>1. UNCHANGED <<checkpoint_mutex, checkpoint_in_progress, begin_lsn>>
    BY <1>3 DEF BeginCheckpoint
  <2>2. CASE op[t] = "destroy"
    <3>1. Enter(t, "stop") /\ pc' = [pc EXCEPT ![t] = "stop"] /\ op' = op
      BY <1>3, <2>2 DEF BeginCheckpoint, Go
    <3>2. LogInv' /\ Moves(t, "stop", "stop") /\ TypeOK' /\ RecordsCounted'
      BY <1>1, <1>2, <1>3, <2>1, <3>1, CheckpointMoves DEF Places
    <3>3. CallsMatch' /\ OneCheckpoint' /\ WalFlushed' /\ LogBeforePages'
      BY <1>1, <1>2, <2>1, <3>2 DEF CallsMatch, OneCheckpoint, InCheckpoint, WalFlushed,
         LogBeforePages, Moves
    <3> QED BY <3>2, <3>3 DEF CheckpointInv
  <2>3. CASE op[t] # "destroy"
    <3>1. UNCHANGED call /\ pc' = [pc EXCEPT ![t] = "idle"] /\ op' = [op EXCEPT ![t] = NoOp]
      BY <1>3, <2>3 DEF BeginCheckpoint, Done
    <3>2. LogInv' /\ Moves(t, "idle", "none") /\ TypeOK' /\ RecordsCounted'
      BY <1>1, <1>2, <1>3, <2>1, <3>1, CheckpointMoves DEF Places
    <3>3. CallsMatch' /\ OneCheckpoint' /\ WalFlushed' /\ LogBeforePages'
      BY <1>1, <1>2, <2>1, <3>2 DEF CallsMatch, OneCheckpoint, InCheckpoint, WalFlushed,
         LogBeforePages, Moves
    <3> QED BY <3>2, <3>3 DEF CheckpointInv
  <2> QED BY <2>2, <2>3
<1>4. CASE ~ checkpoint_in_progress
  <2>1. /\ Enter(t, "flush") /\ pc' = [pc EXCEPT ![t] = "wal"] /\ op' = op
        /\ checkpoint_mutex' = t /\ checkpoint_in_progress' = TRUE /\ begin_lsn' = next_lsn
    BY <1>4 DEF BeginCheckpoint, Go
  <2>2. LogInv' /\ Moves(t, "wal", "flush") /\ TypeOK' /\ RecordsCounted'
    BY <1>1, <1>2, <2>1, CheckpointMoves DEF Places
  <2>3. \A u \in Threads : ~ InCheckpoint(u)
    BY <1>1, <1>4 DEF OneCheckpoint
  <2>4. CallsMatch' /\ OneCheckpoint'
    BY <1>1, <2>1, <2>2, <2>3 DEF CallsMatch, OneCheckpoint, InCheckpoint, Moves
  <2>5. WalFlushed' /\ LogBeforePages'
    BY <1>1, <1>2, <2>1, <2>2, <2>3 DEF WalFlushed, LogBeforePages, InCheckpoint, Moves
  <2> QED BY <2>2, <2>4, <2>5 DEF CheckpointInv
<1> QED BY <1>3, <1>4

(* The steps of a checkpoint that has begun, and of the destructor *)
LEMMA GoesOnKeeps ==
    ASSUME CheckpointInv, NEW t \in Threads,
           BeginFlushPages(t) \/ BeginReturn(t) \/ SaveState(t) \/ EndCheckpoint(t) \/ Destroyed(t)
    PROVE  CheckpointInv'
<1>1. /\ TypeOK /\ CallsMatch /\ OneCheckpoint /\ WalFlushed /\ LogBeforePages
      /\ begin_lsn \in 0..MaxLsn /\ checkpoint_in_progress \in BOOLEAN
      /\ checkpoint_mutex \in Threads \cup {Free}
      /\ pc[t] \notin {"log", "wal", "resume", "stop"} => call[t] = "none"
  BY CommandState DEF TypeOK
<1>2. UNCHANGED <<latch, next_lsn, persistent_lsn, log_buffer, capacity, block, flush_pos,
                  flush_thread_running, buffer_used, log_file>>
      /\ UNCHANGED <<databases, catalog_lock, checkpoint_in_progress, begin_lsn>>
  BY DEF BeginFlushPages, BeginReturn, SaveState, EndCheckpoint, Destroyed, logVars
<1>3. CASE BeginFlushPages(t)
  <2>1. /\ pc[t] = "wal" /\ call[t] = "none" /\ pc' = [pc EXCEPT ![t] = "pages"] /\ op' = op
        /\ UNCHANGED call /\ checkpoint_mutex' = checkpoint_mutex
    BY <1>3 DEF BeginFlushPages, Go, logVars
  <2>2. LogInv' /\ Moves(t, "pages", "none") /\ TypeOK' /\ RecordsCounted'
    BY <1>1, <1>2, <2>1, CheckpointMoves DEF Places
  <2>3. CallsMatch' /\ OneCheckpoint' /\ WalFlushed' /\ LogBeforePages'
    BY <1>1, <1>2, <2>1, <2>2 DEF CallsMatch, OneCheckpoint, InCheckpoint, WalFlushed,
       LogBeforePages, Moves
  <2> QED BY <2>2, <2>3 DEF CheckpointInv
<1>4. CASE BeginReturn(t)
  <2>1. PICK place \in {"end", "save"} :
          /\ pc[t] = "pages" /\ call[t] = "none" /\ pc' = [pc EXCEPT ![t] = place] /\ op' = op
          /\ UNCHANGED call /\ checkpoint_mutex' = Free
    BY <1>1, <1>4 DEF BeginReturn, Go, logVars
  <2>2. LogInv' /\ Moves(t, place, "none") /\ TypeOK' /\ RecordsCounted'
    BY <1>1, <1>2, <2>1, CheckpointMoves DEF Places
  <2>3. CallsMatch' /\ OneCheckpoint' /\ WalFlushed' /\ LogBeforePages'
    BY <1>1, <1>2, <2>1, <2>2 DEF CallsMatch, OneCheckpoint, InCheckpoint, WalFlushed,
       LogBeforePages, Moves
  <2> QED BY <2>2, <2>3 DEF CheckpointInv
<1>5. CASE SaveState(t)
  <2>1. pc[t] = "save" /\ call[t] = "none" /\ checkpoint_mutex' = checkpoint_mutex
    BY <1>1, <1>5 DEF SaveState
  <2>2. CASE op[t] = "destroy"
    <3>1. Enter(t, "stop") /\ pc' = [pc EXCEPT ![t] = "stop"] /\ op' = op
      BY <1>5, <2>2 DEF SaveState, Go
    <3>2. LogInv' /\ Moves(t, "stop", "stop") /\ TypeOK' /\ RecordsCounted'
      BY <1>1, <1>2, <2>1, <3>1, CheckpointMoves DEF Places
    <3>3. CallsMatch' /\ OneCheckpoint' /\ WalFlushed' /\ LogBeforePages'
      BY <1>1, <1>2, <2>1, <3>2 DEF CallsMatch, OneCheckpoint, InCheckpoint, WalFlushed,
         LogBeforePages, Moves
    <3> QED BY <3>2, <3>3 DEF CheckpointInv
  <2>3. CASE op[t] # "destroy"
    <3>1. UNCHANGED call /\ pc' = [pc EXCEPT ![t] = "idle"] /\ op' = [op EXCEPT ![t] = NoOp]
      BY <1>5, <2>3 DEF SaveState, Done
    <3>2. LogInv' /\ Moves(t, "idle", "none") /\ TypeOK' /\ RecordsCounted'
      BY <1>1, <1>2, <2>1, <3>1, CheckpointMoves DEF Places
    <3>3. CallsMatch' /\ OneCheckpoint' /\ WalFlushed' /\ LogBeforePages'
      BY <1>1, <1>2, <2>1, <3>2 DEF CallsMatch, OneCheckpoint, InCheckpoint, WalFlushed,
         LogBeforePages, Moves
    <3> QED BY <3>2, <3>3 DEF CheckpointInv
  <2> QED BY <2>2, <2>3
<1>6. CASE EndCheckpoint(t)
  <2>1. /\ pc[t] = "end" /\ call[t] = "none" /\ pc' = [pc EXCEPT ![t] = "resume"] /\ op' = op
        /\ Enter(t, "run") /\ checkpoint_mutex' = t
    BY <1>1, <1>6 DEF EndCheckpoint, Go
  <2>2. LogInv' /\ Moves(t, "resume", "run") /\ TypeOK' /\ RecordsCounted'
    BY <1>1, <1>2, <2>1, CheckpointMoves DEF Places
  <2>3. CallsMatch' /\ OneCheckpoint' /\ WalFlushed' /\ LogBeforePages'
    BY <1>1, <1>2, <2>1, <2>2 DEF CallsMatch, OneCheckpoint, InCheckpoint, WalFlushed,
       LogBeforePages, Moves
  <2> QED BY <2>2, <2>3 DEF CheckpointInv
<1>7. CASE Destroyed(t)
  <2>1. /\ pc[t] = "stop" /\ call[t] = "none" /\ pc' = [pc EXCEPT ![t] = "gone"] /\ op' = op
        /\ UNCHANGED call /\ checkpoint_mutex' = checkpoint_mutex
    BY <1>7 DEF Destroyed, Go, logVars
  <2>2. LogInv' /\ Moves(t, "gone", "none") /\ TypeOK' /\ RecordsCounted'
    BY <1>1, <1>2, <2>1, CheckpointMoves DEF Places
  <2>3. CallsMatch' /\ OneCheckpoint' /\ WalFlushed' /\ LogBeforePages'
    BY <1>1, <1>2, <2>1, <2>2 DEF CallsMatch, OneCheckpoint, InCheckpoint, WalFlushed,
       LogBeforePages, Moves
  <2> QED BY <2>2, <2>3 DEF CheckpointInv
<1> QED BY <1>3, <1>4, <1>5, <1>6, <1>7

(* EndCheckpoint returns: its thread was the only one in a checkpoint *)
LEMMA EndKeeps ==
    ASSUME CheckpointInv, NEW t \in Threads, EndReturn(t)
    PROVE  CheckpointInv'
<1>1. /\ CallsMatch /\ OneCheckpoint /\ WalFlushed /\ LogBeforePages
      /\ begin_lsn \in 0..MaxLsn /\ pc[t] = "resume" /\ call[t] = "none"
  BY CommandState DEF TypeOK, EndReturn
<1>2. /\ UNCHANGED <<latch, next_lsn, persistent_lsn, log_buffer, capacity, block, flush_pos,
                     flush_thread_running, buffer_used, log_file>>
      /\ UNCHANGED <<databases, catalog_lock, begin_lsn>> /\ UNCHANGED call
      /\ checkpoint_in_progress' = FALSE /\ checkpoint_mutex' = Free
      /\ pc' = [pc EXCEPT ![t] = "idle"] /\ op' = [op EXCEPT ![t] = NoOp]
  BY DEF EndReturn, Done, logVars
<1>3. LogInv' /\ Moves(t, "idle", "none") /\ TypeOK' /\ RecordsCounted'
  BY <1>1, <1>2, CheckpointMoves DEF Places
<1>4. \A u \in Threads \ {t} : ~ InCheckpoint(u)
  BY <1>1 DEF OneCheckpoint, InCheckpoint
<1>5. CallsMatch' /\ OneCheckpoint' /\ WalFlushed' /\ LogBeforePages'
  BY <1>1, <1>2, <1>3, <1>4 DEF CallsMatch, OneCheckpoint, InCheckpoint, WalFlushed,
     LogBeforePages, Moves
<1> QED BY <1>3, <1>5 DEF CheckpointInv

(* Every step of every thread keeps the invariant *)
LEMMA CheckpointStep == CheckpointInv /\ [Next]_vars => CheckpointInv'
<1> SUFFICES ASSUME CheckpointInv, [Next]_vars PROVE CheckpointInv'
  OBVIOUS
<1>1. ASSUME NEW t \in Threads, Step(t) PROVE CheckpointInv'
  BY <1>1, CreateKeeps, CreatedKeeps, BeginKeeps, GoesOnKeeps, EndKeeps DEF Step
<1>2. CASE UNCHANGED vars
  <2>1. LogInv'
    BY <1>2, LogUnchanged DEF vars, CheckpointInv
  <2>2. UNCHANGED <<pc, op, databases, catalog_lock, checkpoint_mutex, checkpoint_in_progress,
                    begin_lsn>> /\ UNCHANGED <<call, next_lsn, persistent_lsn>>
    BY <1>2 DEF vars, cpVars, logVars
  <2>3. TypeOK'
    BY <2>1, <2>2 DEF CheckpointInv, TypeOK, LogInv
  <2>4. CallsMatch' /\ RecordsCounted' /\ OneCheckpoint' /\ WalFlushed' /\ LogBeforePages'
    BY <2>2 DEF CheckpointInv, CallsMatch, RecordsCounted, OneCheckpoint, InCheckpoint, WalFlushed,
       LogBeforePages
  <2> QED BY <2>1, <2>3, <2>4 DEF CheckpointInv
<1> QED BY <1>1, <1>2, RequestKeeps, LogKeeps, FlusherStepKeeps DEF Next

(* The invariant holds in every run *)
LEMMA CheckpointInductive == Spec => []CheckpointInv
BY CheckpointStart, CheckpointStep, PTL DEF Spec

(* At most one thread is in a checkpoint, and its pages follow their log,   *)
(* for any number of threads, databases and log records.                    *)
THEOREM CheckpointsAreConsistent == Spec => []CheckpointConsistent
<1>1. CheckpointInv => CheckpointConsistent
  BY DEF CheckpointInv, CheckpointConsistent
<1> QED BY <1>1, CheckpointInductive, PTL

(* Records reach the log file in LSN order, at most once, and the buffer    *)
(* holds exactly the rest.                                                  *)
THEOREM LogIsOrdered == Spec => []LogOrdered
<1>1. ASSUME CheckpointInv PROVE LogOrdered
  <2> DEFINE n == Len(log_buffer)
             flushing == \E t \in All : call[t] = "flushing"
             unflushed == IF flushing THEN SubSeq(log_buffer, flush_pos, n) ELSE log_buffer
             rest == next_lsn - 1 - persistent_lsn
  <2>1. LogInv /\ LogTypeOK /\ LatchHeld /\ BufferHolds /\ FileOrdered
    BY <1>1 DEF CheckpointInv, LogInv
  <2>2. n \in Nat /\ next_lsn \in Nat /\ n <= next_lsn /\ log_buffer \in Seq(Lsns)
    BY <2>1 DEF LogTypeOK, BufferHolds
  <2>3. flushing <=> latch \in Threads
    BY <2>1 DEF LatchHeld, FlusherPlaces, All
  <2>4. unflushed = [i \in 1..rest |-> persistent_lsn + i]
    <3>1. CASE latch \notin Threads
      <4>1. unflushed = log_buffer /\ persistent_lsn = next_lsn - n - 1
        BY <2>1, <2>3, <3>1 DEF BufferHolds
      <4>2. rest = n /\ log_buffer = [i \in 1..n |-> log_buffer[i]]
        BY <2>2, <4>1
      <4>3. \A i \in 1..n : log_buffer[i] = persistent_lsn + i
        BY <2>1, <2>2, <4>1 DEF BufferHolds
      <4> QED BY <4>1, <4>2, <4>3
    <3>2. CASE latch \in Threads
      <4>1. /\ unflushed = SubSeq(log_buffer, flush_pos, n) /\ flush_pos \in 1..(n + 1)
            /\ persistent_lsn = next_lsn - n + flush_pos - 2
        BY <2>1, <2>3, <3>2 DEF BufferHolds
      <4>2. rest = n - flush_pos + 1
        BY <2>2, <4>1
      <4>3. SubSeq(log_buffer, flush_pos, n) = [i \in 1..(n - flush_pos + 1) |-> log_buffer[flush_pos + i - 1]]
        BY <2>2, <4>1
      <4>4. ASSUME NEW i \in 1..(n - flush_pos + 1)
            PROVE  log_buffer[flush_pos + i - 1] = persistent_lsn + i
        <5>1. flush_pos + i - 1 \in 1..n
          BY <2>2, <4>1
        <5>2. log_buffer[flush_pos + i - 1] = next_lsn - n + (flush_pos + i - 1) - 1
          BY <2>1, <5>1 DEF BufferHolds
        <5> QED BY <2>2, <4>1, <5>1, <5>2
      <4> QED BY <4>1, <4>2, <4>3, <4>4
    <3> QED BY <3>1, <3>2
  <2> QED BY <2>1, <2>4 DEF LogOrdered, FileOrdered
<1> QED BY <1>1, CheckpointInductive, PTL
=============================================================================
