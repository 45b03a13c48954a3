----------------------------- MODULE LogRecords -----------------------------
(***************************************************************************)
(* Log records (recovery/log_manager.h, recovery/log_defs.h), the buffer   *)
(* they are laid out in and the log file (read_log() and write_log() of    *)
(* storage/disk_manager.cpp).                                              *)
(*                                                                         *)
(* Memory is modelled by bytes.  A byte is the value it is a part of and   *)
(* its place in that value, so a field that is read from where it was not  *)
(* written, or that something else has overwritten in part, is Garbage.    *)
(*                                                                         *)
(* LogManager's two functions and the recovery manager are empty in the    *)
(* code.  The environment stands for them: it appends a record when the    *)
(* buffer is not full, and writes the buffer out whole.                    *)
(***************************************************************************)
EXTENDS Integers, Sequences, FiniteSets

CONSTANTS
  LOG_BUFFER_SIZE,  \* bytes of the log buffer
  Sizes,            \* sizes of the records inserted
  NameSizes,        \* lengths of table names
  MaxLog,           \* bound on the records of the log
  MaxWriteFaults    \* bound on the writes that fail

ASSUME LogAssumption ==
  LOG_BUFFER_SIZE \in Nat /\ Sizes \subseteq Nat /\ NameSizes \subseteq Nat

SizeofInt == 4            \* sizeof(int), lsn_t, txn_id_t, uint32_t and LogType
SizeofSizeT == 8          \* sizeof(size_t)
SizeofRid == 8

OFFSET_LOG_TYPE == 0
OFFSET_LSN == SizeofInt
OFFSET_LOG_TOT_LEN == OFFSET_LSN + SizeofInt
OFFSET_LOG_TID == OFFSET_LOG_TOT_LEN + SizeofInt
OFFSET_PREV_LSN == OFFSET_LOG_TID + SizeofInt
OFFSET_LOG_DATA == OFFSET_PREV_LSN + SizeofInt
LOG_HEADER_SIZE == OFFSET_LOG_DATA

(* Values: what they are and a number. *)
Value(kind, n) == <<kind, n>>
Number(v) == v[2]
Garbage == Value("garbage", 0)
Empty == Value("empty", 0)
INVALID == -1

VARIABLES
  buffer,      \* LogBuffer::buffer_
  offset_,     \* LogBuffer::offset_
  file,        \* the bytes of the log file
  log,         \* the records appended, in order (history)
  starts,      \* where each of them starts, in file and buffer laid end to end (history)
  flushed,     \* how many of them write_log() has written (history)
  whole,       \* how many of those before any write failed (history)
  faults

logVars == <<buffer, offset_, file, log, starts, flushed, whole, faults>>

-----------------------------------------------------------------------------
(* Copying n bytes of a value to and from memory. *)
Put(mem, at, value, n) ==
  [a \in DOMAIN mem |-> IF a >= at /\ a < at + n THEN <<value, a - at>> ELSE mem[a]]

Get(mem, at, n) ==
  IF n = 0 THEN Empty
  ELSE IF \A i \in 0..(n - 1) :
            at + i \in DOMAIN mem /\ mem[at + i] = <<mem[at][1], i>>
    THEN mem[at][1] ELSE Garbage

(* Some bytes of a value: its data of n bytes. *)
Bytes(name, n) == IF n = 0 THEN Empty ELSE Value(name, n)

-----------------------------------------------------------------------------
(* The records.  The lsn and the lsn before it are the log's to give. *)
BeginLogRecord(txn, lsn, prev) ==
  [ log_type |-> Value("BEGIN", 0), lsn |-> Value("lsn", lsn), log_tid |-> Value("txn", txn), prev_lsn |-> Value("lsn", prev),
    log_tot_len |-> Value("length", LOG_HEADER_SIZE) ]

InsertLogRecordShort(txn, lsn, prev, size, name_size) ==
  [ log_type |-> Value("INSERT", 0), lsn |-> Value("lsn", lsn), log_tid |-> Value("txn", txn), prev_lsn |-> Value("lsn", prev),
    log_tot_len |-> Value("length", LOG_HEADER_SIZE + size + SizeofRid + SizeofSizeT + name_size),
    size |-> Value("size", size), data |-> Bytes("data", size), rid |-> Value("rid", lsn),
    table_name_size |-> Value("size", name_size), table_name |-> Bytes("name", name_size) ]

InsertLogRecord(txn, lsn, prev, size, name_size) ==
  [ log_type |-> Value("INSERT", 0), lsn |-> Value("lsn", lsn), log_tid |-> Value("txn", txn), prev_lsn |-> Value("lsn", prev),
    log_tot_len |-> Value("length", LOG_HEADER_SIZE + SizeofInt + size + SizeofRid + SizeofSizeT + name_size),
    size |-> Value("size", size), data |-> Bytes("data", size), rid |-> Value("rid", lsn),
    table_name_size |-> Value("size", name_size), table_name |-> Bytes("name", name_size) ]

TotLen(r) == Number(r.log_tot_len)

(* LogRecord::serialize() *)
SerializeHeader(mem, at, r) ==
  LET type == Put(mem, at + OFFSET_LOG_TYPE, r.log_type, SizeofInt)
      lsn == Put(type, at + OFFSET_LSN, r.lsn, SizeofInt)
      len == Put(lsn, at + OFFSET_LOG_TOT_LEN, r.log_tot_len, SizeofInt)
      tid == Put(len, at + OFFSET_LOG_TID, r.log_tid, SizeofInt) IN
    Put(tid, at + OFFSET_PREV_LSN, r.prev_lsn, SizeofInt)

(* InsertLogRecord::serialize(), after the header *)
SerializeInsert(mem, at, r) ==
  LET n == Number(r.size)
      size_at == at + OFFSET_LOG_DATA
      data_at == size_at + SizeofInt
      rid_at == data_at + n
      name_size_at == rid_at + SizeofRid
      name_at == name_size_at + SizeofSizeT
      size == Put(mem, size_at, r.size, SizeofInt)
      data == Put(size, data_at, r.data, n)
      rid == Put(data, rid_at, r.rid, SizeofRid)
      name_size == Put(rid, name_size_at, r.table_name_size, SizeofSizeT) IN
    Put(name_size, name_at, r.table_name, Number(r.table_name_size))

Serialize(mem, at, r) ==
  LET header == SerializeHeader(mem, at, r) IN
    IF r.log_type = Value("INSERT", 0) THEN SerializeInsert(header, at, r) ELSE header

(* LogRecord::deserialize() and InsertLogRecord::deserialize() *)
DeserializeHeader(mem, at) ==
  [ log_type |-> Get(mem, at + OFFSET_LOG_TYPE, SizeofInt),
    lsn |-> Get(mem, at + OFFSET_LSN, SizeofInt),
    log_tid |-> Get(mem, at + OFFSET_LOG_TID, SizeofInt),
    prev_lsn |-> Get(mem, at + OFFSET_PREV_LSN, SizeofInt),
    log_tot_len |-> Get(mem, at + OFFSET_LOG_TOT_LEN, SizeofInt) ]

DeserializeInsert(mem, at) ==
  LET h == DeserializeHeader(mem, at)
      size == Get(mem, at + OFFSET_LOG_DATA, SizeofInt)
      rid_at == at + OFFSET_LOG_DATA + Number(size) + SizeofInt
      name_size == Get(mem, rid_at + SizeofRid, SizeofSizeT) IN
  [ log_type |-> h.log_type, lsn |-> h.lsn, log_tid |-> h.log_tid,
    prev_lsn |-> h.prev_lsn, log_tot_len |-> h.log_tot_len,
    size |-> size,
    data |-> Get(mem, at + OFFSET_LOG_DATA + SizeofInt, Number(size)),
    rid |-> Get(mem, rid_at, SizeofRid),
    table_name_size |-> name_size,
    table_name |-> Get(mem, rid_at + SizeofRid + SizeofSizeT, Number(name_size)) ]

Deserialize(mem, at) ==
  IF Get(mem, at + OFFSET_LOG_TYPE, SizeofInt) = Value("INSERT", 0)
    THEN DeserializeInsert(mem, at) ELSE DeserializeHeader(mem, at)

-----------------------------------------------------------------------------
(* LogBuffer::is_full() *)
IsFull(append_size) == offset_ + append_size > LOG_BUFFER_SIZE

(* Where the record after the last starts: each is followed by the next,   *)
(* by the length it carries.                                               *)
NextStart ==
  IF log = << >> THEN 0 ELSE starts[Len(log)] + TotLen(log[Len(log)])

(* The environment adds a record at the end of the buffer. *)
Append1(r) ==
  /\ Len(log) < MaxLog
  /\ ~IsFull(TotLen(r))
  /\ buffer' = Serialize(buffer, offset_, r)
  /\ offset_' = offset_ + TotLen(r)
  /\ log' = Append(log, r)
  /\ starts' = Append(starts, NextStart)
  /\ UNCHANGED <<file, flushed, whole, faults>>

(* write_log(): the bytes go to the end of the file.  A short write throws *)
(* UnixError and leaves a part of them there.                              *)
WriteLogAt0 ==
  /\ offset_ > 0
  /\ file' = [i \in 1..offset_ |-> buffer[i - 1]]
  /\ flushed' = Len(log)
  /\ whole' = IF faults = 0 THEN Len(log) ELSE whole
  /\ offset_' = 0
  /\ UNCHANGED <<buffer, log, starts, faults>>

WriteLog ==
  /\ offset_ > 0
  /\ file' = file \o [i \in 1..offset_ |-> buffer[i - 1]]
  /\ flushed' = Len(log)
  /\ whole' = IF faults = 0 THEN Len(log) ELSE whole
  /\ offset_' = 0
  /\ UNCHANGED <<buffer, log, starts, faults>>

WriteLogShort ==
  /\ offset_ > 0
  /\ faults < MaxWriteFaults
  /\ \E n \in {1, offset_ - 1} : file' = file \o [i \in 1..n |-> buffer[i - 1]]
  /\ faults' = faults + 1
  /\ UNCHANGED <<buffer, offset_, log, starts, flushed, whole>>

(* read_log(): what it returns for a size and a place in the file, and the *)
(* bytes it reads.                                                         *)
ReadLogCount(size, at) ==
  IF at > Len(file) THEN -1
  ELSE IF size < Len(file) - at THEN size ELSE Len(file) - at

ReadLog(size, at) == [a \in 0..(ReadLogCount(size, at) - 1) |-> file[at + a + 1]]

-----------------------------------------------------------------------------
LogInit ==
  /\ buffer = [a \in 0..LOG_BUFFER_SIZE |-> <<Value("zero", 0), 0>>]
  /\ offset_ = 0
  /\ file = << >>
  /\ log = << >>
  /\ starts = << >>
  /\ flushed = 0
  /\ whole = 0
  /\ faults = 0

Lsn == Len(log)
PrevLsn == IF log = << >> THEN INVALID ELSE Lsn - 1

LogNext ==
  \/ Append1(BeginLogRecord(0, Lsn, PrevLsn))
  \/ \E size \in Sizes, name_size \in NameSizes :
       Append1(InsertLogRecord(0, Lsn, PrevLsn, size, name_size))
  \/ WriteLog \/ WriteLogShort

LogSpec == LogInit /\ [][LogNext]_logVars

-----------------------------------------------------------------------------
(* What is checked. *)

(* Stepping through the log file by the lengths its own records carry,     *)
(* through read_log(), gives back every record that was written, field by  *)
(* field, whatever mix of kinds, data sizes and name lengths there is,     *)
(* however often the buffer was reused, and even when a later write fails  *)
(* part way (log_manager.h:47-61, 139-163, disk_manager.cpp:298-332).      *)
FileReadsBack ==
  \A i \in 1..whole :
    Deserialize(ReadLog(LOG_BUFFER_SIZE, starts[i]), 0) = log[i]

(* The records of the buffer that are not written out yet are whole too:   *)
(* log_tot_len_ counts every byte serialize() writes, so no record runs    *)
(* into the next or past the end of the buffer is_full() guards            *)
(* (log_manager.h:124-136, 201-205).                                       *)
BufferReadsBack ==
  /\ offset_ <= LOG_BUFFER_SIZE
  /\ \A i \in (flushed + 1)..Len(log) :
       Deserialize(buffer, starts[i] - starts[flushed + 1]) = log[i]

(* Every record added to the log is read back, from the file or from the   *)
(* buffer.                                                                 *)
LogReadsBack == FileReadsBack /\ BufferReadsBack
=============================================================================
