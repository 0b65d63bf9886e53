---------------------------- MODULE AxfsXipRecord ----------------------------
(***************************************************************************)
(* The log of pages that axfs_mmap has mapped (axfs_xip_profile.c): tasks  *)
(* append to it, /proc/axfs_xip prints it, and a write to the file clears  *)
(* it.  A semaphore guards the log; the read of record_index by            *)
(* axfs_xip_proc_read lies outside of it.                                  *)
(*                                                                         *)
(* A record is written field by field.  It is modelled in two halves, the  *)
(* addresses and the name, each of which stands for the entry (the mapped  *)
(* page) that it describes: a record whose halves differ is torn.  The     *)
(* kernel's proc_file_read is external: it repeats calls, each with the    *)
(* room that is left, until the room is used up or a call brings nothing.  *)
(* AxfsMmap makes the calls of axfs_xip_record.                            *)
(***************************************************************************)
EXTENDS Integers, Sequences

CONSTANTS
  RECORDS,    \* CONFIG_SNSC_DEBUG_AXFS_XIP_RECORDS_NUM
  Readers,    \* the tasks that read /proc/axfs_xip
  ReadSizes,  \* the sizes of their buffers, in lines
  NoTask,     \* not a task
  NoEntry     \* not an entry

ASSUME RecordAssumption ==
  /\ RECORDS \in Nat \ {0}
  /\ ReadSizes \subseteq Nat \ {0}

VARIABLES
  record_index_sem, \* the task that holds it, or NoTask
  axfs_xip_records, \* [0 .. RECORDS - 1 -> the two halves of a record]
  record_index,     \* number of records
  is_first_line,    \* whether the next line printed is preceded by the heading
  reader,           \* reader[r]: the state of r, see NewReader
  log               \* the entries recorded since the last clear (history)

recordVars == <<record_index_sem, axfs_xip_records, record_index, log>>
procVars == <<is_first_line, reader>>

Slots == 0 .. RECORDS - 1
Whole(e) == [addr |-> e, name |-> e]

(* A reader that has just opened the file.  room is what is left of its    *)
(* buffer, got what the present read has brought; lines, due and intact    *)
(* are history: the records printed in this pass, how many there were when *)
(* the present read began, and whether the log has not been cleared since  *)
(* the pass began.                                                         *)
NewReader ==
  [pc |-> "idle", off |-> 0, room |-> 0, got |-> 0, index |-> 0,
   lines |-> <<>>, due |-> 0, intact |-> TRUE, eof |-> FALSE]

RecordInit ==
  /\ record_index_sem = NoTask
  /\ axfs_xip_records = [i \in Slots |-> Whole(NoEntry)]
  /\ record_index = 0
  /\ is_first_line = TRUE
  /\ reader = [r \in Readers |-> NewReader]
  /\ log = <<>>

-----------------------------------------------------------------------------
(* axfs_xip_record, by task t for entry e.                                 *)

(* down_interruptible fails: nothing is recorded.                          *)
RecordInterrupted == UNCHANGED recordVars

RecordFull ==
  /\ record_index_sem = NoTask
  /\ record_index >= RECORDS
  /\ UNCHANGED recordVars

(* Mutant: the semaphore is not waited for.                                *)
RecordAddressesUnlocked(t, e) ==
  /\ record_index < RECORDS
  /\ record_index_sem' = t
  /\ axfs_xip_records' = [axfs_xip_records EXCEPT ![record_index].addr = e]
  /\ UNCHANGED <<record_index, log>>

RecordAddresses(t, e) ==
  /\ record_index_sem = NoTask
  /\ record_index < RECORDS
  /\ record_index_sem' = t
  /\ axfs_xip_records' = [axfs_xip_records EXCEPT ![record_index].addr = e]
  /\ UNCHANGED <<record_index, log>>

(* Mutant: the index is left as it is.                                     *)
RecordNameKept(e) ==
  /\ axfs_xip_records' = [axfs_xip_records EXCEPT ![record_index].name = e]
  /\ log' = Append(log, e)
  /\ record_index_sem' = NoTask
  /\ UNCHANGED record_index

(* Mutant: the semaphore is not given back.                                *)
RecordNameHeld(e) ==
  /\ axfs_xip_records' = [axfs_xip_records EXCEPT ![record_index].name = e]
  /\ record_index' = record_index + 1
  /\ log' = Append(log, e)
  /\ UNCHANGED record_index_sem

RecordName(e) ==
  /\ axfs_xip_records' = [axfs_xip_records EXCEPT ![record_index].name = e]
  /\ record_index' = record_index + 1
  /\ log' = Append(log, e)
  /\ record_index_sem' = NoTask

-----------------------------------------------------------------------------
(* A read of /proc/axfs_xip.                                               *)

ReadBegin(r, n) ==
  /\ reader[r].pc = "idle" /\ ~reader[r].eof
  /\ reader' = [reader EXCEPT ![r].pc = "look", ![r].room = n, ![r].got = 0,
                              ![r].due = Len(log)]
  /\ UNCHANGED <<recordVars, is_first_line>>

(* The file is opened again.                                               *)
Reopen(r) ==
  /\ reader[r].pc = "idle" /\ reader[r] # NewReader
  /\ reader' = [reader EXCEPT ![r] = NewReader]
  /\ UNCHANGED <<recordVars, is_first_line>>

(* axfs_xip_proc_read: index = record_index, before the lock.              *)
LookIndex(r) ==
  /\ reader[r].pc = "look"
  /\ reader' = [reader EXCEPT ![r].pc = "down", ![r].index = record_index]
  /\ UNCHANGED <<recordVars, is_first_line>>

(* The end of a read of the reader s.                                      *)
Ended(s) ==
  [s EXCEPT !.pc = "idle", !.room = 0, !.got = 0, !.index = 0]

(* down_interruptible fails, and with it the read, if it got nothing.      *)
ReadInterrupted(r) ==
  /\ reader[r].pc = "down"
  /\ reader' = [reader EXCEPT ![r] = Ended(@)]
  /\ UNCHANGED <<recordVars, is_first_line>>

(* What follows needs the semaphore to itself and is one step.             *)
Down(r) == reader[r].pc = "down" /\ record_index_sem = NoTask

(* The read ends with this call, and tells the end of the file if it has   *)
(* brought nothing.                                                        *)
Stop(r) ==
  reader' = [reader EXCEPT ![r] = [Ended(@) EXCEPT !.eof = (reader[r].got = 0)]]

PrintEnd(r) ==
  /\ Down(r)
  /\ reader[r].off >= reader[r].index
  /\ is_first_line' = TRUE
  /\ Stop(r)
  /\ UNCHANGED recordVars

(* tlen: the line, after the heading if that is due.                       *)
Lines == IF is_first_line THEN 2 ELSE 1

(* The record at the position is printed, and the position moves on by n.  *)
Printed(r, n) ==
  LET s == [reader[r] EXCEPT
              !.pc = "look", !.room = @ - Lines, !.got = @ + Lines,
              !.off = @ + n, !.lines = Append(@, axfs_xip_records[reader[r].off])]
  IN  reader' = [reader EXCEPT ![r] = IF s.room > 0 THEN s ELSE Ended(s)]

(* The line does not fit: nothing is returned.                             *)
PrintTooLong(r) ==
  /\ Down(r)
  /\ reader[r].off < reader[r].index
  /\ Lines > reader[r].room
  /\ is_first_line' = FALSE
  /\ Stop(r)
  /\ UNCHANGED recordVars

(* Mutant: the position moves on by what was printed.                      *)
PrintLineBytes(r) ==
  /\ Down(r)
  /\ reader[r].off < reader[r].index
  /\ Lines <= reader[r].room
  /\ is_first_line' = FALSE
  /\ Printed(r, Lines)
  /\ UNCHANGED recordVars

(* *start = 1: the position, which is that of a record, moves on by one.   *)
PrintLine(r) ==
  /\ Down(r)
  /\ reader[r].off < reader[r].index
  /\ Lines <= reader[r].room
  /\ is_first_line' = FALSE
  /\ Printed(r, 1)
  /\ UNCHANGED recordVars

(* axfs_xip_proc_write.                                                    *)
Clear ==
  /\ record_index_sem = NoTask
  /\ record_index' = 0
  /\ log' = <<>>
  /\ reader' = [r \in Readers |->
       [reader[r] EXCEPT !.intact = (reader[r] = NewReader)]]
  /\ UNCHANGED <<record_index_sem, axfs_xip_records, is_first_line>>

ProcNext ==
  \/ Clear
  \/ \E r \in Readers :
       \/ Reopen(r) \/ LookIndex(r) \/ ReadInterrupted(r)
       \/ PrintEnd(r) \/ PrintTooLong(r) \/ PrintLine(r)
       \/ \E n \in ReadSizes : ReadBegin(r, n)

-----------------------------------------------------------------------------
(* Each record of the log describes one mapped page, in the order in which *)
(* the tasks recorded them, however they interleave.                       *)
LogWhole ==
  /\ record_index = Len(log)
  /\ \A i \in 0 .. record_index - 1 : axfs_xip_records[i] = Whole(log[i + 1])

(* A line never mixes two pages, even if the log was cleared and filled    *)
(* again after record_index was read.                                      *)
LinesWhole ==
  \A r \in Readers : \A i \in DOMAIN reader[r].lines :
    LET l == reader[r].lines[i] IN l.addr = l.name /\ l.addr # NoEntry

(* As long as nobody clears the log, a reader has printed its first        *)
(* records, each once and in order, across all the reads of a pass.        *)
ReadInOrder ==
  \A r \in Readers : reader[r].intact =>
    /\ reader[r].off <= Len(log)
    /\ reader[r].lines = [i \in 1 .. reader[r].off |-> Whole(log[i])]

(* A reader that is told the end of the file has seen every record that    *)
(* was there when that read began.                                         *)
ReadAll ==
  \A r \in Readers : reader[r].intact /\ reader[r].eof =>
    Len(reader[r].lines) >= reader[r].due

(* What is printed is in the log ("Write to Clear").                       *)
LinesLive ==
  [][\A r \in Readers : Len(reader'[r].lines) > Len(reader[r].lines) =>
       reader[r].off < record_index]_<<recordVars, procVars>>

(* Neither a record nor a line of the file is made of two pages, whoever   *)
(* records, prints and clears at the same time.                            *)
LinesRight == LogWhole /\ LinesWhole

(* One who reads the file to its end, in pieces of any size, gets the log  *)
(* as it is, each record once.                                             *)
LogRead == ReadInOrder /\ ReadAll

(* Each buffer has room for the heading and a line, which are printed at   *)
(* once: the lines of ReadAll would otherwise never come.                  *)
RoomForHeading == \A n \in ReadSizes : n >= 2
=============================================================================
