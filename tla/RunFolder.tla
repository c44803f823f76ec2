------------------------------ MODULE RunFolder -----------------------------
(***************************************************************************)
(* What runs leave on the recording drive: a folder for each, named by the *)
(* second it starts in (main.cpp), capture files named by prefix and       *)
(* second (types.hpp), the two logs (event_log.cpp) and summary.json; and  *)
(* the transfer of finished files to another drive (radiometer_run.sh).    *)
(*                                                                         *)
(* A file stands for a capture's files of all channels and chunks: channel *)
(* 0 is opened first, and no path removes its file.                        *)
(***************************************************************************)
EXTENDS Integers

CONSTANTS MaxTime,            \* last second of the clock in an instance
          Probes,             \* kMaxStampAttempts
          ClockMayStepBack    \* NTP, or a start without a battery-backed clock

ASSUME FolderAssumption == MaxTime \in Nat /\ Probes \in Nat \ {0} /\ ClockMayStepBack \in BOOLEAN

VARIABLES
  now,         \* host_unix_us, in seconds
  disk,        \* capture files under DATA_DIR
  archive,     \* capture files under TRANSFER_DIR
  headers,     \* per folder: header lines in events.csv
  writers,     \* history, per folder: the runs that wrote to its logs
  summaries    \* history: the runs whose summary.json was written

folderVars == <<now, disk, archive, headers, writers, summaries>>
logVars == <<headers, writers>>

Seconds == 0 .. MaxTime

Later == IF ClockMayStepBack THEN Seconds ELSE now .. MaxTime

\* The second a new run starts in.
NextStart == IF ClockMayStepBack THEN Seconds ELSE now + 1 .. MaxTime

SameName(f, g) == f.dir = g.dir /\ f.prefix = g.prefix /\ f.stamp = g.stamp

FreeStamps(d, p, t) ==
    {s \in t .. t + Probes - 1 :
       \A f \in disk : ~ SameName(f, [dir |-> d, prefix |-> p, stamp |-> s])}

HasStamp(d, p, t) == FreeStamps(d, p, t) # {}

UniqueStamp_NoProbe(d, p, t) == t

\* unique_capture_stamp: the first second whose name is free.
UniqueStamp(d, p, t) == CHOOSE s \in FreeStamps(d, p, t) : \A u \in FreeStamps(d, p, t) : s <= u

\* O_CREAT | O_TRUNC: a file of that name is lost.
CreateFile(f) == disk' = {g \in disk : ~ SameName(f, g)} \cup {f}

OpenLogs_AlwaysHeader(d, r) ==
    /\ headers' = [headers EXCEPT ![d] = @ + 1]
    /\ writers' = [writers EXCEPT ![d] = @ \cup {r}]

\* EventLog::open appends; the header is for an empty events.csv.
OpenLogs(d, r) ==
    /\ headers' = [headers EXCEPT ![d] = IF @ = 0 THEN 1 ELSE @]
    /\ writers' = [writers EXCEPT ![d] = @ \cup {r}]

\* rsync --remove-source-files of the files in moved, to their names there;
\* the logs of the folders in logs go with them.
Transfer(moved, logs) ==
    /\ archive' = {a \in archive : \A f \in moved : ~ SameName(a, f)} \cup moved
    /\ disk' = disk \ moved
    /\ headers' = [d \in DOMAIN headers |-> IF d \in logs THEN 0 ELSE headers[d]]
    /\ UNCHANGED <<now, writers, summaries>>
=============================================================================
