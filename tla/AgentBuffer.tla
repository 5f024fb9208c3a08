------------------------------ MODULE AgentBuffer ------------------------------
(***************************************************************************)
(* How the reports of one host reach the server (agents/linux-agent:        *)
(* internal/buffer, internal/agent/client.go, the flusher of cmd/main.go;   *)
(* routers/agents.py, events).                                              *)
(*                                                                          *)
(* Every wrapped run is a process of its own (`exec') that appends to the   *)
(* buffer file; the daemon (`run') appends what it reads in the journal,    *)
(* reads the file from a byte offset, posts what it finds, and compacts.    *)
(* The mutex of a Buffer is held within one process only.                   *)
(*                                                                          *)
(* Offsets count bytes, so the file is a sequence of bytes here: byte i of  *)
(* event e is <<e, i>>, and a newline ends every line.                      *)
(***************************************************************************)
EXTENDS Integers, FiniteSets, Sequences

CONSTANTS
  Events,
  Passive,     \* the events the daemon pushes itself
  Size,        \* [Events -> Nat]: the bytes of an event's line before the newline
  None,
  NL,          \* the newline
  BatchSize,   \* lines per POST
  CompactSize, \* a file larger than this is truncated once all of it is acknowledged
  MaxFaults    \* bound on crashes, failed posts and failed writes

Byte  == (Events \X Nat) \cup {NL}
Write == [event : Events, done : Nat]
Batch == [lines : Seq(Seq(Byte)), next : Nat]

\* A line holds a JSON object, so it has an opening and a closing byte at least.
ASSUME BufferAssumption ==
  /\ Passive \subseteq Events
  /\ Size \in [Events -> Nat \ {0, 1}]
  /\ BatchSize \in Nat \ {0}
  /\ CompactSize \in Nat /\ MaxFaults \in Nat
  /\ NL \notin Events \X Nat
  /\ None \notin Write /\ None \notin Batch /\ None \notin Seq(Events)

VARIABLES
  file,       \* buffer.jsonl
  writing,    \* a write(2) in progress: [event, done], or None
  started,    \* events whose push began
  recorded,   \* ghost: the events whose line got into the file, in order
  offset,     \* Buffer.offset of the daemon
  diskOffset, \* buffer.jsonl.offset
  flusher,    \* where the flusher is
  batch,      \* what Peek returned: [lines, next], or None
  request,    \* events of the awaited POST still to be published, or None
  late,       \* the same for POSTs whose agent has given up (equal remainders are one)
  published,  \* ghost: what the server published, in order
  damaged,    \* ghost: a line was torn, an append came between the size check and the
              \* truncation, or the daemon died before it had reset the offset
  faults

vars == <<file, writing, started, recorded, offset, diskOffset, flusher, batch,
          request, late, published, damaged, faults>>

queue  == <<file, writing, started, recorded>>
server == <<request, late, published>>

--------------------------------------------------------------------------------
(* The file                                                                   *)

Body(e) == [i \in 1 .. Size[e] |-> <<e, i>>]

Line(e) == Append(Body(e), NL)

\* json.Marshal of a batch fails when one of its raw lines is not a JSON text.
Readable(line) == \E e \in Events : line = Body(e)

EventOf(line) == CHOOSE e \in Events : line = Body(e)

\* Where the lines after byte o end.  A last line without newline counts too, and is
\* taken to end one byte beyond the file.
Stops(o) ==
  {i \in o + 1 .. Len(file) : file[i] = NL}
    \cup {i \in {Len(file) + 1} : i > o + 1 /\ file[i - 1] # NL}

\* The line that ends at stop s.
LineAt(o, s) ==
  LET before == {t \in Stops(o) : t < s} \cup {o}
      begin == CHOOSE t \in before : \A u \in before : u <= t
  IN SubSeq(file, begin + 1, s - 1)

\* Peek: up to n lines that are not empty, and the offset after the last line scanned.
Peeked(o, n) ==
  LET full == {s \in Stops(o) : LineAt(o, s) # <<>>}
      rank(s) == Cardinality({t \in full : t <= s})
      taken == {s \in full : rank(s) <= n}
      scanned == IF Cardinality(full) >= n THEN taken ELSE Stops(o)
  IN [lines |-> [k \in 1 .. Cardinality(taken) |-> LineAt(o, CHOOSE s \in taken : rank(s) = k)],
      next  |-> CHOOSE p \in scanned \cup {o} : \A s \in scanned \cup {o} : s <= p]

--------------------------------------------------------------------------------
(* Push                                                                       *)

\* The daemon's own pushes take the mutex that Peek and Ack take.
MutexFree == writing # None => writing.event \notin Passive

Acking == flusher \in {"saving", "compacting", "resetting"}

\* write(2) of a line to a file opened with O_APPEND: the kernel lets one writer in at a
\* time and readers at any time, who may see the first k bytes only.
StartPush(e) ==
  /\ writing = None /\ e \notin started
  /\ e \in Passive => flusher # "down" /\ ~Acking
  /\ started' = started \cup {e}
  /\ \E k \in 1 .. Size[e] + 1 :
       /\ file' = file \o SubSeq(Line(e), 1, k)
       /\ writing' = IF k = Size[e] + 1 THEN None ELSE [event |-> e, done |-> k]
       /\ recorded' = IF k >= Size[e] THEN Append(recorded, e) ELSE recorded
  /\ damaged' = (damaged \/ flusher = "compacting")
  /\ UNCHANGED <<offset, diskOffset, flusher, batch, server, faults>>

FinishPush ==
  /\ writing # None
  /\ LET e == writing.event IN
       /\ file' = file \o SubSeq(Line(e), writing.done + 1, Size[e] + 1)
       /\ recorded' = IF writing.done < Size[e] THEN Append(recorded, e) ELSE recorded
  /\ writing' = None
  /\ UNCHANGED <<started, offset, diskOffset, flusher, batch, server, damaged, faults>>

\* The write stops short: the disk is full, or the process is killed.  Push's error is
\* ignored by its callers.
TearPush ==
  /\ writing # None /\ faults < MaxFaults
  /\ writing' = None
  /\ damaged' = TRUE
  /\ faults' = faults + 1
  /\ UNCHANGED <<file, started, recorded, offset, diskOffset, flusher, batch, server>>

--------------------------------------------------------------------------------
(* The flusher                                                                *)

\* Mutant: Peek waits for a full batch.
PeekFull ==
  /\ flusher = "asleep" /\ MutexFree
  /\ Len(Peeked(offset, BatchSize).lines) = BatchSize
  /\ batch' = Peeked(offset, BatchSize)
  /\ flusher' = "sending"
  /\ UNCHANGED <<queue, offset, diskOffset, server, damaged, faults>>

Peek ==
  /\ flusher = "asleep" /\ MutexFree
  /\ Peeked(offset, BatchSize).lines # <<>>
  /\ batch' = Peeked(offset, BatchSize)
  /\ flusher' = "sending"
  /\ UNCHANGED <<queue, offset, diskOffset, server, damaged, faults>>

\* Nothing to send: sleep on.
PeekNothing ==
  /\ flusher = "asleep" /\ MutexFree
  /\ Peeked(offset, BatchSize).lines = <<>>
  /\ UNCHANGED vars

Sendable == \A k \in DOMAIN batch.lines : Readable(batch.lines[k])

\* The POST reaches the server.
Send ==
  /\ flusher = "sending" /\ request = None /\ Sendable
  /\ request' = [k \in DOMAIN batch.lines |-> EventOf(batch.lines[k])]
  /\ UNCHANGED <<queue, offset, diskOffset, flusher, batch, late, published, damaged, faults>>

\* A batch that does not marshal is posted as an empty body, which the server rejects.
SendRejected ==
  /\ flusher = "sending" /\ ~Sendable
  /\ flusher' = "asleep" /\ batch' = None
  /\ UNCHANGED <<queue, offset, diskOffset, server, damaged, faults>>

\* events(): publish one event after the other.
Publish ==
  /\ request # None /\ request # <<>>
  /\ published' = Append(published, Head(request))
  /\ request' = Tail(request)
  /\ UNCHANGED <<queue, offset, diskOffset, flusher, batch, late, damaged, faults>>

\* A handler whose agent has given up goes on.
PublishLate ==
  \E r \in late :
    /\ published' = Append(published, Head(r))
    /\ late' = (late \ {r}) \cup ({Tail(r)} \ {<<>>})
    /\ UNCHANGED <<queue, offset, diskOffset, flusher, batch, request, damaged, faults>>

SendSucceeds ==
  /\ request = <<>> /\ flusher = "sending"
  /\ request' = None
  /\ flusher' = "acking"
  /\ UNCHANGED <<queue, offset, diskOffset, batch, late, published, damaged, faults>>

\* The POST is refused, lost, fails half way, or times out while the server is at it.
SendFails ==
  /\ flusher = "sending" /\ faults < MaxFaults
  /\ flusher' = "asleep" /\ batch' = None /\ request' = None
  /\ late' \in {late, late \cup ({request} \ {None, <<>>})}
  /\ faults' = faults + 1
  /\ UNCHANGED <<queue, offset, diskOffset, published, damaged>>

\* Mutant: the batch is not dropped.
BeginAckKeeps ==
  /\ flusher = "acking" /\ MutexFree
  /\ offset' = batch.next
  /\ diskOffset' = 0
  /\ flusher' = "saving"
  /\ UNCHANGED <<queue, batch, server, damaged, faults>>

\* Ack, up to os.WriteFile's truncation of the offset file.  An empty file reads as 0.
BeginAck ==
  /\ flusher = "acking" /\ MutexFree
  /\ offset' = batch.next
  /\ batch' = None
  /\ diskOffset' = 0
  /\ flusher' = "saving"
  /\ UNCHANGED <<queue, server, damaged, faults>>

\* Mutant: a large file is compacted with lines still unsent.
SaveOffsetCompacts ==
  /\ flusher = "saving"
  /\ diskOffset' = offset
  /\ flusher' = IF Len(file) > CompactSize THEN "compacting" ELSE "asleep"
  /\ UNCHANGED <<queue, offset, batch, server, damaged, faults>>

\* The rest of Ack's first WriteFile, and the check of the file's size.
SaveOffset ==
  /\ flusher = "saving"
  /\ diskOffset' = offset
  /\ flusher' = IF Len(file) = offset /\ Len(file) > CompactSize THEN "compacting" ELSE "asleep"
  /\ UNCHANGED <<queue, offset, batch, server, damaged, faults>>

\* The offset file cannot be written; the caller ignores it.
SaveOffsetFails ==
  /\ flusher = "saving" /\ faults < MaxFaults
  /\ flusher' = "asleep"
  /\ faults' = faults + 1
  /\ UNCHANGED <<queue, offset, diskOffset, batch, server, damaged>>

\* Mutant: the truncation fails unnoticed.
TruncateFails ==
  /\ flusher = "compacting" /\ writing = None
  /\ flusher' = "resetting"
  /\ UNCHANGED <<queue, offset, diskOffset, batch, server, damaged, faults>>

\* os.Truncate, which waits for a write in progress.
Truncate ==
  /\ flusher = "compacting" /\ writing = None
  /\ file' = <<>>
  /\ flusher' = "resetting"
  /\ UNCHANGED <<writing, started, recorded, offset, diskOffset, batch, server, damaged, faults>>

\* Reopen, and both offsets back to 0.
ResetOffset ==
  /\ flusher = "resetting"
  /\ offset' = 0 /\ diskOffset' = 0
  /\ flusher' = "asleep"
  /\ UNCHANGED <<queue, batch, server, damaged, faults>>

\* The daemon dies, is stopped, or gives up on a rejected key; its own push is cut off.
Crash ==
  /\ flusher # "down" /\ faults < MaxFaults
  /\ flusher' = "down" /\ batch' = None /\ request' = None
  /\ late' \in {late, late \cup ({request} \ {None, <<>>})}
  /\ writing' = IF MutexFree THEN writing ELSE None
  /\ damaged' = (damaged \/ ~MutexFree \/ flusher = "resetting")
  /\ faults' = faults + 1
  /\ UNCHANGED <<file, started, recorded, offset, diskOffset, published>>

\* Mutant: a daemon that starts trusts the end of the file.
RestartAtEnd ==
  /\ flusher = "down"
  /\ offset' = Len(file)
  /\ flusher' = "asleep"
  /\ UNCHANGED <<queue, diskOffset, batch, server, damaged, faults>>

\* Open, at the restart by systemd.
Restart ==
  /\ flusher = "down"
  /\ offset' = diskOffset
  /\ flusher' = "asleep"
  /\ UNCHANGED <<queue, diskOffset, batch, server, damaged, faults>>

--------------------------------------------------------------------------------
Init ==
  /\ file = <<>> /\ writing = None /\ started = {} /\ recorded = <<>>
  /\ offset = 0 /\ diskOffset = 0
  /\ flusher = "asleep" /\ batch = None
  /\ request = None /\ late = {} /\ published = <<>>
  /\ damaged = FALSE /\ faults = 0

Next ==
  \/ \E e \in Events : StartPush(e)
  \/ FinishPush
  \/ TearPush
  \/ Peek
  \/ PeekNothing
  \/ Send
  \/ SendRejected
  \/ Publish
  \/ PublishLate
  \/ SendSucceeds
  \/ SendFails
  \/ BeginAck
  \/ SaveOffset
  \/ SaveOffsetFails
  \/ Truncate
  \/ ResetOffset
  \/ Crash
  \/ Restart

Spec == Init /\ [][Next]_vars

\* A write ends, the flusher loops, the server answers, systemd restarts the daemon.
Fairness ==
  /\ WF_vars(FinishPush)
  /\ WF_vars(Peek)
  /\ WF_vars(Send) /\ WF_vars(SendRejected) /\ WF_vars(Publish) /\ WF_vars(SendSucceeds)
  /\ WF_vars(BeginAck) /\ WF_vars(SaveOffset) /\ WF_vars(Truncate) /\ WF_vars(ResetOffset)
  /\ WF_vars(Restart)

FairSpec == Spec /\ Fairness

--------------------------------------------------------------------------------
(* Properties                                                                 *)

Received == {published[i] : i \in DOMAIN published}

Recorded == {recorded[i] : i \in DOMAIN recorded}

\* Every variable keeps its type, and the flusher holds a batch exactly from Peek to Ack.
TypeOK ==
  /\ file \in Seq(Byte)
  /\ writing # None => writing.event \in started /\ writing.done \in 1 .. Size[writing.event]
  /\ started \subseteq Events /\ Recorded \subseteq started /\ Received \subseteq Recorded
  /\ offset \in Nat /\ diskOffset \in Nat
  /\ flusher \in {"down", "asleep", "sending", "acking", "saving", "compacting", "resetting"}
  /\ batch # None <=> flusher \in {"sending", "acking"}
  /\ request # None => flusher = "sending"
  /\ damaged \in BOOLEAN /\ faults \in 0 .. MaxFaults

\* The events a daemon that continues from byte o is yet to find.
Ahead(o) ==
  {EventOf(l) : l \in {LineAt(o, s) : s \in Stops(o)} \cap {Body(e) : e \in Events}}

\* buffer.go: "crash-safe"; docs/AGENT.md: "survives agent restart and network outage".  An
\* event in the file that the server does not have is still ahead of the offset, of the one
\* in memory and of the one a restart would read.  (Between the truncation and the reset
\* both offsets are about to be 0.)
NothingLost ==
  \A e \in Recorded \ Received :
    IF flusher = "resetting" THEN e \in Ahead(0)
    ELSE /\ flusher # "down" => e \in Ahead(offset)
         /\ e \in Ahead(diskOffset)

\* Nothing is lost by crashes, failed or late posts, failed offset writes, concurrent
\* appends or compaction, unless a line was torn, an append raced the truncation, or the
\* daemon died between the truncation and the reset of the offset.
NothingSkipped == ~damaged => NothingLost

\* The server has every event once, until a fault makes the agent send one again; a line
\* seen before its newline is written is not read twice.
ResentOnlyAfterFault ==
  faults = 0 /\ ~damaged => Cardinality(Received) = Len(published)

\* The buffer implements the queue the documentation describes: the server's events are at
\* all times the first ones recorded, in order, across restarts and abandoned requests.
Queue == INSTANCE EventQueue WITH log <- recorded, received <- Received, broken <- damaged

IsAQueue == Queue!Spec

\* Every event in the file reaches the server in the end.
EventuallySent ==
  \A e \in Events : e \in Recorded ~> e \in Received \/ damaged
================================================================================
