----------------------------- MODULE Transfers -----------------------------
(***************************************************************************)
(* A file exported by the worker: copied into its transfer area            *)
(* (file-tools.ts, file_export), uploaded in chunks by the job that        *)
(* exported it (client.ts, uploadExports), assembled, verified, served and *)
(* removed by the relay (store.ts).                                        *)
(*                                                                         *)
(* A file is the sequence of its blocks and its SHA-256 is the file        *)
(* itself.  The relay answers a chunk in one turn of its event loop, but   *)
(* the process may die between any two of its writes: `files` and `rows`   *)
(* are what is on the disk.                                                *)
(***************************************************************************)
EXTENDS Integers, Sequences, Functions

CONSTANTS
  Ids,          \* transfers; every execution of file_export draws a new one
  Contents,     \* what the file exported by each transfer can hold
  ChunkBlocks,  \* blocks in a chunk
  Ttl,          \* lifetime of an export
  MaxTime       \* bound of the clock

ASSUME TransfersAssumption ==
  /\ "" \notin Ids
  /\ \A id \in Ids : \A c \in Contents[id] : c \in Seq(STRING)
  /\ ChunkBlocks \in Nat \ {0} /\ Ttl \in Nat \ {0} /\ MaxTime \in Nat

VARIABLES
  now,
  exports,   \* transfer_sessions of the worker, with the file each row stores
  uploads,   \* uploadExports for each transfer
  net,       \* chunk requests on their way to the relay
  files,     \* the relay's transfer directory: content by path
  rows,      \* the relay's transfers table: row by id
  served,    \* history: what readTransfer returned for each transfer
  died       \* history: the relay died while it wrote

relayVars == <<files, rows, died>>
vars == <<now, exports, uploads, net, files, rows, served, died>>

NoExport == [state |-> "none", size |-> 0, stored |-> <<>>, expires |-> 0]
NoUpload == [state |-> "none", offset |-> 0]
Ended == {"done", "failed"}

Part(id) == <<id, ".part">>
Ready(id) == <<id, "">>
FileNames == {Part(id) : id \in Ids} \cup {Ready(id) : id \in Ids}

Init ==
  /\ now = 0
  /\ exports = [id \in Ids |-> NoExport]
  /\ uploads = [id \in Ids |-> NoUpload]
  /\ net = {}
  /\ files = <<>>
  /\ rows = <<>>
  /\ served = [id \in Ids |-> {}]
  /\ died = FALSE

TransferTypeOK ==
  /\ now \in 0..MaxTime
  /\ \A id \in Ids :
       /\ exports[id].state \in {"none", "stat", "ready"}
       /\ exports[id].size \in {0} \cup {Len(c) : c \in Contents[id]}
       /\ exports[id].stored \in Contents[id] \cup {<<>>}
       /\ exports[id].expires \in 0..MaxTime
       /\ uploads[id].state \in {"none", "send", "wait", "accepted", "refused"} \cup Ended
       /\ uploads[id].offset \in 0..exports[id].size
  /\ \A m \in net : m.id \in Ids /\ m.offset + Len(m.bytes) <= m.size
  /\ DOMAIN files \subseteq FileNames
  /\ DOMAIN rows \subseteq Ids
  /\ \A id \in DOMAIN rows :
       /\ rows[id].state \in {"uploading", "ready"}
       /\ rows[id].received \in 0..rows[id].size
       /\ rows[id].path \in {Part(id), Ready(id)}

-----------------------------------------------------------------------------
(* The worker: file_export and uploadExports *)

\* One job at a time.
WorkerFree ==
  \A id \in Ids : exports[id].state # "stat" /\ uploads[id].state \in {"none"} \cup Ended

ExportStat(id) ==
  /\ WorkerFree
  /\ exports[id].state = "none"
  /\ now + Ttl <= MaxTime
  /\ \E c \in Contents[id] : exports' = [exports EXCEPT ![id].state = "stat",
                                                    ![id].size = Len(c)]
  /\ UNCHANGED <<now, uploads, net, relayVars, served>>

\* The copy holds what the file holds now, whatever its size was before.
ExportCopy(id) ==
  /\ exports[id].state = "stat"
  /\ now + Ttl <= MaxTime
  /\ \E c \in Contents[id] :
       exports' = [exports EXCEPT ![id] = [@ EXCEPT !.state = "ready",
                                                    !.stored = c,
                                                    !.expires = now + Ttl]]
  /\ uploads' = [uploads EXCEPT ![id].state = "send"]
  /\ UNCHANGED <<now, net, relayVars, served>>

\* What readSync finds of the next chunk: less than asked for, or nothing,
\* where the stored file ends early.
NextChunk(id) ==
  LET from == uploads[id].offset
      wanted == from + ChunkBlocks
      size == exports[id].size
      last == IF wanted < size THEN wanted ELSE size
      stored == exports[id].stored
  IN SubSeq(stored, from + 1, IF last < Len(stored) THEN last ELSE Len(stored))

SendChunk(id) ==
  /\ uploads[id].state = "send"
  /\ net' = net \cup {[id |-> id, offset |-> uploads[id].offset, bytes |-> NextChunk(id),
                       size |-> exports[id].size, sha256 |-> exports[id].stored,
                       expires |-> exports[id].expires]}
  /\ uploads' = [uploads EXCEPT ![id].state = "wait"]
  /\ UNCHANGED <<now, exports, relayVars, served>>

\* Slip: the last chunk is taken for sent before it is.
AfterChunkEarly(id, count) ==
  LET offset == uploads[id].offset + count
  IN [state |-> IF offset + 1 < exports[id].size THEN "send" ELSE "done", offset |-> offset]

\* Slip: the offset grows by what was asked for.
AfterChunkWhole(id, count) ==
  LET offset == uploads[id].offset + ChunkBlocks
  IN [state |-> IF offset < exports[id].size THEN "send" ELSE "done", offset |-> offset]

AfterChunk(id, count) ==
  LET offset == uploads[id].offset + count
  IN [state |-> IF offset < exports[id].size THEN "send" ELSE "done", offset |-> offset]

\* The reply to the chunk: on to the next one, or done.
ChunkAccepted(id) ==
  /\ uploads[id].state = "accepted"
  /\ uploads' = [uploads EXCEPT ![id] = AfterChunk(id, Len(NextChunk(id)))]
  /\ UNCHANGED <<now, exports, net, relayVars, served>>

ChunkRefused(id) ==
  /\ uploads[id].state = "refused"
  /\ uploads' = [uploads EXCEPT ![id].state = "failed"]
  /\ UNCHANGED <<now, exports, net, relayVars, served>>

\* A timeout, the abort of the job or the end of the worker: the upload is
\* given up, while its request may still arrive.
GiveUp(id) ==
  /\ uploads[id].state \in {"send", "wait", "accepted"}
  /\ uploads' = [uploads EXCEPT ![id].state = "failed"]
  /\ UNCHANGED <<now, exports, net, relayVars, served>>

\* The copy fails, or the worker dies before the row is written.
ExportFails(id) ==
  /\ exports[id].state = "stat"
  /\ exports' = [exports EXCEPT ![id] = NoExport]
  /\ UNCHANGED <<now, uploads, net, relayVars, served>>

-----------------------------------------------------------------------------
(* The relay's disk: d.files and d.rows *)

Disk == [files |-> files, rows |-> rows]

\* Slip: only rows that never became ready are swept.
ExpiredUploads(d) ==
  {id \in DOMAIN d.rows : d.rows[id].expires <= now /\ d.rows[id].state = "uploading"}

Expired(d) == {id \in DOMAIN d.rows : d.rows[id].expires <= now}

Without(f, S) == Restrict(f, DOMAIN f \ S)
Put(f, x, value) == [y \in DOMAIN f \cup {x} |-> IF y = x THEN value ELSE f[y]]

SweepFiles(d, gone) == [d EXCEPT !.files = Without(@, {d.rows[id].path : id \in gone})]
SweepRows(d, gone) == [d EXCEPT !.rows = Without(@, gone)]
SweepDisk(d) == SweepRows(SweepFiles(d, Expired(d)), Expired(d))

\* getTransfer finds the row and its file agree (TRANSFER_STORAGE_MISMATCH).
Stored(d, id) ==
  /\ d.rows[id].path \in DOMAIN d.files
  /\ Len(d.files[d.rows[id].path]) = d.rows[id].received

NewRow(m) == [size |-> m.size, sha256 |-> m.sha256, expires |-> m.expires,
              received |-> 0, state |-> "uploading", path |-> Part(m.id)]

\* The writes of an accepted chunk, one by one.
PutFile(d, path, content) == [d EXCEPT !.files = Put(@, path, content)]
PutRow(d, id, row) == [d EXCEPT !.rows = Put(@, id, row)]

CreatePart(d, m) == PutFile(d, Part(m.id), <<>>)
InsertRow(d, m) == PutRow(d, m.id, NewRow(m))
AppendBytes(d, m, n) ==
  LET path == d.rows[m.id].path
  IN PutFile(d, path, d.files[path] \o SubSeq(m.bytes, 1, n))
SetReceived(d, m) ==
  PutRow(d, m.id, [d.rows[m.id] EXCEPT !.received = m.offset + Len(m.bytes)])
Rename(d, m) ==
  PutFile([d EXCEPT !.files = Without(@, {Part(m.id)})], Ready(m.id), d.files[Part(m.id)])
SetReady(d, m) ==
  PutRow(d, m.id, [d.rows[m.id] EXCEPT !.state = "ready", !.path = Ready(m.id)])

\* Slip: the file is taken for what its sender says.
VerifiedUnread(d, m) == TRUE

Verified(d, m) == d.files[Part(m.id)] = d.rows[m.id].sha256

\* What appendTransferChunk leaves behind: how far it got, and what it
\* answers, "" if the process died on the way.
Result(d, reply) == [disk |-> d, reply |-> reply]

Finishing(d, m) ==
  IF d.rows[m.id].received # m.size
  THEN {Result(d, "accepted")}
  ELSE IF ~Verified(d, m)
  THEN {Result(d, "refused")}
  ELSE {Result(d, ""), Result(Rename(d, m), ""), Result(SetReady(Rename(d, m), m), ""),
        Result(SetReady(Rename(d, m), m), "accepted")}

Appending(d, m) ==
  IF d.rows[m.id].state = "ready"
  THEN {Result(d, "accepted")}
  ELSE IF d.rows[m.id].received # m.offset
  THEN {Result(d, "refused")}
  ELSE {Result(AppendBytes(d, m, n), "") : n \in 0..Len(m.bytes)}
         \cup Finishing(SetReceived(AppendBytes(d, m, Len(m.bytes)), m), m)

Creating(d, m) ==
  IF m.offset # 0 \/ Part(m.id) \in DOMAIN d.files
  THEN {Result(d, "refused")}
  ELSE {Result(CreatePart(d, m), ""), Result(InsertRow(CreatePart(d, m), m), "")}
         \cup Appending(InsertRow(CreatePart(d, m), m), m)

\* Slip: an expired transfer is accepted.
LateWelcome(m) == FALSE

TooLate(m) == m.expires <= now

AppendTransferChunk(m) ==
  LET d == SweepDisk(Disk)
  IN IF TooLate(m)
     THEN {Result(Disk, "refused")}
     ELSE IF m.id \notin DOMAIN d.rows
     THEN Creating(d, m)
     ELSE IF ~Stored(d, m.id)
     THEN {Result(d, "refused")}
     ELSE Appending(d, m)

-----------------------------------------------------------------------------
(* The relay's steps *)

Chunk(m) ==
  /\ \E result \in AppendTransferChunk(m) :
       /\ files' = result.disk.files
       /\ rows' = result.disk.rows
       /\ died' = (died \/ result.reply = "")
       /\ uploads' = IF uploads[m.id].state = "wait" /\ result.reply # ""
                     THEN [uploads EXCEPT ![m.id].state = result.reply]
                     ELSE uploads
  /\ net' = net \ {m}
  /\ UNCHANGED <<now, exports, served>>

Lose(m) ==
  /\ net' = net \ {m}
  /\ UNCHANGED <<now, exports, uploads, relayVars, served>>

\* sweepTransfers; the process may die after some of the files.
Sweep ==
  /\ files' = SweepDisk(Disk).files
  /\ rows' = SweepDisk(Disk).rows
  /\ UNCHANGED <<now, exports, uploads, net, served, died>>

SweepDies ==
  /\ \E gone \in SUBSET Expired(Disk) : files' = SweepFiles(Disk, gone).files
  /\ died' = TRUE
  /\ UNCHANGED <<now, exports, uploads, net, rows, served>>

\* The resource machine-file://transfer/{id}/{name}.
ReadTransfer(id) ==
  /\ id \in DOMAIN rows
  /\ rows[id].expires > now
  /\ rows[id].state = "ready"
  /\ Stored(Disk, id)
  /\ served' = [served EXCEPT ![id] = @ \cup {files[rows[id].path]}]
  /\ UNCHANGED <<now, exports, uploads, net, relayVars>>

Tick ==
  /\ now < MaxTime
  /\ now' = now + 1
  /\ UNCHANGED <<exports, uploads, net, relayVars, served>>

-----------------------------------------------------------------------------
Upload(id) == SendChunk(id) \/ ChunkAccepted(id) \/ ChunkRefused(id)

Next ==
  \/ \E id \in Ids :
       \/ ExportStat(id)
       \/ ExportCopy(id)
       \/ ExportFails(id)
       \/ Upload(id)
       \/ GiveUp(id)
       \/ ReadTransfer(id)
  \/ \E m \in net : Chunk(m) \/ Lose(m)
  \/ Sweep
  \/ SweepDies
  \/ Tick

Spec == Init /\ [][Next]_vars

\* The upload goes on, a request is answered or times out, the clock runs and
\* the relay's timer sweeps.
FairSpec ==
  /\ Spec
  /\ WF_vars(Tick)
  /\ WF_vars(Sweep)
  /\ \A id \in Ids :
       /\ WF_vars(Upload(id))
       /\ WF_vars(uploads[id].state = "wait" /\ (GiveUp(id) \/ \E m \in net : m.id = id /\ Chunk(m)))

-----------------------------------------------------------------------------
(* Correctness *)

\* What is served is the export itself, whole, under the hash its link names:
\* whatever the relay's deaths and the exported file's changes left behind.
ServedIsTheExport ==
  \A id \in Ids : served[id] \subseteq {exports[id].stored}

\* A finished upload can be read until it expires; and unless the relay died
\* while it wrote, every file belongs to a row, which says how much of it there
\* is.
RowsMatchFiles ==
  /\ \A id \in Ids :
       uploads[id].state = "done" /\ now < exports[id].expires =>
         id \in DOMAIN rows /\ rows[id].state = "ready" /\ Stored(Disk, id)
  /\ died \/ \A path \in DOMAIN files :
       /\ path[1] \in DOMAIN rows
       /\ rows[path[1]].path = path
       /\ Stored(Disk, path[1])

\* An upload comes to an end, even one whose file is shorter than it says.
UploadEnds == \A id \in Ids : uploads[id].state = "send" ~> uploads[id].state \in Ended

\* An expired row goes, and so does the file it names.
ExpiredGo ==
  \A id \in Ids : \A path \in {Part(id), Ready(id)} :
    (id \in DOMAIN rows /\ rows[id].path = path)
      ~> (id \notin DOMAIN rows /\ path \notin DOMAIN files)
=============================================================================
