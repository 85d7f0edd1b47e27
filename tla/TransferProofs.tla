--------------------------- MODULE TransferProofs ---------------------------
(***************************************************************************)
(* Theorems about Transfers, for any exports, chunk size, lifetime and     *)
(* order of lost and late chunks, and for any death of either side.        *)
(***************************************************************************)
EXTENDS Transfers, TLAPS

-----------------------------------------------------------------------------
(* The inductive invariant *)

Blocks == Seq(STRING)

Exports == [state : {"none", "stat", "ready"}, size : Nat, stored : Blocks, expires : Nat]
Uploads == [state : {"none", "send", "wait", "accepted", "refused"} \cup Ended, offset : Nat]
Chunks == [id : Ids, offset : Nat, bytes : Blocks, size : Nat, sha256 : Blocks, expires : Nat]
Rows == [size : Nat, sha256 : Blocks, expires : Nat, received : Nat,
         state : {"uploading", "ready"}, path : FileNames]

\* The numbers of an export, and how far its upload got.
ExportTyped(id) ==
  /\ exports[id].size \in {0} \cup {Len(c) : c \in Contents[id]}
  /\ exports[id].stored \in Contents[id] \cup {<<>>}
  /\ exports[id].expires \in 0..MaxTime
  /\ uploads[id].offset <= exports[id].size

TransferTyped ==
  /\ now \in 0..MaxTime
  /\ exports \in [Ids -> Exports]
  /\ uploads \in [Ids -> Uploads]
  /\ net \subseteq Chunks
  /\ served \in [Ids -> SUBSET Blocks]
  /\ died \in BOOLEAN

\* A row says what its export says, and where its file is.
RowSound(d, id) ==
  id \in DOMAIN d.rows =>
    /\ id \in Ids /\ exports[id].state = "ready"
    /\ d.rows[id] \in Rows
    /\ d.rows[id].size = exports[id].size
    /\ d.rows[id].sha256 = exports[id].stored
    /\ d.rows[id].expires = exports[id].expires
    /\ d.rows[id].received <= d.rows[id].size
    /\ d.rows[id].path = IF d.rows[id].state = "ready" THEN Ready(id) ELSE Part(id)

\* What bears the name of a whole file is the export.
FileSound(d, id) ==
  Ready(id) \in DOMAIN d.files =>
    exports[id].state = "ready" /\ d.files[Ready(id)] = exports[id].stored

DiskSound(d) ==
  /\ d = [files |-> d.files, rows |-> d.rows]
  /\ DOMAIN d.files \subseteq FileNames
  /\ \A path \in DOMAIN d.files : d.files[path] \in Blocks
  /\ DOMAIN d.rows \subseteq Ids
  /\ \A id \in Ids : RowSound(d, id) /\ FileSound(d, id)

\* Every file has its row.
Accounted(d) ==
  \A path \in DOMAIN d.files :
    /\ path[1] \in DOMAIN d.rows
    /\ d.rows[path[1]].path = path
    /\ Stored(d, path[1])

\* An upload that can be read.
Kept(d, id) == id \in DOMAIN d.rows /\ d.rows[id].state = "ready" /\ Stored(d, id)

ChunkSound(m) ==
  /\ exports[m.id].state = "ready"
  /\ m.size = exports[m.id].size
  /\ m.sha256 = exports[m.id].stored
  /\ m.expires = exports[m.id].expires
  /\ m.offset + Len(m.bytes) <= m.size

\* The request of an upload that waits, or was given up.
Awaited(m) ==
  /\ uploads[m.id].state \in {"wait", "failed"}
  /\ uploads[m.id].state = "wait" =>
       m.offset = uploads[m.id].offset /\ m.bytes = NextChunk(m.id)

OneRequest == \A m, n \in net : m.id = n.id => m = n

\* Nothing of an export leaves the worker before it is ready.
NotBefore(id) ==
  exports[id].state # "ready" => uploads[id] = NoUpload /\ served[id] = {}

\* The chunk that was accepted last made the file whole, or more is to come.
LastAccepted(id) ==
  uploads[id].state = "accepted" /\ now < exports[id].expires =>
    Kept(Disk, id) \/ uploads[id].offset + Len(NextChunk(id)) # exports[id].size

DoneIsKept(id) == uploads[id].state = "done" /\ now < exports[id].expires => Kept(Disk, id)

UploadInv(id) ==
  /\ ExportTyped(id)
  /\ NotBefore(id)
  /\ LastAccepted(id)
  /\ DoneIsKept(id)
  /\ served[id] \subseteq {exports[id].stored}

TransferInv ==
  /\ TransferTyped
  /\ DiskSound(Disk)
  /\ \A m \in net : ChunkSound(m) /\ Awaited(m)
  /\ OneRequest
  /\ \A id \in Ids : UploadInv(id)
  /\ died \/ Accounted(Disk)

-----------------------------------------------------------------------------
(* The writes *)

IsDisk(d) == d = [files |-> d.files, rows |-> d.rows]

LEMMA PathsApart ==
  ASSUME NEW id \in Ids
  PROVE  /\ Part(id) \in FileNames /\ Ready(id) \in FileNames
         /\ Part(id)[1] = id /\ Ready(id)[1] = id /\ Part(id) # Ready(id)
         /\ \A i \in Ids : i # id => {Part(i), Ready(i)} \cap {Part(id), Ready(id)} = {}
         /\ \A path \in FileNames : path[1] = id => path \in {Part(id), Ready(id)}
<1>1. ASSUME NEW path \in FileNames, path[1] = id
      PROVE  path \in {Part(id), Ready(id)}
  <2>1. PICK i \in Ids : path = Part(i) \/ path = Ready(i)
    BY DEF FileNames
  <2>2. Part(i)[1] = i /\ Ready(i)[1] = i
    BY DEF Part, Ready
  <2> QED BY <1>1, <2>1, <2>2
<1>2. /\ Part(id) \in FileNames /\ Ready(id) \in FileNames
      /\ Part(id)[1] = id /\ Ready(id)[1] = id /\ Part(id) # Ready(id)
  BY DEF FileNames, Part, Ready
<1>3. \A i \in Ids : i # id => {Part(i), Ready(i)} \cap {Part(id), Ready(id)} = {}
  BY DEF Part, Ready
<1> QED BY <1>1, <1>2, <1>3

LEMMA PutFileIs ==
  ASSUME NEW d, IsDisk(d), NEW path, NEW content
  PROVE  /\ IsDisk(PutFile(d, path, content))
         /\ PutFile(d, path, content).rows = d.rows
         /\ DOMAIN PutFile(d, path, content).files = DOMAIN d.files \cup {path}
         /\ PutFile(d, path, content).files[path] = content
         /\ \A p \in DOMAIN d.files : p # path => PutFile(d, path, content).files[p] = d.files[p]
<1>1. PutFile(d, path, content) = [files |-> Put(d.files, path, content), rows |-> d.rows]
  BY DEF PutFile, IsDisk
<1>2. /\ DOMAIN Put(d.files, path, content) = DOMAIN d.files \cup {path}
      /\ Put(d.files, path, content)[path] = content
      /\ \A p \in DOMAIN d.files : p # path => Put(d.files, path, content)[p] = d.files[p]
  BY DEF Put
<1> QED BY <1>1, <1>2 DEF IsDisk

LEMMA PutRowIs ==
  ASSUME NEW d, IsDisk(d), NEW id, NEW row
  PROVE  /\ IsDisk(PutRow(d, id, row))
         /\ PutRow(d, id, row).files = d.files
         /\ DOMAIN PutRow(d, id, row).rows = DOMAIN d.rows \cup {id}
         /\ PutRow(d, id, row).rows[id] = row
         /\ \A i \in DOMAIN d.rows : i # id => PutRow(d, id, row).rows[i] = d.rows[i]
<1>1. PutRow(d, id, row) = [files |-> d.files, rows |-> Put(d.rows, id, row)]
  BY DEF PutRow, IsDisk
<1>2. /\ DOMAIN Put(d.rows, id, row) = DOMAIN d.rows \cup {id}
      /\ Put(d.rows, id, row)[id] = row
      /\ \A i \in DOMAIN d.rows : i # id => Put(d.rows, id, row)[i] = d.rows[i]
  BY DEF Put
<1> QED BY <1>1, <1>2 DEF IsDisk

DropPart(d, id) == [d EXCEPT !.files = Without(@, {Part(id)})]

LEMMA DropPartIs ==
  ASSUME NEW d, IsDisk(d), NEW id
  PROVE  /\ IsDisk(DropPart(d, id))
         /\ DropPart(d, id).rows = d.rows
         /\ DOMAIN DropPart(d, id).files = DOMAIN d.files \ {Part(id)}
         /\ \A p \in DOMAIN d.files \ {Part(id)} : DropPart(d, id).files[p] = d.files[p]
<1>1. DropPart(d, id) = [files |-> Without(d.files, {Part(id)}), rows |-> d.rows]
  BY DEF DropPart, IsDisk
<1>2. /\ DOMAIN Without(d.files, {Part(id)}) = DOMAIN d.files \ {Part(id)}
      /\ \A p \in DOMAIN d.files \ {Part(id)} : Without(d.files, {Part(id)})[p] = d.files[p]
  BY DEF Without, Restrict
<1> QED BY <1>1, <1>2 DEF IsDisk

\* The files and rows of the other transfers.
SameAt(d, r, id) ==
  /\ id \in DOMAIN r.rows <=> id \in DOMAIN d.rows
  /\ id \in DOMAIN d.rows => r.rows[id] = d.rows[id]
  /\ \A path \in {Part(id), Ready(id)} :
       /\ path \in DOMAIN r.files <=> path \in DOMAIN d.files
       /\ path \in DOMAIN d.files => r.files[path] = d.files[path]

OthersSame(d, r, id) == \A i \in Ids : i # id => SameAt(d, r, i)

LEMMA SameSound ==
  ASSUME NEW d, NEW r, NEW id \in Ids, SameAt(d, r, id), RowSound(d, id), FileSound(d, id)
  PROVE  RowSound(r, id) /\ FileSound(r, id)
  BY DEF SameAt, RowSound, FileSound, Part, Ready

LEMMA OthersSound ==
  ASSUME NEW d, DiskSound(d), NEW r, IsDisk(r), NEW id \in Ids, OthersSame(d, r, id),
         DOMAIN r.files \subseteq FileNames,
         \A path \in DOMAIN r.files : r.files[path] \in Blocks,
         DOMAIN r.rows \subseteq Ids,
         RowSound(r, id), FileSound(r, id)
  PROVE  DiskSound(r)
<1>1. ASSUME NEW i \in Ids PROVE RowSound(r, i) /\ FileSound(r, i)
  BY SameSound DEF DiskSound, OthersSame
<1> QED BY <1>1 DEF DiskSound, IsDisk

LEMMA OthersTrans ==
  ASSUME NEW d, NEW e, NEW r, NEW id \in Ids, OthersSame(d, e, id), OthersSame(e, r, id)
  PROVE  OthersSame(d, r, id)
<1>1. ASSUME NEW i \in Ids, i # id PROVE SameAt(d, r, i)
  BY <1>1 DEF OthersSame, SameAt
<1> QED BY <1>1 DEF OthersSame

LEMMA PutFileSound ==
  ASSUME NEW d, DiskSound(d), NEW id \in Ids, NEW path \in {Part(id), Ready(id)},
         NEW content \in Blocks,
         path = Ready(id) => exports[id].state = "ready" /\ content = exports[id].stored
  PROVE  DiskSound(PutFile(d, path, content)) /\ OthersSame(d, PutFile(d, path, content), id)
<1>0. IsDisk(d)
  BY DEF DiskSound, IsDisk
<1> DEFINE r == PutFile(d, path, content)
<1>1. /\ IsDisk(r) /\ r.rows = d.rows
      /\ DOMAIN r.files = DOMAIN d.files \cup {path}
      /\ r.files[path] = content
      /\ \A p \in DOMAIN d.files : p # path => r.files[p] = d.files[p]
  BY <1>0, PutFileIs
<1> HIDE DEF r
<1>2. \A i \in Ids : i # id => path \notin {Part(i), Ready(i)}
  BY PathsApart
<1>3. OthersSame(d, r, id)
  BY <1>1, <1>2 DEF OthersSame, SameAt
<1>4. DOMAIN r.files \subseteq FileNames
  <2>1. path \in FileNames
    BY PathsApart
  <2> QED BY <1>1, <2>1 DEF DiskSound
<1>5. \A p \in DOMAIN r.files : r.files[p] \in Blocks
  BY <1>1 DEF DiskSound
<1>6. RowSound(r, id) /\ FileSound(r, id)
  <2>1. RowSound(d, id) /\ FileSound(d, id)
    BY DEF DiskSound
  <2>2. RowSound(r, id)
    BY <1>1, <2>1 DEF RowSound
  <2> QED BY <1>1, <2>1, <2>2 DEF FileSound
<1>7. DOMAIN r.rows \subseteq Ids
  BY <1>1 DEF DiskSound
<1>8. DiskSound(r)
  BY <1>1, <1>3, <1>4, <1>5, <1>6, <1>7, OthersSound
<1> QED BY <1>3, <1>8 DEF r

LEMMA PutRowSound ==
  ASSUME NEW d, DiskSound(d), NEW id \in Ids, NEW row \in Rows,
         exports[id].state = "ready",
         row.size = exports[id].size, row.sha256 = exports[id].stored,
         row.expires = exports[id].expires, row.received <= row.size,
         row.path = IF row.state = "ready" THEN Ready(id) ELSE Part(id)
  PROVE  DiskSound(PutRow(d, id, row)) /\ OthersSame(d, PutRow(d, id, row), id)
<1>0. IsDisk(d)
  BY DEF DiskSound, IsDisk
<1> DEFINE r == PutRow(d, id, row)
<1>1. /\ IsDisk(r) /\ r.files = d.files
      /\ DOMAIN r.rows = DOMAIN d.rows \cup {id}
      /\ r.rows[id] = row
      /\ \A i \in DOMAIN d.rows : i # id => r.rows[i] = d.rows[i]
  BY <1>0, PutRowIs
<1> HIDE DEF r
<1>2. OthersSame(d, r, id)
  BY <1>1 DEF OthersSame, SameAt
<1>3. RowSound(r, id) /\ FileSound(r, id)
  BY <1>1 DEF DiskSound, RowSound, FileSound
<1>4. DOMAIN r.rows \subseteq Ids
  BY <1>1 DEF DiskSound
<1>5. DiskSound(r)
  BY <1>1, <1>2, <1>3, <1>4, OthersSound DEF DiskSound
<1> QED BY <1>2, <1>5 DEF r

LEMMA DropPartSound ==
  ASSUME NEW d, DiskSound(d), NEW id \in Ids
  PROVE  DiskSound(DropPart(d, id)) /\ OthersSame(d, DropPart(d, id), id)
<1>0. IsDisk(d)
  BY DEF DiskSound, IsDisk
<1> DEFINE r == DropPart(d, id)
<1>1. /\ IsDisk(r) /\ r.rows = d.rows
      /\ DOMAIN r.files = DOMAIN d.files \ {Part(id)}
      /\ \A p \in DOMAIN d.files \ {Part(id)} : r.files[p] = d.files[p]
  BY <1>0, DropPartIs
<1> HIDE DEF r
<1>2. \A i \in Ids : i # id => Part(id) \notin {Part(i), Ready(i)}
  BY PathsApart
<1>3. OthersSame(d, r, id)
  BY <1>1, <1>2 DEF OthersSame, SameAt
<1>4. RowSound(r, id) /\ FileSound(r, id)
  <2>1. RowSound(d, id) /\ FileSound(d, id)
    BY DEF DiskSound
  <2>2. RowSound(r, id)
    BY <1>1, <2>1 DEF RowSound
  <2> QED BY <1>1, <2>1, <2>2 DEF FileSound
<1>5. /\ DOMAIN r.files \subseteq FileNames /\ DOMAIN r.rows \subseteq Ids
      /\ \A p \in DOMAIN r.files : r.files[p] \in Blocks
  BY <1>1 DEF DiskSound
<1>6. DiskSound(r)
  BY <1>1, <1>3, <1>4, <1>5, OthersSound
<1> QED BY <1>3, <1>6 DEF r

-----------------------------------------------------------------------------
(* appendTransferChunk *)

AccountedAt(d, id) ==
  \A path \in {Part(id), Ready(id)} \cap DOMAIN d.files :
    id \in DOMAIN d.rows /\ d.rows[id].path = path /\ Stored(d, id)

LEMMA AccountedIs ==
  ASSUME NEW d, DOMAIN d.files \subseteq FileNames
  PROVE  Accounted(d) <=> \A id \in Ids : AccountedAt(d, id)
<1>1. ASSUME Accounted(d), NEW id \in Ids PROVE AccountedAt(d, id)
  <2> SUFFICES ASSUME NEW path \in {Part(id), Ready(id)}, path \in DOMAIN d.files
               PROVE  id \in DOMAIN d.rows /\ d.rows[id].path = path /\ Stored(d, id)
    BY DEF AccountedAt
  <2>1. path[1] = id
    BY PathsApart
  <2> QED BY <1>1, <2>1 DEF Accounted
<1>2. ASSUME \A id \in Ids : AccountedAt(d, id), NEW path \in DOMAIN d.files
      PROVE  /\ path[1] \in DOMAIN d.rows
             /\ d.rows[path[1]].path = path
             /\ Stored(d, path[1])
  <2>1. PICK id \in Ids : path \in {Part(id), Ready(id)}
    BY DEF FileNames
  <2>2. path[1] = id
    BY <2>1, PathsApart
  <2>3. AccountedAt(d, id)
    BY <1>2
  <2> QED BY <2>1, <2>2, <2>3 DEF AccountedAt
<1> QED BY <1>1, <1>2 DEF Accounted

LEMMA SameKeeps ==
  ASSUME NEW d, NEW r, NEW id \in Ids, DiskSound(d), SameAt(d, r, id)
  PROVE  /\ Kept(d, id) => Kept(r, id)
         /\ AccountedAt(d, id) => AccountedAt(r, id)
<1>1. RowSound(d, id)
  BY DEF DiskSound
<1>2. id \in DOMAIN d.rows => d.rows[id].path \in {Part(id), Ready(id)}
  BY <1>1 DEF RowSound
<1>3. id \in DOMAIN d.rows /\ Stored(d, id) => Stored(r, id)
  BY <1>2 DEF SameAt, Stored
<1> QED BY <1>3 DEF SameAt, Kept, AccountedAt

\* What a chunk must leave behind when its reply is on its way, or the relay
\* dead.
Good(d, result, m) ==
  /\ DiskSound(result.disk) /\ OthersSame(d, result.disk, m.id)
  /\ result.reply \in {"", "accepted", "refused"}
  /\ result.reply # "" /\ AccountedAt(d, m.id) => AccountedAt(result.disk, m.id)
  /\ result.reply = "accepted" =>
       Kept(result.disk, m.id) \/ m.offset + Len(m.bytes) # m.size

LEMMA GoodUnchanged ==
  ASSUME NEW d, DiskSound(d), NEW m \in Chunks, NEW reply \in {"", "accepted", "refused"},
         reply = "accepted" => Kept(d, m.id) \/ m.offset + Len(m.bytes) # m.size
  PROVE  Good(d, Result(d, reply), m)
<1>1. Result(d, reply).disk = d /\ Result(d, reply).reply = reply
  BY DEF Result
<1>2. OthersSame(d, d, m.id)
  BY DEF OthersSame, SameAt
<1> QED BY <1>1, <1>2 DEF Good

LEMMA GoodDead ==
  ASSUME NEW d, NEW r, NEW m \in Chunks, DiskSound(r), OthersSame(d, r, m.id)
  PROVE  Good(d, Result(r, ""), m)
<1>1. Result(r, "").disk = r /\ Result(r, "").reply = ""
  BY DEF Result
<1> QED BY <1>1 DEF Good

LEMMA GoodTrans ==
  ASSUME NEW d, NEW e, NEW m \in Chunks, NEW result, Good(e, result, m),
         OthersSame(d, e, m.id), AccountedAt(d, m.id) => AccountedAt(e, m.id)
  PROVE  Good(d, result, m)
<1>1. m.id \in Ids
  BY DEF Chunks
<1>2. OthersSame(d, result.disk, m.id)
  BY <1>1, OthersTrans DEF Good
<1> QED BY <1>2 DEF Good

\* A part that is being written: its row counts what is there.
Writing(d, m) ==
  /\ DiskSound(d) /\ m.id \in DOMAIN d.rows /\ Stored(d, m.id)
  /\ d.rows[m.id].state = "uploading"

LEMMA WritingIs ==
  ASSUME NEW m \in Chunks, NEW d, Writing(d, m)
  PROVE  /\ m.id \in Ids /\ IsDisk(d)
         /\ d.rows[m.id] \in Rows /\ d.rows[m.id].path = Part(m.id)
         /\ d.rows[m.id].size = exports[m.id].size
         /\ d.rows[m.id].sha256 = exports[m.id].stored
         /\ d.rows[m.id].expires = exports[m.id].expires
         /\ exports[m.id].state = "ready"
         /\ Part(m.id) \in DOMAIN d.files /\ d.files[Part(m.id)] \in Blocks
         /\ Len(d.files[Part(m.id)]) = d.rows[m.id].received
<1>1. m.id \in Ids
  BY DEF Chunks
<1>2. RowSound(d, m.id)
  BY <1>1 DEF Writing, DiskSound
<1>3. d.rows[m.id].path = Part(m.id)
  BY <1>2 DEF Writing, RowSound
<1> QED BY <1>1, <1>2, <1>3 DEF Writing, RowSound, Stored, DiskSound, IsDisk

LEMMA FinishingGood ==
  ASSUME NEW m \in Chunks, ChunkSound(m), NEW d, Writing(d, m),
         d.rows[m.id].received = m.offset + Len(m.bytes),
         NEW result \in Finishing(d, m)
  PROVE  Good(d, result, m)
<1> DEFINE renamed == Rename(d, m)
           ready == SetReady(renamed, m)
<1>1. /\ m.id \in Ids /\ IsDisk(d)
      /\ d.rows[m.id] \in Rows /\ d.rows[m.id].path = Part(m.id)
      /\ d.rows[m.id].size = exports[m.id].size
      /\ d.rows[m.id].sha256 = exports[m.id].stored
      /\ d.rows[m.id].expires = exports[m.id].expires
      /\ exports[m.id].state = "ready"
      /\ Part(m.id) \in DOMAIN d.files /\ d.files[Part(m.id)] \in Blocks
      /\ Len(d.files[Part(m.id)]) = d.rows[m.id].received
      /\ DiskSound(d)
  BY WritingIs DEF Writing
<1>2. CASE d.rows[m.id].received # m.size
  <2>1. result = Result(d, "accepted")
    BY <1>2 DEF Finishing
  <2> QED BY <1>1, <1>2, <2>1, GoodUnchanged
<1>3. CASE d.rows[m.id].received = m.size /\ ~Verified(d, m)
  <2>1. result = Result(d, "refused")
    BY <1>3 DEF Finishing
  <2> QED BY <1>1, <2>1, GoodUnchanged
<1>4. CASE d.rows[m.id].received = m.size /\ Verified(d, m)
  <2>1. d.files[Part(m.id)] = exports[m.id].stored
    BY <1>1, <1>4 DEF Verified
  <2>2. /\ DiskSound(DropPart(d, m.id)) /\ OthersSame(d, DropPart(d, m.id), m.id)
        /\ IsDisk(DropPart(d, m.id))
        /\ DropPart(d, m.id).rows = d.rows
        /\ DOMAIN DropPart(d, m.id).files = DOMAIN d.files \ {Part(m.id)}
    BY <1>1, DropPartSound, DropPartIs
  <2>3. renamed = PutFile(DropPart(d, m.id), Ready(m.id), d.files[Part(m.id)])
    BY DEF Rename, DropPart
  <2>4. /\ DiskSound(renamed) /\ OthersSame(DropPart(d, m.id), renamed, m.id)
        /\ IsDisk(renamed) /\ renamed.rows = d.rows
        /\ DOMAIN renamed.files = (DOMAIN d.files \ {Part(m.id)}) \cup {Ready(m.id)}
        /\ renamed.files[Ready(m.id)] = d.files[Part(m.id)]
    BY <1>1, <2>1, <2>2, <2>3, PutFileSound, PutFileIs
  <2>5. OthersSame(d, renamed, m.id)
    BY <1>1, <2>2, <2>4, OthersTrans
  <2> HIDE DEF renamed
  <2> DEFINE row == [renamed.rows[m.id] EXCEPT !.state = "ready", !.path = Ready(m.id)]
  <2>6. /\ row \in Rows /\ row.state = "ready" /\ row.path = Ready(m.id)
        /\ row.size = exports[m.id].size /\ row.sha256 = exports[m.id].stored
        /\ row.expires = exports[m.id].expires
        /\ row.received = d.rows[m.id].received
    BY <1>1, <2>4, PathsApart DEF Rows
  <2>7. ready = PutRow(renamed, m.id, row)
    BY DEF SetReady
  <2>8. m.size = exports[m.id].size /\ m.size \in Nat
    BY DEF ChunkSound, Chunks
  <2> HIDE DEF row, ready
  <2>9. /\ DiskSound(ready) /\ OthersSame(renamed, ready, m.id)
        /\ ready.files = renamed.files /\ m.id \in DOMAIN ready.rows
        /\ ready.rows[m.id] = row
    BY <1>1, <1>4, <2>4, <2>6, <2>7, <2>8, PutRowSound, PutRowIs
  <2>10. OthersSame(d, ready, m.id)
    BY <1>1, <2>5, <2>9, OthersTrans
  <2>11. Stored(ready, m.id)
    BY <1>1, <2>4, <2>6, <2>9 DEF Stored
  <2>12. Kept(ready, m.id) /\ AccountedAt(ready, m.id)
    BY <1>1, <2>4, <2>6, <2>9, <2>11, PathsApart DEF Kept, AccountedAt
  <2>13. Good(d, Result(ready, "accepted"), m)
    <3>1. Result(ready, "accepted").disk = ready /\ Result(ready, "accepted").reply = "accepted"
      BY DEF Result
    <3> QED BY <2>9, <2>10, <2>12, <3>1 DEF Good
  <2>14. result \in {Result(d, ""), Result(renamed, ""), Result(ready, ""), Result(ready, "accepted")}
    BY <1>4 DEF Finishing, renamed, ready
  <2>15. OthersSame(d, d, m.id)
    BY DEF OthersSame, SameAt
  <2> QED BY <1>1, <2>4, <2>5, <2>9, <2>10, <2>13, <2>14, <2>15, GoodDead
<1> QED BY <1>2, <1>3, <1>4

LEMMA PrefixIs ==
  ASSUME NEW s \in Blocks, NEW n \in 0..Len(s)
  PROVE  SubSeq(s, 1, n) \in Blocks /\ Len(SubSeq(s, 1, n)) = n
  BY DEF Blocks

LEMMA ConcatIs ==
  ASSUME NEW s \in Blocks, NEW t \in Blocks
  PROVE  s \o t \in Blocks /\ Len(s \o t) = Len(s) + Len(t)
  BY DEF Blocks

LEMMA AppendBytesIs ==
  ASSUME NEW m \in Chunks, NEW d, Writing(d, m), NEW n \in 0..Len(m.bytes)
  PROVE  LET e == AppendBytes(d, m, n)
         IN /\ DiskSound(e) /\ OthersSame(d, e, m.id) /\ IsDisk(e) /\ e.rows = d.rows
            /\ DOMAIN e.files = DOMAIN d.files
            /\ Len(e.files[Part(m.id)]) = d.rows[m.id].received + n
<1> DEFINE content == d.files[Part(m.id)] \o SubSeq(m.bytes, 1, n)
           e == AppendBytes(d, m, n)
<1>1. /\ m.id \in Ids /\ IsDisk(d) /\ DiskSound(d)
      /\ d.rows[m.id].path = Part(m.id)
      /\ Part(m.id) \in DOMAIN d.files /\ d.files[Part(m.id)] \in Blocks
      /\ Len(d.files[Part(m.id)]) = d.rows[m.id].received
  BY WritingIs DEF Writing
<1>2. m.bytes \in Blocks
  BY DEF Chunks
<1>3. content \in Blocks /\ Len(content) = d.rows[m.id].received + n
  <2>1. SubSeq(m.bytes, 1, n) \in Blocks /\ Len(SubSeq(m.bytes, 1, n)) = n
    BY <1>2, PrefixIs
  <2> QED BY <1>1, <2>1, ConcatIs
<1>4. e = PutFile(d, Part(m.id), content)
  BY <1>1 DEF AppendBytes
<1> HIDE DEF content, e
<1>5. Part(m.id) # Ready(m.id)
  BY <1>1, PathsApart
<1>6. DiskSound(e) /\ OthersSame(d, e, m.id)
  BY <1>1, <1>3, <1>4, <1>5, PutFileSound
<1>7. /\ IsDisk(e) /\ e.rows = d.rows
      /\ DOMAIN e.files = DOMAIN d.files \cup {Part(m.id)}
      /\ e.files[Part(m.id)] = content
  BY <1>1, <1>4, PutFileIs
<1> QED BY <1>1, <1>3, <1>6, <1>7 DEF e

LEMMA AppendingGood ==
  ASSUME NEW m \in Chunks, ChunkSound(m), NEW d, DiskSound(d), m.id \in DOMAIN d.rows,
         Stored(d, m.id), NEW result \in Appending(d, m)
  PROVE  Good(d, result, m)
<1>1. CASE d.rows[m.id].state = "ready"
  <2>1. result = Result(d, "accepted")
    BY <1>1 DEF Appending
  <2>2. Kept(d, m.id)
    BY <1>1 DEF Kept
  <2> QED BY <2>1, <2>2, GoodUnchanged
<1>2. CASE d.rows[m.id].state # "ready" /\ d.rows[m.id].received # m.offset
  <2>1. result = Result(d, "refused")
    BY <1>2 DEF Appending
  <2> QED BY <2>1, GoodUnchanged
<1>3. CASE d.rows[m.id].state # "ready" /\ d.rows[m.id].received = m.offset
  <2>1. m.id \in Ids /\ m.offset \in Nat /\ m.bytes \in Blocks /\ Len(m.bytes) \in Nat
    BY DEF Chunks, Blocks
  <2>2. RowSound(d, m.id)
    BY <2>1 DEF DiskSound
  <2>3. Writing(d, m)
    BY <1>3, <2>2 DEF Writing, RowSound, Rows
  <2> DEFINE e == AppendBytes(d, m, Len(m.bytes))
             r == SetReceived(e, m)
  <2>4. /\ DiskSound(e) /\ OthersSame(d, e, m.id) /\ IsDisk(e) /\ e.rows = d.rows
        /\ DOMAIN e.files = DOMAIN d.files
        /\ Len(e.files[Part(m.id)]) = d.rows[m.id].received + Len(m.bytes)
    BY <2>1, <2>3, AppendBytesIs
  <2>5. CASE \E n \in 0..Len(m.bytes) : result = Result(AppendBytes(d, m, n), "")
    BY <2>3, <2>5, AppendBytesIs, GoodDead
  <2>6. CASE result \in Finishing(r, m)
    <3> HIDE DEF e
    <3> DEFINE row == [e.rows[m.id] EXCEPT !.received = m.offset + Len(m.bytes)]
    <3>1. /\ d.rows[m.id] \in Rows /\ d.rows[m.id].path = Part(m.id)
          /\ d.rows[m.id].size = exports[m.id].size
          /\ d.rows[m.id].sha256 = exports[m.id].stored
          /\ d.rows[m.id].expires = exports[m.id].expires
          /\ exports[m.id].state = "ready" /\ d.rows[m.id].state = "uploading"
          /\ Part(m.id) \in DOMAIN d.files
      BY <2>3, WritingIs DEF Writing
    <3>2. /\ row \in Rows /\ row.path = Part(m.id) /\ row.state = "uploading"
          /\ row.size = exports[m.id].size /\ row.sha256 = exports[m.id].stored
          /\ row.expires = exports[m.id].expires
          /\ row.received = m.offset + Len(m.bytes)
      <4>1. /\ e.rows[m.id] \in Rows /\ e.rows[m.id].path = Part(m.id)
            /\ e.rows[m.id].size = exports[m.id].size
            /\ e.rows[m.id].sha256 = exports[m.id].stored
            /\ e.rows[m.id].expires = exports[m.id].expires
            /\ e.rows[m.id].state = "uploading"
        BY <2>4, <3>1
      <4>2. m.offset + Len(m.bytes) \in Nat
        BY <2>1
      <4> QED BY <4>1, <4>2 DEF Rows
    <3>3. row.received <= row.size
      BY <3>2 DEF ChunkSound
    <3>4. r = PutRow(e, m.id, row)
      BY DEF SetReceived
    <3> HIDE DEF row, r
    <3>5. /\ DiskSound(r) /\ OthersSame(e, r, m.id)
          /\ r.files = e.files /\ m.id \in DOMAIN r.rows /\ r.rows[m.id] = row
      BY <2>1, <2>4, <3>1, <3>2, <3>3, <3>4, PutRowSound, PutRowIs
    <3>6. Stored(r, m.id)
      BY <1>3, <2>4, <3>1, <3>2, <3>5 DEF Stored
    <3>7. Writing(r, m)
      BY <3>2, <3>5, <3>6 DEF Writing
    <3>8. Good(r, result, m)
      BY <2>6, <3>2, <3>5, <3>7, FinishingGood
    <3>9. OthersSame(d, r, m.id)
      BY <2>1, <2>4, <3>5, OthersTrans
    <3>10. AccountedAt(d, m.id) => AccountedAt(r, m.id)
      BY <2>4, <3>1, <3>2, <3>5, <3>6 DEF AccountedAt
    <3> QED BY <3>8, <3>9, <3>10, GoodTrans
  <2> QED BY <1>3, <2>5, <2>6 DEF Appending
<1> QED BY <1>1, <1>2, <1>3

LEMMA CreatingGood ==
  ASSUME NEW m \in Chunks, ChunkSound(m), NEW d, DiskSound(d), m.id \notin DOMAIN d.rows,
         NEW result \in Creating(d, m)
  PROVE  Good(d, result, m)
<1>1. CASE m.offset # 0 \/ Part(m.id) \in DOMAIN d.files
  <2>1. result = Result(d, "refused")
    BY <1>1 DEF Creating
  <2> QED BY <2>1, GoodUnchanged
<1>2. CASE m.offset = 0 /\ Part(m.id) \notin DOMAIN d.files
  <2> DEFINE e == CreatePart(d, m)
             r == InsertRow(e, m)
  <2>1. m.id \in Ids /\ IsDisk(d) /\ <<>> \in Blocks /\ Len(<<>>) = 0
    BY DEF Chunks, DiskSound, IsDisk, Blocks
  <2>2. Part(m.id) # Ready(m.id)
    BY <2>1, PathsApart
  <2>3. e = PutFile(d, Part(m.id), <<>>)
    BY DEF CreatePart
  <2> HIDE DEF e
  <2>4. DiskSound(e) /\ OthersSame(d, e, m.id)
    BY <2>1, <2>2, <2>3, PutFileSound
  <2>5. /\ IsDisk(e) /\ e.rows = d.rows
        /\ DOMAIN e.files = DOMAIN d.files \cup {Part(m.id)}
        /\ e.files[Part(m.id)] = <<>>
    BY <2>1, <2>3, PutFileIs
  <2>6. r = PutRow(e, m.id, NewRow(m))
    BY DEF InsertRow
  <2>7. /\ NewRow(m) \in Rows /\ NewRow(m).path = Part(m.id) /\ NewRow(m).state = "uploading"
        /\ NewRow(m).size = exports[m.id].size /\ NewRow(m).sha256 = exports[m.id].stored
        /\ NewRow(m).expires = exports[m.id].expires /\ NewRow(m).received = 0
    BY <2>1, PathsApart DEF NewRow, Rows, Chunks, ChunkSound
  <2>8. NewRow(m).received <= NewRow(m).size /\ exports[m.id].state = "ready"
    BY <2>7 DEF Rows, ChunkSound
  <2> HIDE DEF r
  <2>9. /\ DiskSound(r) /\ OthersSame(e, r, m.id)
        /\ r.files = e.files /\ m.id \in DOMAIN r.rows /\ r.rows[m.id] = NewRow(m)
    BY <2>1, <2>4, <2>5, <2>6, <2>7, <2>8, PutRowSound, PutRowIs
  <2>10. OthersSame(d, r, m.id)
    BY <2>1, <2>4, <2>9, OthersTrans
  <2>11. Stored(r, m.id)
    BY <2>1, <2>5, <2>7, <2>9 DEF Stored
  <2>12. AccountedAt(d, m.id) => AccountedAt(r, m.id)
    BY <1>2, <2>5, <2>7, <2>9, <2>11 DEF AccountedAt
  <2>13. CASE result = Result(e, "") \/ result = Result(r, "")
    BY <2>4, <2>9, <2>10, <2>13, GoodDead
  <2>14. CASE result \in Appending(r, m)
    <3>1. Good(r, result, m)
      BY <2>9, <2>11, <2>14, AppendingGood
    <3> QED BY <2>10, <2>12, <3>1, GoodTrans
  <2> QED BY <1>2, <2>13, <2>14 DEF Creating, e, r
<1> QED BY <1>1, <1>2

LEMMA SweepFilesIs ==
  ASSUME NEW d, DiskSound(d), NEW gone \in SUBSET DOMAIN d.rows
  PROVE  LET r == SweepFiles(d, gone)
         IN /\ DiskSound(r) /\ IsDisk(r) /\ r.rows = d.rows
            /\ DOMAIN r.files = DOMAIN d.files \ {d.rows[id].path : id \in gone}
            /\ \A id \in Ids : id \notin gone => SameAt(d, r, id)
<1> DEFINE paths == {d.rows[id].path : id \in gone}
           r == SweepFiles(d, gone)
<1>1. r = [files |-> Without(d.files, paths), rows |-> d.rows]
  BY DEF SweepFiles, DiskSound
<1>2. /\ DOMAIN Without(d.files, paths) = DOMAIN d.files \ paths
      /\ \A p \in DOMAIN d.files \ paths : Without(d.files, paths)[p] = d.files[p]
  BY DEF Without, Restrict
<1>3. gone \subseteq Ids /\ \A id \in gone : d.rows[id].path \in {Part(id), Ready(id)}
  BY DEF DiskSound, RowSound
<1>4. \A id \in Ids : id \notin gone => Part(id) \notin paths /\ Ready(id) \notin paths
  BY <1>3, PathsApart
<1> HIDE DEF paths, r
<1>5. /\ IsDisk(r) /\ r.rows = d.rows /\ DOMAIN r.files = DOMAIN d.files \ paths
      /\ \A p \in DOMAIN d.files \ paths : r.files[p] = d.files[p]
  BY <1>1, <1>2 DEF IsDisk
<1>6. \A id \in Ids : id \notin gone => SameAt(d, r, id)
  BY <1>4, <1>5 DEF SameAt
<1>7. \A id \in Ids : RowSound(r, id) /\ FileSound(r, id)
  BY <1>5 DEF DiskSound, RowSound, FileSound
<1>8. DiskSound(r)
  BY <1>5, <1>7 DEF DiskSound, IsDisk
<1> QED BY <1>5, <1>6, <1>8 DEF r, paths

LEMMA SweepDiskIs ==
  ASSUME NEW d, DiskSound(d)
  PROVE  LET r == SweepDisk(d)
         IN /\ DiskSound(r)
            /\ DOMAIN r.rows = DOMAIN d.rows \ Expired(d)
            /\ \A id \in Ids : id \notin Expired(d) => SameAt(d, r, id)
            /\ \A id \in Ids : AccountedAt(d, id) => AccountedAt(r, id)
<1> DEFINE gone == Expired(d)
           e == SweepFiles(d, gone)
           r == SweepDisk(d)
<1>1. gone \in SUBSET DOMAIN d.rows
  BY DEF Expired
<1>2. /\ DiskSound(e) /\ IsDisk(e) /\ e.rows = d.rows
      /\ DOMAIN e.files = DOMAIN d.files \ {d.rows[id].path : id \in gone}
      /\ \A id \in Ids : id \notin gone => SameAt(d, e, id)
  BY <1>1, SweepFilesIs
<1>3. r = SweepRows(e, gone)
  BY DEF SweepDisk
<1> HIDE DEF e, r, gone
<1>4. r = [files |-> e.files, rows |-> Without(e.rows, gone)]
  BY <1>2, <1>3 DEF SweepRows, IsDisk
<1>5. /\ DOMAIN Without(e.rows, gone) = DOMAIN e.rows \ gone
      /\ \A id \in DOMAIN e.rows \ gone : Without(e.rows, gone)[id] = e.rows[id]
  BY DEF Without, Restrict
<1>6. /\ IsDisk(r) /\ r.files = e.files /\ DOMAIN r.rows = DOMAIN e.rows \ gone
      /\ \A id \in DOMAIN e.rows \ gone : r.rows[id] = e.rows[id]
  BY <1>4, <1>5 DEF IsDisk
<1>7. \A id \in Ids : id \notin gone => SameAt(d, r, id)
  BY <1>2, <1>6 DEF SameAt
<1>8. \A id \in Ids : RowSound(r, id) /\ FileSound(r, id)
  BY <1>2, <1>6 DEF DiskSound, RowSound, FileSound
<1>9. DiskSound(r)
  BY <1>2, <1>6, <1>8 DEF DiskSound, IsDisk
<1>10. ASSUME NEW id \in Ids, AccountedAt(d, id) PROVE AccountedAt(r, id)
  <2>1. CASE id \in gone
    <3>1. \A path \in {Part(id), Ready(id)} \cap DOMAIN d.files : path \notin DOMAIN r.files
      BY <1>2, <1>6, <1>10, <2>1 DEF AccountedAt
    <3> QED BY <1>2, <1>6, <3>1 DEF AccountedAt
  <2>2. CASE id \notin gone
    BY <1>7, <1>10, <2>2, SameKeeps
  <2> QED BY <2>1, <2>2
<1> QED BY <1>2, <1>6, <1>7, <1>9, <1>10 DEF r, gone

\* What can be read can be read until it expires.
LEMMA SweepKeeps ==
  ASSUME NEW d, DiskSound(d), now \in Nat, NEW id \in Ids, Kept(d, id),
         now < exports[id].expires
  PROVE  Kept(SweepDisk(d), id)
<1>1. RowSound(d, id) /\ id \in DOMAIN d.rows
  BY DEF DiskSound, Kept
<1>2. exports[id].expires = d.rows[id].expires /\ d.rows[id].expires \in Nat
  BY <1>1 DEF RowSound, Rows
<1>3. id \notin Expired(d)
  BY <1>2 DEF Expired
<1> QED BY <1>3, SweepDiskIs, SameKeeps

LEMMA ChunkGood ==
  ASSUME DiskSound(Disk), now \in Nat, NEW m \in Chunks, ChunkSound(m),
         NEW result \in AppendTransferChunk(m)
  PROVE  /\ DiskSound(result.disk)
         /\ result.reply \in {"", "accepted", "refused"}
         /\ result.reply # "" /\ Accounted(Disk) => Accounted(result.disk)
         /\ result.reply = "accepted" =>
              Kept(result.disk, m.id) \/ m.offset + Len(m.bytes) # m.size
         /\ \A id \in Ids : id # m.id /\ Kept(Disk, id) /\ now < exports[id].expires =>
              Kept(result.disk, id)
<1> DEFINE d == SweepDisk(Disk)
<1>1. m.id \in Ids
  BY DEF Chunks
<1>2. CASE TooLate(m)
  <2>1. result.disk = Disk /\ result.reply = "refused"
    BY <1>2 DEF AppendTransferChunk, Result
  <2> QED BY <2>1
<1>3. CASE ~TooLate(m)
  <2>1. /\ DiskSound(d)
        /\ \A id \in Ids : AccountedAt(Disk, id) => AccountedAt(d, id)
    BY SweepDiskIs
  <2>2. \A id \in Ids : Kept(Disk, id) /\ now < exports[id].expires => Kept(d, id)
    BY SweepKeeps
  <2>3. Good(d, result, m)
    <3>1. CASE m.id \notin DOMAIN d.rows
      <4>1. result \in Creating(d, m)
        BY <1>3, <3>1 DEF AppendTransferChunk
      <4> QED BY <2>1, <3>1, <4>1, CreatingGood
    <3>2. CASE m.id \in DOMAIN d.rows /\ ~Stored(d, m.id)
      <4>1. result = Result(d, "refused")
        BY <1>3, <3>2 DEF AppendTransferChunk
      <4> QED BY <2>1, <4>1, GoodUnchanged
    <3>3. CASE m.id \in DOMAIN d.rows /\ Stored(d, m.id)
      <4>1. result \in Appending(d, m)
        BY <1>3, <3>3 DEF AppendTransferChunk
      <4> QED BY <2>1, <3>3, <4>1, AppendingGood
    <3> QED BY <3>1, <3>2, <3>3
  <2> HIDE DEF d
  <2>4. ASSUME NEW id \in Ids, id # m.id
        PROVE  /\ Kept(d, id) => Kept(result.disk, id)
               /\ AccountedAt(d, id) => AccountedAt(result.disk, id)
    BY <2>1, <2>3, <2>4, SameKeeps DEF Good, OthersSame
  <2>5. result.reply # "" /\ Accounted(Disk) => Accounted(result.disk)
    <3> SUFFICES ASSUME result.reply # "", Accounted(Disk) PROVE Accounted(result.disk)
      OBVIOUS
    <3>1. \A id \in Ids : AccountedAt(d, id)
      BY <2>1, AccountedIs DEF DiskSound
    <3>2. \A id \in Ids : AccountedAt(result.disk, id)
      BY <2>3, <2>4, <3>1 DEF Good
    <3> QED BY <2>3, <3>2, AccountedIs DEF Good, DiskSound
  <2> QED BY <2>2, <2>3, <2>4, <2>5 DEF Good
<1> QED BY <1>2, <1>3

-----------------------------------------------------------------------------
(* The worker's steps *)

LEMMA Bounds == ChunkBlocks \in Nat /\ Ttl \in Nat /\ MaxTime \in Nat
  BY TransfersAssumption

LEMMA NextChunkIs ==
  ASSUME TransferTyped, NEW id \in Ids, ExportTyped(id)
  PROVE  /\ NextChunk(id) \in Blocks
         /\ uploads[id].offset + Len(NextChunk(id)) \in Nat
         /\ uploads[id].offset + Len(NextChunk(id)) <= exports[id].size
<1> DEFINE from == uploads[id].offset
           wanted == from + ChunkBlocks
           size == exports[id].size
           last == IF wanted < size THEN wanted ELSE size
           stored == exports[id].stored
           end == IF last < Len(stored) THEN last ELSE Len(stored)
<1>1. from \in Nat /\ size \in Nat /\ from <= size /\ stored \in Blocks
  BY DEF TransferTyped, ExportTyped, Uploads, Exports
<1>2. NextChunk(id) = SubSeq(stored, from + 1, end)
  BY DEF NextChunk
<1> HIDE DEF from, size, stored
<1>3. last \in Nat /\ last <= size /\ Len(stored) \in Nat
  <2>1. Len(stored) \in Nat
    BY <1>1 DEF Blocks
  <2> QED BY <1>1, <2>1, Bounds
<1> HIDE DEF last
<1>4. end \in Nat /\ end <= size /\ end <= Len(stored)
  BY <1>1, <1>3
<1> HIDE DEF end
<1>5. SubSeq(stored, from + 1, end) \in Blocks
  BY <1>1, <1>3, <1>4 DEF Blocks
<1>6. Len(SubSeq(stored, from + 1, end)) = IF from + 1 <= end THEN end - from ELSE 0
  BY <1>1, <1>3, <1>4 DEF Blocks
<1>7. /\ from + Len(SubSeq(stored, from + 1, end)) \in Nat
      /\ from + Len(SubSeq(stored, from + 1, end)) <= size
  BY <1>1, <1>4, <1>6
<1> QED BY <1>2, <1>5, <1>7 DEF from, size

DiskSame == UNCHANGED <<now, files, rows, died>>

\* An export changes only before it is ready.
ExportsKeep(id) ==
  \A i \in Ids : i # id \/ exports[i].state = "ready" => exports'[i] = exports[i]

LEMMA WorkerStep ==
  ASSUME TransferInv, NEW id \in Ids, ExportsKeep(id), DiskSame, TransferTyped',
         \A i \in Ids : i # id => uploads'[i] = uploads[i] /\ served'[i] = served[i],
         UploadInv(id)', OneRequest',
         \A m \in net' : ChunkSound(m)' /\ Awaited(m)'
  PROVE  TransferInv'
<1>1. Disk' = Disk
  BY DEF Disk, DiskSame
<1>2. DiskSound(Disk)'
  <2>1. ASSUME NEW i \in Ids PROVE RowSound(Disk, i)' /\ FileSound(Disk, i)'
    BY <1>1 DEF TransferInv, DiskSound, RowSound, FileSound, ExportsKeep
  <2> QED BY <1>1, <2>1 DEF TransferInv, DiskSound
<1>3. ASSUME NEW i \in Ids PROVE UploadInv(i)'
  <2>1. CASE i # id
    <3>1. /\ exports'[i] = exports[i] /\ uploads'[i] = uploads[i]
          /\ served'[i] = served[i] /\ now' = now
      BY <2>1 DEF ExportsKeep, DiskSame
    <3>2. UploadInv(i)
      BY DEF TransferInv
    <3>3. (ExportTyped(i) /\ NotBefore(i) /\ DoneIsKept(i) /\ served[i] \subseteq {exports[i].stored})'
      BY <1>1, <3>1, <3>2 DEF UploadInv, ExportTyped, NotBefore, DoneIsKept, Kept, Stored
    <3>4. LastAccepted(i)'
      BY <1>1, <3>1, <3>2 DEF UploadInv, LastAccepted, NextChunk, Kept, Stored
    <3> QED BY <3>3, <3>4 DEF UploadInv
  <2>2. CASE i = id
    BY <2>2
  <2> QED BY <2>1, <2>2
<1>4. (died \/ Accounted(Disk))'
  BY <1>1 DEF TransferInv, DiskSame, Accounted, Stored
<1> QED BY <1>2, <1>3, <1>4 DEF TransferInv

\* A step of the upload of one export, with no request of it on its way.
LEMMA UploadStep ==
  ASSUME TransferInv, NEW id \in Ids, DiskSame, UNCHANGED <<exports, served>>,
         exports[id].state = "ready",
         NEW upload \in Uploads, uploads' = [uploads EXCEPT ![id] = upload],
         upload.offset <= exports[id].size,
         net' = net,
         \A m \in net : m.id = id => upload.state = "failed",
         upload.state = "done" /\ now < exports[id].expires => Kept(Disk, id),
         upload.state # "accepted"
  PROVE  TransferInv'
<1>1. uploads'[id] = upload /\ \A i \in Ids : i # id => uploads'[i] = uploads[i]
  BY DEF TransferInv, TransferTyped
<1>2. TransferTyped' /\ OneRequest'
  BY DEF TransferInv, TransferTyped, OneRequest, DiskSame
<1>3. ASSUME NEW m \in net' PROVE ChunkSound(m)' /\ Awaited(m)'
  <2>1. m \in net /\ ChunkSound(m) /\ Awaited(m) /\ m.id \in Ids
    BY <1>3 DEF TransferInv, TransferTyped, Chunks
  <2> QED BY <1>1, <2>1 DEF ChunkSound, Awaited, NextChunk
<1>4. UploadInv(id)
  BY DEF TransferInv
<1>5. Disk' = Disk /\ now' = now
  BY DEF Disk, DiskSame
<1>6. UploadInv(id)'
  BY <1>1, <1>4, <1>5 DEF UploadInv, ExportTyped, NotBefore, LastAccepted, DoneIsKept, Kept, Stored
<1>7. ExportsKeep(id)
  BY DEF ExportsKeep
<1> QED BY <1>1, <1>2, <1>3, <1>6, <1>7, WorkerStep

LEMMA UploadReady ==
  ASSUME TransferInv, NEW id \in Ids, uploads[id].state # "none"
  PROVE  exports[id].state = "ready"
  BY DEF TransferInv, UploadInv, NotBefore, NoUpload

\* A step before the export is ready, or the one that makes it so.
LEMMA ExportStep ==
  ASSUME TransferInv, NEW id \in Ids, DiskSame, UNCHANGED <<net, served>>,
         exports[id].state # "ready",
         NEW export \in Exports, exports' = [exports EXCEPT ![id] = export],
         export.size \in {0} \cup {Len(c) : c \in Contents[id]},
         export.stored \in Contents[id] \cup {<<>>},
         export.expires \in 0..MaxTime,
         NEW upload \in Uploads, uploads' = [uploads EXCEPT ![id] = upload],
         upload.state \in {"none", "send"}, upload.offset = 0,
         export.state # "ready" => upload = NoUpload
  PROVE  TransferInv'
<1>1. /\ exports'[id] = export /\ uploads'[id] = upload
      /\ \A i \in Ids : i # id => exports'[i] = exports[i] /\ uploads'[i] = uploads[i]
  BY DEF TransferInv, TransferTyped
<1>2. TransferTyped' /\ OneRequest'
  BY DEF TransferInv, TransferTyped, OneRequest, DiskSame
<1>3. ASSUME NEW m \in net' PROVE ChunkSound(m)' /\ Awaited(m)'
  <2>1. m \in net /\ ChunkSound(m) /\ Awaited(m) /\ m.id \in Ids
    BY <1>3 DEF TransferInv, TransferTyped, Chunks
  <2>2. exports'[m.id] = exports[m.id] /\ uploads'[m.id] = uploads[m.id]
    BY <1>1, <2>1 DEF ChunkSound
  <2> QED BY <2>1, <2>2 DEF ChunkSound, Awaited, NextChunk
<1>4. served'[id] = {}
  BY DEF TransferInv, UploadInv, NotBefore
<1>5. 0 <= export.size
  BY DEF Exports
<1>6. UploadInv(id)'
  BY <1>1, <1>4, <1>5 DEF UploadInv, ExportTyped, NotBefore, LastAccepted, DoneIsKept
<1>7. ExportsKeep(id)
  BY <1>1 DEF ExportsKeep
<1> QED BY <1>1, <1>2, <1>3, <1>6, <1>7, WorkerStep

LEMMA NotReadyIs ==
  ASSUME TransferInv, NEW id \in Ids, exports[id].state # "ready"
  PROVE  /\ uploads[id] = NoUpload /\ uploads = [uploads EXCEPT ![id] = NoUpload]
         /\ NoUpload \in Uploads /\ NoUpload.state = "none" /\ NoUpload.offset = 0
  BY DEF TransferInv, TransferTyped, UploadInv, NotBefore, NoUpload, Uploads

LEMMA ContentsTyped ==
  ASSUME NEW id \in Ids, NEW c \in Contents[id]
  PROVE  c \in Blocks /\ Len(c) \in Nat
<1>1. c \in Blocks
  BY TransfersAssumption DEF Blocks
<1> QED BY <1>1 DEF Blocks

LEMMA ExportStatKeeps ==
  ASSUME TransferInv, NEW id \in Ids, ExportStat(id)
  PROVE  TransferInv'
<1>1. PICK c \in Contents[id] : exports' = [exports EXCEPT ![id].state = "stat",
                                                       ![id].size = Len(c)]
  BY DEF ExportStat
<1>2. exports[id] \in Exports /\ exports[id].state = "none" /\ ExportTyped(id)
  BY DEF ExportStat, TransferInv, TransferTyped, UploadInv
<1> DEFINE export == [exports[id] EXCEPT !.state = "stat", !.size = Len(c)]
<1>3. exports' = [exports EXCEPT ![id] = export]
  BY <1>1 DEF TransferInv, TransferTyped
<1>4. /\ export \in Exports /\ export.state = "stat" /\ export.size = Len(c)
      /\ export.stored = exports[id].stored /\ export.expires = exports[id].expires
  BY <1>2, ContentsTyped DEF Exports
<1> HIDE DEF export
<1>5. UNCHANGED <<net, served, uploads>> /\ DiskSame
  BY DEF ExportStat, DiskSame, relayVars
<1>6. /\ export.size \in {0} \cup {Len(x) : x \in Contents[id]}
      /\ export.stored \in Contents[id] \cup {<<>>}
      /\ export.expires \in 0..MaxTime
  BY <1>2, <1>4 DEF ExportTyped
<1>7. exports[id].state # "ready" /\ export.state # "ready"
  BY <1>2, <1>4
<1>8. /\ uploads' = [uploads EXCEPT ![id] = NoUpload] /\ NoUpload \in Uploads
      /\ NoUpload.state = "none" /\ NoUpload.offset = 0
  BY <1>5, <1>7, NotReadyIs
<1> QED BY <1>3, <1>4, <1>5, <1>6, <1>7, <1>8, ExportStep

LEMMA ExportCopyKeeps ==
  ASSUME TransferInv, NEW id \in Ids, ExportCopy(id)
  PROVE  TransferInv'
<1>1. PICK c \in Contents[id] :
        exports' = [exports EXCEPT ![id] = [@ EXCEPT !.state = "ready",
                                                    !.stored = c,
                                                    !.expires = now + Ttl]]
  BY DEF ExportCopy
<1>2. exports[id] \in Exports /\ exports[id].state = "stat" /\ ExportTyped(id)
  BY DEF ExportCopy, TransferInv, TransferTyped, UploadInv
<1>3. now + Ttl \in 0..MaxTime /\ now + Ttl \in Nat
  BY Bounds DEF ExportCopy, TransferInv, TransferTyped
<1> DEFINE export == [exports[id] EXCEPT !.state = "ready", !.stored = c, !.expires = now + Ttl]
           upload == [uploads[id] EXCEPT !.state = "send"]
<1>4. exports' = [exports EXCEPT ![id] = export] /\ uploads' = [uploads EXCEPT ![id] = upload]
  BY <1>1 DEF ExportCopy, TransferInv, TransferTyped
<1>5. /\ export \in Exports /\ export.state = "ready" /\ export.size = exports[id].size
      /\ export.stored = c /\ export.expires = now + Ttl
  BY <1>2, <1>3, ContentsTyped DEF Exports
<1>6. upload \in Uploads /\ upload.state = "send" /\ upload.offset = 0
  BY <1>2, NotReadyIs DEF Uploads
<1> HIDE DEF export, upload
<1>7. UNCHANGED <<net, served>> /\ DiskSame
  BY DEF ExportCopy, DiskSame, relayVars
<1> QED BY <1>2, <1>3, <1>4, <1>5, <1>6, <1>7, ExportStep DEF ExportTyped

LEMMA ExportFailsKeeps ==
  ASSUME TransferInv, NEW id \in Ids, ExportFails(id)
  PROVE  TransferInv'
<1>1. /\ NoExport \in Exports /\ NoExport.state = "none" /\ NoExport.size = 0
      /\ NoExport.stored = <<>> /\ NoExport.expires = 0
  BY DEF NoExport, Exports, Blocks
<1>2. 0 \in 0..MaxTime
  BY Bounds
<1>3. UNCHANGED <<net, served, uploads>> /\ DiskSame
  BY DEF ExportFails, DiskSame, relayVars
<1> QED BY <1>1, <1>2, <1>3, NotReadyIs, ExportStep DEF ExportFails

LEMMA SendChunkKeeps ==
  ASSUME TransferInv, NEW id \in Ids, SendChunk(id)
  PROVE  TransferInv'
<1>1. exports[id].state = "ready" /\ uploads[id].state = "send"
  BY UploadReady DEF SendChunk
<1>2. TransferTyped /\ UploadInv(id) /\ ExportTyped(id)
  BY DEF TransferInv, UploadInv
<1>3. /\ NextChunk(id) \in Blocks
      /\ uploads[id].offset + Len(NextChunk(id)) <= exports[id].size
  BY <1>2, NextChunkIs
<1>4. PICK chunk \in Chunks :
        chunk = [id |-> id, offset |-> uploads[id].offset, bytes |-> NextChunk(id),
                 size |-> exports[id].size, sha256 |-> exports[id].stored,
                 expires |-> exports[id].expires]
  BY <1>2, <1>3 DEF Chunks, TransferTyped, Exports, Uploads
<1>5. /\ uploads'[id].state = "wait" /\ uploads'[id].offset = uploads[id].offset
      /\ \A i \in Ids : i # id => uploads'[i] = uploads[i]
      /\ uploads' \in [Ids -> Uploads]
  BY <1>2 DEF SendChunk, TransferTyped, Uploads
<1>6. net' = net \cup {chunk} /\ UNCHANGED <<exports, served>> /\ DiskSame
  BY <1>4 DEF SendChunk, DiskSame, relayVars
<1>7. \A m \in net : m.id # id
  BY <1>1 DEF TransferInv, Awaited
<1>8. ChunkSound(chunk)' /\ Awaited(chunk)'
  BY <1>1, <1>3, <1>4, <1>5, <1>6 DEF ChunkSound, Awaited, NextChunk
<1>9. ASSUME NEW m \in net' PROVE ChunkSound(m)' /\ Awaited(m)'
  <2>1. CASE m = chunk
    BY <1>8, <2>1
  <2>2. CASE m # chunk
    <3>1. m \in net /\ ChunkSound(m) /\ Awaited(m) /\ m.id \in Ids /\ m.id # id
      BY <1>6, <1>7, <2>2 DEF TransferInv, TransferTyped, Chunks
    <3> QED BY <1>5, <1>6, <3>1 DEF ChunkSound, Awaited, NextChunk
  <2> QED BY <2>1, <2>2
<1>10. TransferTyped' /\ OneRequest'
  BY <1>2, <1>4, <1>5, <1>6, <1>7 DEF TransferInv, TransferTyped, OneRequest, DiskSame
<1>11. UploadInv(id)'
  BY <1>1, <1>2, <1>5, <1>6 DEF UploadInv, ExportTyped, NotBefore, LastAccepted, DoneIsKept
<1>12. ExportsKeep(id)
  BY <1>6 DEF ExportsKeep
<1> QED BY <1>5, <1>6, <1>9, <1>10, <1>11, <1>12, WorkerStep

LEMMA ChunkAcceptedKeeps ==
  ASSUME TransferInv, NEW id \in Ids, ChunkAccepted(id)
  PROVE  TransferInv'
<1> DEFINE count == Len(NextChunk(id))
           upload == AfterChunk(id, count)
<1>1. exports[id].state = "ready" /\ uploads[id].state = "accepted"
  BY UploadReady DEF ChunkAccepted
<1>2. TransferTyped /\ UploadInv(id) /\ ExportTyped(id)
  BY DEF TransferInv, UploadInv
<1>3. uploads[id].offset + count \in Nat /\ uploads[id].offset + count <= exports[id].size
  BY <1>2, NextChunkIs
<1>4. /\ upload.offset = uploads[id].offset + count
      /\ upload.state = IF uploads[id].offset + count < exports[id].size THEN "send" ELSE "done"
  BY DEF AfterChunk
<1>5. upload \in Uploads
  BY <1>3 DEF AfterChunk, Uploads, Ended
<1>6. exports[id].size \in Nat
  BY <1>2 DEF TransferTyped, Exports
<1>7. ASSUME upload.state = "done", now < exports[id].expires PROVE Kept(Disk, id)
  <2>1. uploads[id].offset + count = exports[id].size
    BY <1>3, <1>4, <1>6, <1>7
  <2> QED BY <1>1, <1>2, <1>7, <2>1 DEF UploadInv, LastAccepted
<1>8. \A m \in net : m.id # id
  BY <1>1 DEF TransferInv, Awaited
<1>9. /\ UNCHANGED <<net, exports, served>> /\ DiskSame
      /\ uploads' = [uploads EXCEPT ![id] = upload]
  BY DEF ChunkAccepted, DiskSame, relayVars
<1>10. upload.offset <= exports[id].size /\ upload.state # "accepted"
  BY <1>3, <1>4
<1> HIDE DEF upload
<1> QED BY <1>1, <1>5, <1>7, <1>8, <1>9, <1>10, UploadStep

LEMMA UploadEndsKeeps ==
  ASSUME TransferInv, NEW id \in Ids, ChunkRefused(id) \/ GiveUp(id)
  PROVE  TransferInv'
<1> DEFINE upload == [uploads[id] EXCEPT !.state = "failed"]
<1>1. exports[id].state = "ready"
  BY UploadReady DEF ChunkRefused, GiveUp
<1>2. TransferTyped /\ ExportTyped(id)
  BY DEF TransferInv, UploadInv
<1>3. upload \in Uploads /\ upload.state = "failed" /\ upload.offset = uploads[id].offset
  BY <1>2 DEF TransferTyped, Uploads, Ended
<1>4. uploads' = [uploads EXCEPT ![id] = upload]
  BY <1>2 DEF TransferTyped, ChunkRefused, GiveUp
<1>5. UNCHANGED <<net, exports, served>> /\ DiskSame
  BY DEF ChunkRefused, GiveUp, DiskSame, relayVars
<1>6. upload.offset <= exports[id].size
  BY <1>2, <1>3 DEF ExportTyped
<1> HIDE DEF upload
<1> QED BY <1>1, <1>3, <1>4, <1>5, <1>6, UploadStep

-----------------------------------------------------------------------------
(* The relay's steps *)

LEMMA RelayStep ==
  ASSUME TransferInv, UNCHANGED <<now, exports, served>>,
         NEW r, DiskSound(r), files' = r.files, rows' = r.rows,
         died' \in BOOLEAN, died' \/ Accounted(r),
         uploads' \in [Ids -> Uploads], net' \subseteq net,
         \A m \in net' : Awaited(m)',
         \A id \in Ids : uploads'[id].offset = uploads[id].offset,
         \A id \in Ids : exports[id].state # "ready" => uploads'[id] = uploads[id],
         \A id \in Ids : uploads'[id].state = "done" /\ now < exports[id].expires => Kept(r, id),
         \A id \in Ids :
           uploads'[id].state = "accepted" /\ now < exports[id].expires =>
             Kept(r, id) \/ uploads[id].offset + Len(NextChunk(id)) # exports[id].size
  PROVE  TransferInv'
<1>1. Disk' = r
  BY DEF DiskSound, Disk
<1>2. TransferTyped' /\ OneRequest'
  BY DEF TransferInv, TransferTyped, OneRequest
<1>3. DiskSound(Disk)'
  <2>1. ASSUME NEW i \in Ids PROVE RowSound(Disk, i)' /\ FileSound(Disk, i)'
    BY <1>1 DEF DiskSound, RowSound, FileSound
  <2> QED BY <1>1, <2>1 DEF DiskSound
<1>4. \A m \in net' : ChunkSound(m)'
  BY DEF TransferInv, ChunkSound
<1>5. ASSUME NEW id \in Ids PROVE UploadInv(id)'
  <2>1. UploadInv(id)
    BY DEF TransferInv
  <2>2. (ExportTyped(id) /\ NotBefore(id) /\ served[id] \subseteq {exports[id].stored})'
    BY <2>1 DEF UploadInv, ExportTyped, NotBefore
  <2>3. DoneIsKept(id)'
    BY <1>1 DEF DoneIsKept, Kept, Stored
  <2>4. NextChunk(id)' = NextChunk(id)
    BY DEF NextChunk
  <2>5. LastAccepted(id)'
    BY <1>1, <2>4 DEF LastAccepted, Kept, Stored
  <2> QED BY <2>2, <2>3, <2>5 DEF UploadInv
<1>6. (died \/ Accounted(Disk))'
  BY <1>1 DEF Accounted, Stored
<1> QED BY <1>2, <1>3, <1>4, <1>5, <1>6 DEF TransferInv

\* The relay sweeps, or dies while it does.
LEMMA SweepStep ==
  ASSUME TransferInv, UNCHANGED <<now, exports, served, uploads, net>>,
         NEW r, DiskSound(r), files' = r.files, rows' = r.rows,
         died' \in BOOLEAN, died' \/ Accounted(r),
         \A id \in Ids : Kept(Disk, id) /\ now < exports[id].expires => Kept(r, id)
  PROVE  TransferInv'
<1>1. uploads' \in [Ids -> Uploads]
  BY DEF TransferInv, TransferTyped
<1>2. ASSUME NEW m \in net' PROVE Awaited(m)'
  <2>1. Awaited(m)
    BY DEF TransferInv
  <2> QED BY <2>1 DEF Awaited, NextChunk
<1>3. \A id \in Ids : LastAccepted(id) /\ DoneIsKept(id)
  BY DEF TransferInv, UploadInv
<1> QED BY <1>1, <1>2, <1>3, RelayStep DEF LastAccepted, DoneIsKept

LEMMA SweepKeepsInv ==
  ASSUME TransferInv, Sweep
  PROVE  TransferInv'
<1> DEFINE r == SweepDisk(Disk)
<1>1. DiskSound(Disk) /\ now \in Nat /\ died \in BOOLEAN
  BY DEF TransferInv, TransferTyped
<1>2. DiskSound(r) /\ \A id \in Ids : AccountedAt(Disk, id) => AccountedAt(r, id)
  BY <1>1, SweepDiskIs
<1>3. \A id \in Ids : Kept(Disk, id) /\ now < exports[id].expires => Kept(r, id)
  BY <1>1, SweepKeeps
<1>4. files' = r.files /\ rows' = r.rows /\ UNCHANGED <<now, exports, served, uploads, net, died>>
  BY DEF Sweep
<1> HIDE DEF r
<1>5. died \/ Accounted(r)
  BY <1>1, <1>2, AccountedIs DEF TransferInv, DiskSound
<1> QED BY <1>1, <1>2, <1>3, <1>4, <1>5, SweepStep

LEMMA SweepDiesKeeps ==
  ASSUME TransferInv, SweepDies
  PROVE  TransferInv'
<1>1. PICK gone \in SUBSET Expired(Disk) : files' = SweepFiles(Disk, gone).files
  BY DEF SweepDies
<1> DEFINE r == SweepFiles(Disk, gone)
<1>2. DiskSound(Disk) /\ now \in Nat /\ Disk.rows = rows
  BY DEF TransferInv, TransferTyped, Disk
<1>3. gone \in SUBSET DOMAIN Disk.rows
  BY DEF Expired
<1>4. DiskSound(r) /\ r.rows = rows /\ \A id \in Ids : id \notin gone => SameAt(Disk, r, id)
  BY <1>2, <1>3, SweepFilesIs
<1>5. files' = r.files /\ rows' = r.rows /\ died' /\ UNCHANGED <<now, exports, served, uploads, net>>
  BY <1>1, <1>4 DEF SweepDies
<1> HIDE DEF r
<1>6. ASSUME NEW id \in Ids, Kept(Disk, id), now < exports[id].expires
      PROVE  Kept(r, id)
  <2>1. RowSound(Disk, id) /\ id \in DOMAIN Disk.rows
    BY <1>2, <1>6 DEF DiskSound, Kept
  <2>2. exports[id].expires = Disk.rows[id].expires /\ Disk.rows[id].expires \in Nat
    BY <2>1 DEF RowSound, Rows
  <2>3. id \notin gone
    BY <1>2, <1>6, <2>2 DEF Expired
  <2> QED BY <1>2, <1>4, <1>6, <2>3, SameKeeps
<1>7. died' \in BOOLEAN
  BY DEF SweepDies
<1> QED BY <1>4, <1>5, <1>6, <1>7, SweepStep

LEMMA ChunkKeeps ==
  ASSUME TransferInv, NEW m \in net, Chunk(m)
  PROVE  TransferInv'
<1>1. PICK result \in AppendTransferChunk(m) :
        /\ files' = result.disk.files
        /\ rows' = result.disk.rows
        /\ died' = (died \/ result.reply = "")
        /\ uploads' = IF uploads[m.id].state = "wait" /\ result.reply # ""
                      THEN [uploads EXCEPT ![m.id].state = result.reply]
                      ELSE uploads
  BY DEF Chunk
<1>2. /\ DiskSound(Disk) /\ now \in Nat /\ died \in BOOLEAN
      /\ m \in Chunks /\ m.id \in Ids /\ ChunkSound(m) /\ Awaited(m)
      /\ uploads \in [Ids -> Uploads]
  BY DEF TransferInv, TransferTyped, Chunks
<1>3. /\ DiskSound(result.disk)
      /\ result.reply \in {"", "accepted", "refused"}
      /\ result.reply # "" /\ Accounted(Disk) => Accounted(result.disk)
      /\ result.reply = "accepted" =>
           Kept(result.disk, m.id) \/ m.offset + Len(m.bytes) # m.size
      /\ \A id \in Ids : id # m.id /\ Kept(Disk, id) /\ now < exports[id].expires =>
           Kept(result.disk, id)
  BY <1>2, ChunkGood
<1>4. net' = net \ {m} /\ UNCHANGED <<now, exports, served>>
  BY DEF Chunk
<1>5. died' \in BOOLEAN /\ (died' \/ Accounted(result.disk))
  BY <1>1, <1>2, <1>3 DEF TransferInv
<1>6. /\ uploads' \in [Ids -> Uploads]
      /\ \A id \in Ids : uploads'[id].offset = uploads[id].offset
      /\ \A id \in Ids : id # m.id => uploads'[id] = uploads[id]
  BY <1>1, <1>2, <1>3 DEF Uploads
<1>7. \/ uploads'[m.id] = uploads[m.id] /\ uploads[m.id].state \in {"wait", "failed"}
      \/ uploads[m.id].state = "wait" /\ uploads'[m.id].state = result.reply
  <2>1. CASE uploads[m.id].state = "wait" /\ result.reply # ""
    <3>1. uploads' = [uploads EXCEPT ![m.id].state = result.reply]
      BY <1>1, <2>1
    <3>2. uploads'[m.id] = [uploads[m.id] EXCEPT !.state = result.reply]
      BY <1>2, <3>1
    <3>3. uploads[m.id] \in Uploads
      BY <1>2
    <3>4. uploads'[m.id].state = result.reply
      BY <3>2, <3>3 DEF Uploads
    <3> QED BY <2>1, <3>4
  <2>2. CASE ~(uploads[m.id].state = "wait" /\ result.reply # "")
    <3>1. uploads' = uploads
      BY <1>1, <2>2
    <3> QED BY <1>2, <3>1 DEF Awaited
  <2> QED BY <2>1, <2>2
<1>8. ASSUME NEW n \in net' PROVE Awaited(n)'
  <2>1. n \in net /\ n # m /\ Awaited(n) /\ n.id \in Ids
    BY <1>4 DEF TransferInv, TransferTyped, Chunks
  <2>2. n.id # m.id
    BY <2>1 DEF TransferInv, OneRequest
  <2> QED BY <1>4, <1>6, <2>1, <2>2 DEF Awaited, NextChunk
<1>9. \A id \in Ids : exports[id].state # "ready" => uploads'[id] = uploads[id]
  BY <1>2, <1>6 DEF ChunkSound
<1>10. ASSUME NEW id \in Ids PROVE LastAccepted(id) /\ DoneIsKept(id)
  BY DEF TransferInv, UploadInv
<1>11. ASSUME NEW id \in Ids, uploads'[id].state = "done", now < exports[id].expires
       PROVE  Kept(result.disk, id)
  BY <1>3, <1>6, <1>7, <1>10, <1>11 DEF DoneIsKept
<1>12. ASSUME NEW id \in Ids, uploads'[id].state = "accepted", now < exports[id].expires
       PROVE  \/ Kept(result.disk, id)
              \/ uploads[id].offset + Len(NextChunk(id)) # exports[id].size
  <2>1. CASE id # m.id
    BY <1>3, <1>6, <1>10, <1>12, <2>1 DEF LastAccepted
  <2>2. CASE id = m.id
    <3>1. uploads[m.id].state = "wait" /\ result.reply = "accepted"
      BY <1>7, <1>12, <2>2
    <3>2. m.offset = uploads[m.id].offset /\ m.bytes = NextChunk(m.id) /\ m.size = exports[m.id].size
      BY <1>2, <3>1 DEF Awaited, ChunkSound
    <3> QED BY <1>3, <2>2, <3>1, <3>2
  <2> QED BY <2>1, <2>2
<1> QED BY <1>1, <1>3, <1>4, <1>5, <1>6, <1>8, <1>9, <1>11, <1>12, RelayStep

LEMMA ReadKeeps ==
  ASSUME TransferInv, NEW id \in Ids, ReadTransfer(id)
  PROVE  TransferInv'
<1>1. Disk.rows = rows /\ Disk.files = files
  BY DEF Disk
<1>2. RowSound(Disk, id) /\ FileSound(Disk, id)
  BY DEF TransferInv, DiskSound
<1>3. /\ exports[id].state = "ready" /\ rows[id].path = Ready(id)
      /\ files[rows[id].path] = exports[id].stored
  BY <1>1, <1>2 DEF ReadTransfer, RowSound, FileSound, Stored
<1>4. /\ served'[id] = served[id] \cup {exports[id].stored}
      /\ \A i \in Ids : i # id => served'[i] = served[i]
      /\ served' \in [Ids -> SUBSET Blocks]
  BY <1>3 DEF ReadTransfer, TransferInv, TransferTyped, Exports
<1>5. DiskSame /\ UNCHANGED <<exports, uploads, net>>
  BY DEF ReadTransfer, DiskSame, relayVars
<1>6. TransferTyped' /\ OneRequest'
  BY <1>4, <1>5 DEF TransferInv, TransferTyped, OneRequest, DiskSame
<1>7. ASSUME NEW m \in net' PROVE ChunkSound(m)' /\ Awaited(m)'
  BY <1>5 DEF TransferInv, ChunkSound, Awaited, NextChunk
<1>8. Disk' = Disk /\ now' = now
  BY <1>5 DEF Disk, DiskSame
<1>9. UploadInv(id)
  BY DEF TransferInv
<1>10. UploadInv(id)'
  BY <1>3, <1>4, <1>5, <1>8, <1>9 DEF UploadInv, ExportTyped, NotBefore, LastAccepted, DoneIsKept,
     NextChunk, Kept, Stored
<1>11. ExportsKeep(id)
  BY <1>5 DEF ExportsKeep
<1> QED BY <1>4, <1>5, <1>6, <1>7, <1>10, <1>11, WorkerStep

\* A request is lost, the clock ticks, or nothing happens.
LEMMA QuietKeeps ==
  ASSUME TransferInv, net' \subseteq net, now' \in {now, now + 1} /\ now' \in 0..MaxTime,
         UNCHANGED <<exports, uploads, relayVars, served>>
  PROVE  TransferInv'
<1>1. Disk' = Disk /\ died' = died
  BY DEF Disk, relayVars
<1>2. TransferTyped' /\ OneRequest'
  BY <1>1 DEF TransferInv, TransferTyped, OneRequest
<1>3. DiskSound(Disk)'
  <2>1. ASSUME NEW i \in Ids PROVE RowSound(Disk, i)' /\ FileSound(Disk, i)'
    BY <1>1 DEF TransferInv, DiskSound, RowSound, FileSound
  <2> QED BY <1>1, <2>1 DEF TransferInv, DiskSound
<1>4. ASSUME NEW m \in net' PROVE ChunkSound(m)' /\ Awaited(m)'
  BY DEF TransferInv, ChunkSound, Awaited, NextChunk
<1>5. ASSUME NEW id \in Ids PROVE UploadInv(id)'
  <2>1. UploadInv(id) /\ now \in Nat /\ exports[id].expires \in Nat
    BY DEF TransferInv, TransferTyped, Exports
  <2>2. now' < exports[id].expires => now < exports[id].expires
    BY <2>1
  <2>3. (ExportTyped(id) /\ NotBefore(id) /\ served[id] \subseteq {exports[id].stored})'
    BY <2>1 DEF UploadInv, ExportTyped, NotBefore
  <2>4. DoneIsKept(id)'
    BY <1>1, <2>1, <2>2 DEF UploadInv, DoneIsKept, Kept, Stored
  <2>5. LastAccepted(id)'
    BY <1>1, <2>1, <2>2 DEF UploadInv, LastAccepted, NextChunk, Kept, Stored
  <2> QED BY <2>3, <2>4, <2>5 DEF UploadInv
<1>6. (died \/ Accounted(Disk))'
  BY <1>1 DEF TransferInv, Accounted, Stored
<1> QED BY <1>2, <1>3, <1>4, <1>5, <1>6 DEF TransferInv

LEMMA TransferInvNext == TransferInv /\ [Next]_vars => TransferInv'
<1> SUFFICES ASSUME TransferInv, [Next]_vars PROVE TransferInv'
  OBVIOUS
<1>1. ASSUME NEW id \in Ids, ExportStat(id) \/ ExportCopy(id) \/ ExportFails(id)
      PROVE  TransferInv'
  BY <1>1, ExportStatKeeps, ExportCopyKeeps, ExportFailsKeeps
<1>2. ASSUME NEW id \in Ids, Upload(id) \/ GiveUp(id)
      PROVE  TransferInv'
  BY <1>2, SendChunkKeeps, ChunkAcceptedKeeps, UploadEndsKeeps DEF Upload
<1>3. ASSUME NEW id \in Ids, ReadTransfer(id)
      PROVE  TransferInv'
  BY <1>3, ReadKeeps
<1>4. ASSUME NEW m \in net, Chunk(m)
      PROVE  TransferInv'
  BY <1>4, ChunkKeeps
<1>5. CASE Sweep \/ SweepDies
  BY <1>5, SweepKeepsInv, SweepDiesKeeps
<1>6. CASE Tick \/ UNCHANGED vars \/ \E m \in net : Lose(m)
  <2>1. now \in 0..MaxTime /\ MaxTime \in Nat
    BY Bounds DEF TransferInv, TransferTyped
  <2> QED BY <1>6, <2>1, QuietKeeps DEF Tick, vars, Lose, relayVars
<1> QED BY <1>1, <1>2, <1>3, <1>4, <1>5, <1>6 DEF Next

LEMMA TransferInvInit == Init => TransferInv
<1> SUFFICES ASSUME Init PROVE TransferInv
  OBVIOUS
<1>1. DOMAIN files = {} /\ DOMAIN rows = {}
  BY DEF Init
<1>2. DiskSound(Disk) /\ Accounted(Disk)
  BY <1>1, PathsApart DEF DiskSound, Accounted, Disk, RowSound, FileSound
<1>3. NoExport \in Exports /\ NoUpload \in Uploads
  BY DEF NoExport, Exports, NoUpload, Uploads, Blocks
<1>4. TransferTyped
  <2>1. now \in 0..MaxTime
    BY Bounds DEF Init
  <2>2. exports \in [Ids -> Exports] /\ uploads \in [Ids -> Uploads]
    BY <1>3 DEF Init
  <2>3. served \in [Ids -> SUBSET Blocks]
    BY DEF Init
  <2> QED BY <2>1, <2>2, <2>3 DEF Init, TransferTyped
<1>5. ASSUME NEW id \in Ids PROVE UploadInv(id)
  <2>1. exports[id] = NoExport /\ uploads[id] = NoUpload /\ served[id] = {}
    BY DEF Init
  <2>2. ExportTyped(id)
    BY <2>1, Bounds DEF ExportTyped, NoExport, NoUpload
  <2> QED BY <2>1, <2>2 DEF UploadInv, NotBefore, LastAccepted, DoneIsKept, NoUpload
<1> QED BY <1>2, <1>4, <1>5 DEF Init, TransferInv, OneRequest

-----------------------------------------------------------------------------
(* The theorems *)

\* The worker's exports, the requests on their way and what is on the relay's
\* disk agree at all times, whoever dies between which writes.
THEOREM TransferInvariant == Spec => []TransferInv
  BY TransferInvInit, TransferInvNext, PTL DEF Spec

\* The clock, the exports, the uploads and the rows keep their types
\* (TransferTypeOK).
THEOREM TransferTypeCorrect == Spec => []TransferTypeOK
<1>1. TransferInv => TransferTypeOK
  <2> SUFFICES ASSUME TransferInv PROVE TransferTypeOK
    OBVIOUS
  <2>1. Disk.rows = rows /\ Disk.files = files
    BY DEF Disk
  <2>2. ASSUME NEW id \in DOMAIN rows
        PROVE  /\ id \in Ids /\ rows[id].state \in {"uploading", "ready"}
               /\ rows[id].received \in 0..rows[id].size
               /\ rows[id].path \in {Part(id), Ready(id)}
    <3>1. RowSound(Disk, id)
      BY <2>1 DEF TransferInv, DiskSound
    <3> QED BY <2>1, <3>1 DEF RowSound, Rows
  <2>3. ASSUME NEW id \in Ids
        PROVE  /\ exports[id].state \in {"none", "stat", "ready"}
               /\ exports[id].size \in {0} \cup {Len(c) : c \in Contents[id]}
               /\ exports[id].stored \in Contents[id] \cup {<<>>}
               /\ exports[id].expires \in 0..MaxTime
               /\ uploads[id].state \in {"none", "send", "wait", "accepted", "refused"} \cup Ended
               /\ uploads[id].offset \in 0..exports[id].size
    <3>1. exports[id] \in Exports /\ uploads[id] \in Uploads /\ ExportTyped(id)
      BY DEF TransferInv, TransferTyped, UploadInv
    <3> QED BY <3>1 DEF Exports, Uploads, ExportTyped
  <2>4. \A m \in net : m.id \in Ids /\ m.offset + Len(m.bytes) <= m.size
    BY DEF TransferInv, TransferTyped, Chunks, ChunkSound
  <2>5. DOMAIN files \subseteq FileNames
    BY <2>1 DEF TransferInv, DiskSound
  <2>6. now \in 0..MaxTime
    BY DEF TransferInv, TransferTyped
  <2> QED BY <2>2, <2>3, <2>4, <2>5, <2>6 DEF TransferTypeOK
<1> QED BY <1>1, TransferInvariant, PTL

\* What readTransfer returns for a transfer is the export itself
\* (ServedIsTheExport), however its chunks and the relay's deaths went.
THEOREM OnlyTheExportIsServed == Spec => []ServedIsTheExport
<1>1. TransferInv => ServedIsTheExport
  BY DEF TransferInv, UploadInv, ServedIsTheExport
<1> QED BY <1>1, TransferInvariant, PTL

\* An upload that finished can be read until it expires, and a relay that did
\* not die while it wrote has no file without a row (RowsMatchFiles).
THEOREM FinishedUploadsAreKept == Spec => []RowsMatchFiles
<1>1. TransferInv => RowsMatchFiles
  <2> SUFFICES ASSUME TransferInv PROVE RowsMatchFiles
    OBVIOUS
  <2>1. Disk.rows = rows /\ Disk.files = files
    BY DEF Disk
  <2>2. \A id \in Ids : DoneIsKept(id)
    BY DEF TransferInv, UploadInv
  <2>3. died \/ Accounted(Disk)
    BY DEF TransferInv
  <2> QED BY <2>1, <2>2, <2>3 DEF RowsMatchFiles, DoneIsKept, Kept, Accounted
<1> QED BY <1>1, TransferInvariant, PTL
=============================================================================
