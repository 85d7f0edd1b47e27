----------------------------- MODULE FileTools -----------------------------
(***************************************************************************)
(* The tools that change files (file-tools.ts).  A handler of the worker   *)
(* gives up the event loop only where it awaits a hash or a download; its  *)
(* synchronous calls are not interrupted by other handlers, but other      *)
(* programs use the same files at any time and the worker may die between  *)
(* any two calls.                                                          *)
(*                                                                         *)
(* A file is the sequence of the texts that went into it: fs_write starts  *)
(* a new one, fs_replace and the user's editor add to what is there.       *)
(***************************************************************************)
EXTENDS Naturals, Sequences, FiniteSets, Functions

CONSTANTS
  Calls,      \* tool calls: the handlers of aborted calls run on beside the next
  Call,       \* what each call asks for
  Paths,      \* the files they are about: pairs, as Tmp and Trash below
  Texts,      \* what files are made of
  Before,     \* the files at the start
  MaxCalls,   \* bound: calls that are made, any of Calls
  MaxEdits    \* bound: changes made by other programs

Tools == {"fs_write", "fs_replace", "fs_copy", "fs_move", "fs_delete", "file_import"}
NoText == <<>>      \* no expected_sha256

ASSUME FileToolsAssumption ==
  /\ Call \in [Calls -> [tool : Tools, path : Paths, destination : Paths,
                         text : Texts, expected : Seq(Texts),
                         overwrite : BOOLEAN, permanent : BOOLEAN]]
  /\ DOMAIN Before \subseteq Paths
  /\ \A p \in DOMAIN Before : Before[p] \in Seq(Texts)
  /\ {"user", "other"} \subseteq Texts /\ "torn" \notin Texts
  /\ \A c \in Calls : <<"tmp", c>> \notin Paths /\ <<"trash", c>> \notin Paths
  /\ MaxEdits \in Nat

VARIABLES
  files,     \* content by path, also of temporary files and of the trash
  recorded,  \* the calls whose trash has its .json
  at,        \* where each handler is
  seen,      \* the content each handler hashed or read
  overtaken, \* history: calls whose file another program changed after they read it
  edits,     \* changes made by other programs
  died       \* history: the worker died

vars == <<files, recorded, at, seen, overtaken, edits, died>>

Tmp(c) == <<"tmp", c>>
Trash(c) == <<"trash", c>>
Torn == <<"torn">>
Contents == Seq(Texts \cup {"torn"})

\* Where a handler awaits, and where it is between two synchronous calls.
Awaiting == {"hash", "check", "rehash", "download", "verify"}
Inside == {"write", "fill", "rename", "clear", "open", "copy", "remove", "move",
           "erase", "trash", "record"}
Over == {"done", "failed", "lost"}

Init ==
  /\ files = Before
  /\ recorded = {}
  /\ at = [c \in Calls |-> "none"]
  /\ seen = [c \in Calls |-> NoText]
  /\ overtaken = {}
  /\ edits = 0
  /\ died = FALSE

FilesTypeOK ==
  /\ DOMAIN files \subseteq Paths \cup {Tmp(c) : c \in Calls} \cup {Trash(c) : c \in Calls}
  /\ \A p \in DOMAIN files : files[p] \in Contents
  /\ recorded \subseteq Calls /\ overtaken \subseteq Calls
  /\ at \in [Calls -> {"none"} \cup Awaiting \cup Inside \cup Over]
  /\ seen \in [Calls -> Contents]
  /\ edits \in 0..MaxEdits
  /\ died \in BOOLEAN

Without(p) == Restrict(files, DOMAIN files \ {p})
With(p, content) == [q \in DOMAIN files \cup {p} |-> IF q = p THEN content ELSE files[q]]

\* Handlers take turns.
Turn(c) == \A d \in Calls : at[d] \in Inside => d = c
Goto(c, place) == at' = [at EXCEPT ![c] = place]

SameHistory == UNCHANGED <<overtaken, edits, died>>
Fails(c) == Goto(c, "failed") /\ UNCHANGED <<files, recorded, seen>> /\ SameHistory

-----------------------------------------------------------------------------
(* The start of a handler, up to its first await or its first write *)

First(c) ==
  IF Call[c].tool = "fs_write" /\ Call[c].expected # NoText THEN "hash"
  ELSE [fs_write |-> "write", fs_replace |-> "hash", fs_copy |-> "clear",
        fs_move |-> "remove", fs_delete |-> IF Call[c].permanent THEN "erase" ELSE "trash",
        file_import |-> "download"][Call[c].tool]

\* A file that must be there is not.
Missing(c) ==
  /\ Call[c].path \notin DOMAIN files
  /\ Call[c].tool # "file_import"
  /\ Call[c].tool = "fs_write" => Call[c].expected # NoText

Start(c) ==
  /\ Turn(c) /\ at[c] = "none"
  /\ Cardinality({d \in Calls : at[d] # "none"}) < MaxCalls
  /\ Goto(c, IF Missing(c) THEN "failed" ELSE First(c))
  /\ UNCHANGED <<files, recorded, seen>> /\ SameHistory

-----------------------------------------------------------------------------
(* fs_write and fs_replace *)

\* hashFile reads the file, and resolves in a later turn.
HashFile(c) ==
  /\ Turn(c) /\ at[c] = "hash"
  /\ IF Call[c].path \in DOMAIN files
     THEN /\ seen' = [seen EXCEPT ![c] = files[Call[c].path]]
          /\ Goto(c, "check")
          /\ UNCHANGED <<files, recorded>> /\ SameHistory
     ELSE Fails(c)

\* Slip: the hash is not compared.
UnexpectedNever(c) == FALSE

Unexpected(c) == Call[c].expected # NoText /\ seen[c] # Call[c].expected

CheckWrite(c) ==
  /\ Turn(c) /\ at[c] = "check" /\ Call[c].tool = "fs_write"
  /\ Goto(c, IF Unexpected(c) THEN "failed" ELSE "write")
  /\ UNCHANGED <<files, recorded, seen>> /\ SameHistory

\* Slip: the text is read along with the hash.
TextHashed(c) == seen[c]

TextRead(c) == files[Call[c].path]

\* The text is read after it was hashed; the replacements may not match it.
CheckReplace(c) ==
  /\ Turn(c) /\ at[c] = "check" /\ Call[c].tool = "fs_replace"
  /\ IF Unexpected(c) \/ Call[c].path \notin DOMAIN files
     THEN Fails(c)
     ELSE \/ /\ seen' = [seen EXCEPT ![c] = TextRead(c)]
             /\ Goto(c, "write")
             /\ UNCHANGED <<files, recorded>> /\ SameHistory
          \/ Fails(c)

\* Slip: the file is written in place.
TargetInPlace(c) == Call[c].path

\* Slip: the name of the temporary file is that of its path.
TargetShared(c) == <<"tmp", Call[c].path[2]>>

Target(c) == Tmp(c)

CreateTemporary(c) ==
  /\ at[c] = "write"
  /\ files' = With(Target(c), Torn)
  /\ Goto(c, "fill")
  /\ UNCHANGED <<recorded, seen>> /\ SameHistory

NewText(c) ==
  IF Call[c].tool = "fs_replace" THEN Append(seen[c], Call[c].text) ELSE <<Call[c].text>>

FillTemporary(c) ==
  /\ at[c] = "fill"
  /\ files' = With(Target(c), NewText(c))
  /\ Goto(c, "rename")
  /\ UNCHANGED <<recorded, seen>> /\ SameHistory

\* fs_write and fs_replace have yet to hash what they wrote.
AfterRename(c) == IF Call[c].tool = "file_import" THEN "done" ELSE "rehash"

\* The temporary file takes the place of whatever is at the path now.
RenameTemporary(c) ==
  /\ at[c] = "rename"
  /\ files' = Restrict(With(Call[c].path, files[Target(c)]),
                       (DOMAIN files \cup {Call[c].path}) \ {Tmp(c)})
  /\ Goto(c, AfterRename(c))
  /\ UNCHANGED <<recorded, seen>> /\ SameHistory

\* The file may be gone or locked by now: the write that took effect then fails.
Rehash(c) ==
  /\ Turn(c) /\ at[c] = "rehash"
  /\ \/ /\ Call[c].path \in DOMAIN files
        /\ Goto(c, "done")
        /\ UNCHANGED <<files, recorded, seen>> /\ SameHistory
     \/ Fails(c)

\* A synchronous call throws: the path is locked, the disk is full.
CallThrows(c) ==
  /\ at[c] \in Inside
  /\ Fails(c)

-----------------------------------------------------------------------------
(* file_import *)

StartDownload(c) ==
  /\ Turn(c) /\ at[c] = "download" /\ Target(c) \notin DOMAIN files
  /\ files' = With(Target(c), Torn)
  /\ UNCHANGED <<recorded, at, seen>> /\ SameHistory

\* The stream ends, with the file asked for or with another one.
EndDownload(c) ==
  /\ Turn(c) /\ at[c] = "download" /\ Target(c) \in DOMAIN files
  /\ \E text \in {Call[c].text, "other"} : files' = With(Target(c), <<text>>)
  /\ Goto(c, "verify")
  /\ UNCHANGED <<recorded, seen>> /\ SameHistory

DropTemporary(c) ==
  /\ files' = Without(Target(c))
  /\ Goto(c, "failed")
  /\ UNCHANGED <<recorded, seen>> /\ SameHistory

\* An HTTP error, a broken stream or the size limit.
DownloadFails(c) == Turn(c) /\ at[c] = "download" /\ DropTemporary(c)

\* Slip: the hash of the download is not compared.
CorruptNever(c) == FALSE

Corrupt(c) == Call[c].expected # NoText /\ files[Target(c)] # Call[c].expected

Verify(c) ==
  /\ Turn(c) /\ at[c] = "verify"
  /\ IF Corrupt(c)
     THEN DropTemporary(c)
     ELSE /\ Goto(c, "rename")
          /\ UNCHANGED <<files, recorded, seen>> /\ SameHistory

-----------------------------------------------------------------------------
(* fs_copy, fs_move and fs_delete *)

\* What is in the way at the destination is removed, or stops the call.
Clear(c, next) ==
  IF Call[c].destination \notin DOMAIN files
  THEN Goto(c, next) /\ UNCHANGED <<files, recorded, seen>> /\ SameHistory
  ELSE IF ~Call[c].overwrite
  THEN Fails(c)
  ELSE /\ files' = Without(Call[c].destination)
       /\ Goto(c, next)
       /\ UNCHANGED <<recorded, seen>> /\ SameHistory

\* cpSync writes the destination in place.  It first looks at both paths: the
\* source must be there, and another file.
ClearCopy(c) ==
  /\ at[c] = "clear"
  /\ IF Call[c].path \in DOMAIN files /\ Call[c].path # Call[c].destination
     THEN Clear(c, "open")
     ELSE Fails(c)

OpenCopy(c) ==
  /\ at[c] = "open"
  /\ files' = With(Call[c].destination, Torn)
  /\ Goto(c, "copy")
  /\ UNCHANGED <<recorded, seen>> /\ SameHistory

FillCopy(c) ==
  /\ at[c] = "copy"
  /\ files' = With(Call[c].destination, files[Call[c].path])
  /\ Goto(c, "done")
  /\ UNCHANGED <<recorded, seen>> /\ SameHistory

RemoveDestination(c) == at[c] = "remove" /\ Clear(c, "move")

\* renameSync of a path onto another one.
MoveTo(c, to, next) ==
  LET path == Call[c].path
  IN IF path \notin DOMAIN files
     THEN Fails(c)
     ELSE /\ files' = Restrict(With(to, files[path]), (DOMAIN files \ {path}) \cup {to})
          /\ Goto(c, next)
          /\ UNCHANGED <<recorded, seen>> /\ SameHistory

Move(c) == at[c] = "move" /\ MoveTo(c, Call[c].destination, "done")

MoveToTrash(c) == at[c] = "trash" /\ MoveTo(c, Trash(c), "record")

\* permanent=true
Erase(c) ==
  /\ at[c] = "erase"
  /\ IF Call[c].path \notin DOMAIN files
     THEN Fails(c)
     ELSE /\ files' = Without(Call[c].path)
          /\ Goto(c, "done")
          /\ UNCHANGED <<recorded, seen>> /\ SameHistory

RecordTrash(c) ==
  /\ at[c] = "record"
  /\ recorded' = recorded \cup {c}
  /\ Goto(c, "done")
  /\ UNCHANGED <<files, seen>> /\ SameHistory

-----------------------------------------------------------------------------
(* Everybody else *)

\* Handlers that are about to replace p.
Writers(p) == {c \in Calls : Call[c].path = p /\ at[c] \in {"write", "fill", "rename"}}

\* Another program adds to a file, or creates it.
Edit(p) ==
  /\ edits < MaxEdits
  /\ files' = With(p, Append(IF p \in DOMAIN files THEN files[p] ELSE NoText, "user"))
  /\ edits' = edits + 1
  /\ overtaken' = overtaken \cup Writers(p)
  /\ UNCHANGED <<recorded, at, seen, died>>

Die ==
  /\ ~died
  /\ died' = TRUE
  /\ at' = [c \in Calls |-> IF at[c] \in Awaiting \cup Inside THEN "lost" ELSE at[c]]
  /\ UNCHANGED <<files, recorded, seen, overtaken, edits>>

Next ==
  \/ \E c \in Calls :
       \/ Start(c)
       \/ HashFile(c)
       \/ CheckWrite(c)
       \/ CheckReplace(c)
       \/ CreateTemporary(c)
       \/ FillTemporary(c)
       \/ RenameTemporary(c)
       \/ Rehash(c)
       \/ CallThrows(c)
       \/ StartDownload(c)
       \/ EndDownload(c)
       \/ DownloadFails(c)
       \/ Verify(c)
       \/ ClearCopy(c)
       \/ OpenCopy(c)
       \/ FillCopy(c)
       \/ RemoveDestination(c)
       \/ Move(c)
       \/ Erase(c)
       \/ MoveToTrash(c)
       \/ RecordTrash(c)
  \/ \E p \in Paths : Edit(p)
  \/ Die

Spec == Init /\ [][Next]_vars

-----------------------------------------------------------------------------
(* Correctness *)

\* Whoever opens a file finds a whole one, whatever failed or died half way,
\* unless a copy to it is under way or did not end; what is half there may be
\* moved on.
CopyCutShort == \E c \in Calls : Call[c].tool = "fs_copy" /\ at[c] \notin {"none", "clear", "open", "done"}

NeverTorn == ~CopyCutShort => \A p \in Paths \cap DOMAIN files : files[p] # Torn

Renames(c) == at[c] = "rename" /\ at'[c] \in {"rehash", "done"}

\* fs_replace adds to whatever is in the file when it replaces it, though other
\* handlers changed it since the hash: only what another program does between
\* its read and its rename, which nothing interrupts in the worker, is lost.
\* fs_write has found the expected content before it writes; what anybody
\* changes after that it overwrites.
BuildsOnTheFile ==
  [][\A c \in Calls : Renames(c) =>
       /\ Call[c].tool = "fs_replace" /\ c \notin overtaken =>
            /\ Call[c].path \in DOMAIN files
            /\ files'[Call[c].path] = Append(files[Call[c].path], Call[c].text)
       /\ Call[c].tool = "fs_write" /\ Call[c].expected # NoText =>
            seen[c] = Call[c].expected]_vars

\* file_import puts nothing but the expected content at its destination.
ImportsTheExpected ==
  [][\A c \in Calls :
       Renames(c) /\ Call[c].tool = "file_import" /\ Call[c].expected # NoText =>
         files'[Call[c].path] = Call[c].expected]_vars
=============================================================================
