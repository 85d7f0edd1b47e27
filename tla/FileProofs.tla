----------------------------- MODULE FileProofs -----------------------------
(***************************************************************************)
(* Theorems about FileTools, for any calls, paths and files, and for any   *)
(* edits by other programs and any death of the worker.                    *)
(***************************************************************************)
EXTENDS FileTools, TLAPS

-----------------------------------------------------------------------------
(* The inductive invariant *)

\* One handler at a time is between two synchronous calls.
OneInside == \A c, d \in Calls : at[c] \in Inside /\ at[d] \in Inside => c = d

\* Each tool passes through its own places.
InPlace(c) ==
  /\ at[c] \in {"hash", "check", "write", "fill"} => Call[c].tool \in {"fs_write", "fs_replace"}
  /\ at[c] \in {"download", "verify"} => Call[c].tool = "file_import"
  /\ at[c] = "rename" => Call[c].tool \in {"fs_write", "fs_replace", "file_import"}
  /\ at[c] \in {"clear", "open", "copy"} => Call[c].tool = "fs_copy"

\* A temporary file that is checked or renamed is whole.
TemporaryIsWhole(c) ==
  at[c] \in {"verify", "rename"} => Tmp(c) \in DOMAIN files /\ files[Tmp(c)] # Torn

\* What is renamed is what the caller asked for.
TemporaryIsNew(c) ==
  at[c] = "rename" =>
    /\ Call[c].tool = "fs_replace" => files[Tmp(c)] = Append(seen[c], Call[c].text)
    /\ Call[c].tool = "file_import" /\ Call[c].expected # NoText =>
         files[Tmp(c)] = Call[c].expected

\* The text that is edited is still there, unless another program changed it.
StillThere(c) ==
  /\ at[c] \in {"write", "fill", "rename"}
  /\ Call[c].tool = "fs_replace"
  /\ c \notin overtaken
  => Call[c].path \in DOMAIN files /\ files[Call[c].path] = seen[c]

\* Only the content that was asked for gets past the check.
ExpectedSeen(c) ==
  /\ at[c] \in {"write", "fill", "rename"}
  /\ Call[c].tool = "fs_write" /\ Call[c].expected # NoText
  => seen[c] = Call[c].expected

\* A copy that is under way has a source, and elsewhere.
SourceElsewhere(c) ==
  at[c] \in {"open", "copy"} => Call[c].path \in DOMAIN files /\ Call[c].path # Call[c].destination

CallInv(c) ==
  /\ InPlace(c)
  /\ TemporaryIsWhole(c)
  /\ TemporaryIsNew(c)
  /\ StillThere(c)
  /\ ExpectedSeen(c)
  /\ SourceElsewhere(c)

CopyLeftHalf == \E c \in Calls : Call[c].tool = "fs_copy" /\ at[c] \in {"failed", "lost"}

\* Half a file is at the destination of the copy under way, if no copy failed.
TornByCopyOnly ==
  ~CopyLeftHalf =>
    \A p \in Paths \cap DOMAIN files :
      files[p] = Torn => \E c \in Calls : at[c] = "copy" /\ Call[c].destination = p

FileInv ==
  /\ FilesTypeOK
  /\ OneInside
  /\ \A c \in Calls : CallInv(c)
  /\ TornByCopyOnly

-----------------------------------------------------------------------------
(* The file system *)

\* A step puts content under a name, while others go, or drops a name.
Puts(p, content, gone) ==
  /\ DOMAIN files' = (DOMAIN files \ gone) \cup {p}
  /\ files'[p] = content
  /\ \A q \in DOMAIN files \ gone : q # p => files'[q] = files[q]

Drops(p) ==
  /\ DOMAIN files' = DOMAIN files \ {p}
  /\ \A q \in DOMAIN files \ {p} : files'[q] = files[q]

LEMMA WithPuts ==
  ASSUME NEW p, NEW content, files' = With(p, content)
  PROVE  Puts(p, content, {})
  BY DEF With, Puts

LEMMA WithoutDrops ==
  ASSUME NEW p, files' = Without(p)
  PROVE  Drops(p)
  BY DEF Without, Restrict, Drops

\* The form of RenameTemporary.
LEMMA RenamePuts ==
  ASSUME NEW p, NEW from, NEW content, p # from,
         files' = Restrict(With(p, content), (DOMAIN files \cup {p}) \ {from})
  PROVE  Puts(p, content, {from})
  BY DEF With, Restrict, Puts

\* The form of MoveTo.
LEMMA MovePuts ==
  ASSUME NEW p, NEW from, NEW content,
         files' = Restrict(With(p, content), (DOMAIN files \ {from}) \cup {p})
  PROVE  Puts(p, content, {from})
  BY DEF With, Restrict, Puts

FileNames == Paths \cup {Tmp(c) : c \in Calls} \cup {Trash(c) : c \in Calls}

FilesTyped == DOMAIN files \subseteq FileNames /\ \A p \in DOMAIN files : files[p] \in Contents

LEMMA PutsTyped ==
  ASSUME FilesTyped, NEW p \in FileNames, NEW content \in Contents, NEW gone,
         Puts(p, content, gone)
  PROVE  FilesTyped'
  BY DEF FilesTyped, Puts, FileNames, Tmp, Trash

LEMMA DropsTyped ==
  ASSUME FilesTyped, NEW p, Drops(p)
  PROVE  FilesTyped'
  BY DEF FilesTyped, Drops, FileNames, Tmp, Trash

\* Nobody else uses the names of a call.
LEMMA NamesApart ==
  /\ \A c, d \in Calls : Tmp(c) # Trash(d) /\ (Tmp(c) = Tmp(d) => c = d)
  /\ \A c \in Calls : Tmp(c) \notin Paths /\ Trash(c) \notin Paths
  BY FileToolsAssumption DEF Tmp, Trash

LEMMA CallTyped ==
  ASSUME NEW c \in Calls
  PROVE  /\ Call[c].tool \in Tools /\ Call[c].text \in Texts
         /\ Call[c].path \in Paths /\ Call[c].destination \in Paths
         /\ Call[c].path \in FileNames /\ Call[c].destination \in FileNames
         /\ Tmp(c) \in FileNames /\ Trash(c) \in FileNames
         /\ Call[c].expected \in Seq(Texts)
         /\ Call[c].permanent \in BOOLEAN
  BY FileToolsAssumption DEF FileNames

\* A file that something was added to is whole.
LEMMA AppendNotTorn ==
  ASSUME NEW s \in Contents, NEW x \in Texts
  PROVE  Append(s, x) \in Contents /\ Append(s, x) # Torn
<1>1. Append(s, x) \in Contents
  BY DEF Contents
<1>2. Len(Append(s, x)) = Len(s) + 1 /\ Append(s, x)[Len(s) + 1] = x
  BY DEF Contents
<1>3. Len(Torn) = 1 /\ Torn[1] = "torn"
  BY DEF Torn
<1>4. Len(s) \in Nat
  BY DEF Contents
<1>5. ASSUME Append(s, x) = Torn PROVE FALSE
  <2>1. Len(s) + 1 = 1
    BY <1>2, <1>3, <1>5
  <2> QED BY <2>1, <1>2, <1>3, <1>5, FileToolsAssumption
<1> QED BY <1>1, <1>5

LEMMA SingleNotTorn ==
  ASSUME NEW x \in Texts
  PROVE  <<x>> \in Contents /\ <<x>> # Torn
  BY FileToolsAssumption DEF Torn, Contents

-----------------------------------------------------------------------------
(* A step of one handler *)

Same(p) ==
  /\ p \in DOMAIN files' <=> p \in DOMAIN files
  /\ p \in DOMAIN files => files'[p] = files[p]

\* What a handler's step leaves to the other handlers, none of which is Inside.
StepOf(c) ==
  /\ at[c] \notin Over
  /\ \E place \in {"none"} \cup Awaiting \cup Inside \cup Over : Goto(c, place)
  /\ \A d \in Calls : d # c =>
       /\ at[d] \notin Inside
       /\ seen'[d] = seen[d]
       /\ Same(Tmp(d))

Advances(c) ==
  /\ FilesTypeOK'
  /\ StepOf(c)
  /\ CallInv(c)'
  /\ TornByCopyOnly'

LEMMA Alone ==
  ASSUME FileInv, NEW c \in Calls, Turn(c) \/ at[c] \in Inside
  PROVE  \A d \in Calls : d # c => at[d] \notin Inside
  BY DEF FileInv, OneInside, Turn

\* The others keep their places, what they saw and their temporaries.
LEMMA OthersKeep ==
  ASSUME FileInv, NEW c \in Calls, StepOf(c), NEW d \in Calls, d # c
  PROVE  CallInv(d)'
<1>1. at'[d] = at[d] /\ at[d] \notin Inside /\ seen'[d] = seen[d]
  BY DEF StepOf, Goto, FileInv, FilesTypeOK
<1>2. Same(Tmp(d))
  BY DEF StepOf
<1>3. CallInv(d)
  BY DEF FileInv
<1>4. (InPlace(d) /\ ExpectedSeen(d) /\ SourceElsewhere(d))'
  BY <1>1, <1>3 DEF CallInv, InPlace, ExpectedSeen, SourceElsewhere, Inside
<1>5. (TemporaryIsWhole(d) /\ TemporaryIsNew(d))'
  BY <1>1, <1>2, <1>3 DEF CallInv, TemporaryIsWhole, TemporaryIsNew, Inside, Same, Tmp
<1>6. StillThere(d)'
  BY <1>1 DEF StillThere, Inside
<1> QED BY <1>4, <1>5, <1>6 DEF CallInv

LEMMA AdvanceKeeps ==
  ASSUME FileInv, NEW c \in Calls, Advances(c)
  PROVE  FileInv'
<1>1. \A d \in Calls : CallInv(d)'
  BY OthersKeep DEF Advances
<1>2. OneInside'
  BY DEF Advances, StepOf, Goto, FileInv, FilesTypeOK, OneInside
<1> QED BY <1>1, <1>2 DEF Advances, FileInv

\* A step that breaks no file breaks nothing, if no copy was under way.
LEMMA WholeStays ==
  ASSUME FileInv, NEW c \in Calls, StepOf(c), at[c] # "copy",
         (\A p \in Paths \cap DOMAIN files : files[p] # Torn) =>
           (\A p \in Paths \cap DOMAIN files' : files'[p] # Torn)
  PROVE  TornByCopyOnly'
<1>1. CopyLeftHalf => CopyLeftHalf'
  BY DEF CopyLeftHalf, StepOf, Goto, Over, FileInv, FilesTypeOK
<1>2. \A d \in Calls : at[d] # "copy"
  BY DEF StepOf, Inside
<1>3. ~CopyLeftHalf => \A p \in Paths \cap DOMAIN files : files[p] # Torn
  BY <1>2 DEF FileInv, TornByCopyOnly
<1> QED BY <1>1, <1>3 DEF TornByCopyOnly

\* A step that leaves the files alone.
LEMMA IdleStep ==
  ASSUME FileInv, NEW c \in Calls, Turn(c) \/ at[c] \in Inside, at[c] \notin Over,
         NEW place \in {"none"} \cup Awaiting \cup Inside \cup Over, Goto(c, place),
         files' = files, recorded' \subseteq recorded \cup {c},
         NEW s \in Contents, seen' = [seen EXCEPT ![c] = s] \/ seen' = seen,
         SameHistory,
         at[c] = "copy" => place = "failed"
  PROVE  FilesTypeOK' /\ StepOf(c) /\ TornByCopyOnly'
<1>1. FilesTypeOK'
  BY DEF FileInv, FilesTypeOK, Goto, SameHistory, Tmp, Trash
<1>2. StepOf(c)
  BY Alone DEF StepOf, Same, FileInv, FilesTypeOK
<1>3. TornByCopyOnly'
  <2>1. CASE at[c] = "copy"
    <3>1. Call[c].tool = "fs_copy"
      BY <2>1 DEF FileInv, CallInv, InPlace
    <3>2. at'[c] = "failed"
      BY <2>1 DEF Goto, FileInv, FilesTypeOK
    <3> QED BY <3>1, <3>2 DEF TornByCopyOnly, CopyLeftHalf
  <2>2. CASE at[c] # "copy"
    BY <1>2, <2>2, WholeStays
  <2> QED BY <2>1, <2>2
<1> QED BY <1>1, <1>2, <1>3

\* A step that changes files: its own, or the user's.
OwnNames(c) == Paths \cup {Tmp(c), Trash(c)}

LEMMA FileStep ==
  ASSUME FileInv, NEW c \in Calls, Turn(c) \/ at[c] \in Inside, at[c] \notin Over,
         NEW place \in {"none"} \cup Awaiting \cup Inside \cup Over, Goto(c, place),
         FilesTyped', NEW names \in SUBSET OwnNames(c),
         \A p \in FileNames \ names : Same(p),
         UNCHANGED <<recorded, seen>>, SameHistory
  PROVE  FilesTypeOK' /\ StepOf(c)
<1>1. FilesTypeOK'
  BY DEF FileInv, FilesTypeOK, FilesTyped, FileNames, Goto, SameHistory, Tmp, Trash
<1>2. ASSUME NEW d \in Calls, d # c
      PROVE  /\ at[d] \notin Inside
             /\ seen'[d] = seen[d]
             /\ Same(Tmp(d))
  <2>1. Tmp(d) \in FileNames \ names
    BY <1>2, NamesApart, CallTyped DEF OwnNames
  <2> QED BY <1>2, <2>1, Alone
<1> QED BY <1>1, <1>2 DEF StepOf

LEMMA PutStep ==
  ASSUME FileInv, NEW c \in Calls, Turn(c) \/ at[c] \in Inside, at[c] \notin Over,
         NEW place \in {"none"} \cup Awaiting \cup Inside \cup Over, Goto(c, place),
         NEW p \in FileNames, NEW content \in Contents, NEW gone, Puts(p, content, gone),
         gone \cup {p} \subseteq OwnNames(c),
         UNCHANGED <<recorded, seen>>, SameHistory
  PROVE  FilesTypeOK' /\ StepOf(c)
<1>1. FilesTyped'
  BY PutsTyped DEF FileInv, FilesTypeOK, FilesTyped, FileNames
<1>2. \A q \in FileNames \ (gone \cup {p}) : Same(q)
  BY DEF Puts, Same
<1>3. gone \cup {p} \in SUBSET OwnNames(c)
  OBVIOUS
<1> QED BY <1>1, <1>2, <1>3, FileStep

LEMMA DropStep ==
  ASSUME FileInv, NEW c \in Calls, Turn(c) \/ at[c] \in Inside, at[c] \notin Over,
         NEW place \in {"none"} \cup Awaiting \cup Inside \cup Over, Goto(c, place),
         NEW p \in OwnNames(c), Drops(p),
         UNCHANGED <<recorded, seen>>, SameHistory
  PROVE  FilesTypeOK' /\ StepOf(c)
<1>1. FilesTyped'
  BY DropsTyped DEF FileInv, FilesTypeOK, FilesTyped, FileNames
<1>2. \A q \in FileNames \ {p} : Same(q)
  BY DEF Drops, Same
<1>3. {p} \in SUBSET OwnNames(c)
  OBVIOUS
<1> QED BY <1>1, <1>2, <1>3, FileStep

LEMMA FailsAdvances ==
  ASSUME FileInv, NEW c \in Calls, Turn(c) \/ at[c] \in Inside, at[c] \notin Over, Fails(c)
  PROVE  Advances(c)
<1>1. FilesTypeOK' /\ StepOf(c) /\ TornByCopyOnly'
  BY IdleStep DEF Fails, SameHistory, Over, FileInv, FilesTypeOK
<1>2. CallInv(c)'
  BY DEF Fails, Goto, FileInv, FilesTypeOK, CallInv, InPlace, TemporaryIsWhole,
         TemporaryIsNew, StillThere, ExpectedSeen, SourceElsewhere
<1> QED BY <1>1, <1>2 DEF Advances

-----------------------------------------------------------------------------
(* The actions *)

LEMMA FirstPlace ==
  ASSUME NEW c \in Calls
  PROVE  /\ First(c) \in Awaiting \cup Inside
         /\ First(c) \notin {"check", "fill", "rename", "copy", "verify", "open"}
         /\ First(c) \in {"hash", "write"} => Call[c].tool \in {"fs_write", "fs_replace"}
         /\ First(c) = "write" => Call[c].tool = "fs_write" /\ Call[c].expected = NoText
         /\ First(c) = "download" => Call[c].tool = "file_import"
         /\ First(c) = "clear" => Call[c].tool = "fs_copy"
<1>1. CASE Call[c].tool = "fs_write"
  BY <1>1 DEF First, Awaiting, Inside
<1>2. CASE Call[c].tool = "fs_replace"
  BY <1>2 DEF First, Awaiting, Inside
<1>3. CASE Call[c].tool = "fs_copy"
  BY <1>3 DEF First, Awaiting, Inside
<1>4. CASE Call[c].tool = "fs_move"
  BY <1>4 DEF First, Awaiting, Inside
<1>5. CASE Call[c].tool = "fs_delete"
  BY <1>5 DEF First, Awaiting, Inside
<1>6. CASE Call[c].tool = "file_import"
  BY <1>6 DEF First, Awaiting, Inside
<1> QED BY <1>1, <1>2, <1>3, <1>4, <1>5, <1>6, CallTyped DEF Tools

LEMMA StartAdvances ==
  ASSUME FileInv, NEW c \in Calls, Start(c)
  PROVE  Advances(c)
<1>1. CASE Missing(c)
  BY <1>1, FailsAdvances DEF Start, Fails, Over
<1>2. CASE ~Missing(c)
  <2>1. Goto(c, First(c)) /\ at'[c] = First(c)
    BY <1>2 DEF Start, Goto, FileInv, FilesTypeOK
  <2>2. FilesTypeOK' /\ StepOf(c) /\ TornByCopyOnly'
    BY <2>1, FirstPlace, IdleStep DEF Start, SameHistory, Over, FileInv, FilesTypeOK
  <2>3. CallInv(c)'
    BY <2>1, FirstPlace DEF Start, SameHistory, CallInv, InPlace, TemporaryIsWhole,
       TemporaryIsNew, StillThere, ExpectedSeen, SourceElsewhere
  <2> QED BY <2>2, <2>3 DEF Advances
<1> QED BY <1>1, <1>2

LEMMA HashAdvances ==
  ASSUME FileInv, NEW c \in Calls, HashFile(c)
  PROVE  Advances(c)
<1>1. CASE Call[c].path \notin DOMAIN files
  BY <1>1, FailsAdvances DEF HashFile, Over
<1>2. CASE Call[c].path \in DOMAIN files
  <2>1. files[Call[c].path] \in Contents
    BY <1>2 DEF FileInv, FilesTypeOK
  <2>2. at'[c] = "check" /\ seen'[c] = files[Call[c].path] /\ files' = files
    BY <1>2 DEF HashFile, Goto, FileInv, FilesTypeOK
  <2>3. FilesTypeOK' /\ StepOf(c) /\ TornByCopyOnly'
    BY <1>2, <2>1, IdleStep DEF HashFile, Over, Awaiting
  <2>4. CallInv(c)'
    BY <1>2, <2>2 DEF HashFile, FileInv, CallInv, InPlace, TemporaryIsWhole,
       TemporaryIsNew, StillThere, ExpectedSeen, SourceElsewhere
  <2> QED BY <2>3, <2>4 DEF Advances
<1> QED BY <1>1, <1>2

LEMMA CheckWriteAdvances ==
  ASSUME FileInv, NEW c \in Calls, CheckWrite(c)
  PROVE  Advances(c)
<1>1. CASE Unexpected(c)
  BY <1>1, FailsAdvances DEF CheckWrite, Fails, Over
<1>2. CASE ~Unexpected(c)
  <2>1. at'[c] = "write" /\ seen' = seen /\ files' = files /\ overtaken' = overtaken
    BY <1>2 DEF CheckWrite, SameHistory, Goto, FileInv, FilesTypeOK
  <2>2. FilesTypeOK' /\ StepOf(c) /\ TornByCopyOnly'
    BY <1>2, IdleStep DEF CheckWrite, SameHistory, Over, Inside, FileInv, FilesTypeOK
  <2>3. CallInv(c)'
    BY <1>2, <2>1 DEF CheckWrite, Unexpected, FileInv, CallInv, InPlace, TemporaryIsWhole,
       TemporaryIsNew, StillThere, ExpectedSeen, SourceElsewhere
  <2> QED BY <2>2, <2>3 DEF Advances
<1> QED BY <1>1, <1>2

LEMMA CheckReplaceAdvances ==
  ASSUME FileInv, NEW c \in Calls, CheckReplace(c)
  PROVE  Advances(c)
<1>1. CASE Fails(c)
  BY <1>1, FailsAdvances DEF CheckReplace, Over
<1>2. CASE ~Fails(c)
  <2>1. /\ Call[c].path \in DOMAIN files
        /\ seen' = [seen EXCEPT ![c] = files[Call[c].path]]
        /\ Goto(c, "write") /\ UNCHANGED <<files, recorded>> /\ SameHistory
    BY <1>2 DEF CheckReplace, TextRead
  <2>2. files[Call[c].path] \in Contents
    BY <2>1 DEF FileInv, FilesTypeOK
  <2>3. at'[c] = "write" /\ seen'[c] = files[Call[c].path] /\ files' = files
    BY <2>1 DEF Goto, FileInv, FilesTypeOK
  <2>4. FilesTypeOK' /\ StepOf(c) /\ TornByCopyOnly'
    BY <2>1, <2>2, IdleStep DEF CheckReplace, Over, Inside
  <2>5. CallInv(c)'
    BY <2>1, <2>3 DEF CheckReplace, FileInv, CallInv, InPlace, TemporaryIsWhole,
       TemporaryIsNew, StillThere, ExpectedSeen, SourceElsewhere
  <2> QED BY <2>4, <2>5 DEF Advances
<1> QED BY <1>1, <1>2

LEMMA TornTyped == Torn \in Contents
  BY DEF Torn, Contents

\* A step on a temporary file breaks nothing.
LEMMA TemporaryStep ==
  ASSUME FileInv, NEW c \in Calls, StepOf(c), at[c] # "copy",
         \A p \in Paths : Same(p)
  PROVE  TornByCopyOnly'
  BY WholeStays DEF Same

LEMMA PutTemporary ==
  ASSUME FileInv, NEW c \in Calls, Turn(c) \/ at[c] \in Inside, at[c] \notin Over,
         at[c] # "copy",
         NEW place \in {"none"} \cup Awaiting \cup Inside \cup Over, Goto(c, place),
         NEW content \in Contents, files' = With(Target(c), content),
         UNCHANGED <<recorded, seen>>, SameHistory
  PROVE  /\ FilesTypeOK' /\ StepOf(c) /\ TornByCopyOnly'
         /\ Puts(Tmp(c), content, {})
         /\ \A p \in Paths : Same(p)
<1>1. Puts(Tmp(c), content, {})
  BY WithPuts DEF Target
<1>2. \A p \in Paths : Same(p)
  BY <1>1, NamesApart DEF Puts, Same
<1>3. Tmp(c) \in FileNames /\ {} \cup {Tmp(c)} \subseteq OwnNames(c)
  BY CallTyped DEF OwnNames
<1>4. FilesTypeOK' /\ StepOf(c)
  BY <1>1, <1>3, PutStep
<1> QED BY <1>1, <1>2, <1>4, TemporaryStep

LEMMA CreateAdvances ==
  ASSUME FileInv, NEW c \in Calls, CreateTemporary(c)
  PROVE  Advances(c)
<1>1. at'[c] = "fill" /\ seen' = seen /\ overtaken' = overtaken
  BY DEF CreateTemporary, SameHistory, Goto, FileInv, FilesTypeOK
<1>2. /\ FilesTypeOK' /\ StepOf(c) /\ TornByCopyOnly'
      /\ \A p \in Paths : Same(p)
  BY TornTyped, PutTemporary DEF CreateTemporary, Inside, Over
<1>3. Same(Call[c].path)
  BY <1>2, CallTyped
<1>4. CallInv(c)'
  BY <1>1, <1>3 DEF CreateTemporary, FileInv, CallInv, InPlace, TemporaryIsWhole,
     TemporaryIsNew, StillThere, ExpectedSeen, SourceElsewhere, Same
<1> QED BY <1>2, <1>4 DEF Advances

LEMMA NewTextWhole ==
  ASSUME FilesTypeOK, NEW c \in Calls
  PROVE  NewText(c) \in Contents /\ NewText(c) # Torn
  BY CallTyped, AppendNotTorn, SingleNotTorn DEF NewText, FilesTypeOK

LEMMA FillAdvances ==
  ASSUME FileInv, NEW c \in Calls, FillTemporary(c)
  PROVE  Advances(c)
<1>1. at'[c] = "rename" /\ seen' = seen /\ overtaken' = overtaken
  BY DEF FillTemporary, SameHistory, Goto, FileInv, FilesTypeOK
<1>2. NewText(c) \in Contents /\ NewText(c) # Torn
  BY NewTextWhole DEF FileInv
<1>3. /\ FilesTypeOK' /\ StepOf(c) /\ TornByCopyOnly'
      /\ Puts(Tmp(c), NewText(c), {})
      /\ \A p \in Paths : Same(p)
  BY <1>2, PutTemporary DEF FillTemporary, Inside, Over
<1>4. Same(Call[c].path)
  BY <1>3, CallTyped
<1>5. Call[c].tool \in {"fs_write", "fs_replace"}
  BY DEF FillTemporary, FileInv, CallInv, InPlace
<1>6. (InPlace(c) /\ ExpectedSeen(c) /\ SourceElsewhere(c))'
  BY <1>1, <1>5 DEF FillTemporary, FileInv, CallInv, InPlace, ExpectedSeen, SourceElsewhere
<1>7. (TemporaryIsWhole(c) /\ TemporaryIsNew(c))'
  BY <1>1, <1>2, <1>3, <1>5 DEF TemporaryIsWhole, TemporaryIsNew, NewText, Puts, Tmp
<1>8. StillThere(c)'
  BY <1>1, <1>4 DEF FillTemporary, FileInv, CallInv, StillThere, Same
<1> QED BY <1>3, <1>6, <1>7, <1>8 DEF Advances, CallInv

LEMMA RenameAdvances ==
  ASSUME FileInv, NEW c \in Calls, RenameTemporary(c)
  PROVE  Advances(c) /\ Puts(Call[c].path, files[Tmp(c)], {Tmp(c)})
<1>1. Tmp(c) \in DOMAIN files /\ files[Tmp(c)] # Torn /\ files[Tmp(c)] \in Contents
  BY DEF RenameTemporary, FileInv, FilesTypeOK, CallInv, TemporaryIsWhole
<1>2. Puts(Call[c].path, files[Tmp(c)], {Tmp(c)})
  BY RenamePuts, CallTyped, NamesApart DEF RenameTemporary, Target
<1>3. {Tmp(c)} \cup {Call[c].path} \subseteq OwnNames(c) /\ Call[c].path \in FileNames
  BY CallTyped DEF OwnNames
<1>4. /\ AfterRename(c) \in Awaiting \cup Over
      /\ AfterRename(c) = "rehash" => Call[c].tool \in {"fs_write", "fs_replace"}
  BY CallTyped DEF AfterRename, Awaiting, Over, RenameTemporary, FileInv, CallInv, InPlace
<1>5. FilesTypeOK' /\ StepOf(c)
  BY <1>1, <1>2, <1>3, <1>4, PutStep DEF RenameTemporary, Inside, Over
<1>6. TornByCopyOnly'
  BY <1>1, <1>2, <1>5, WholeStays DEF Puts, RenameTemporary
<1>7. at'[c] = AfterRename(c) /\ AfterRename(c) \in {"rehash", "done"}
  BY DEF RenameTemporary, AfterRename, Goto, FileInv, FilesTypeOK
<1>8. CallInv(c)'
  BY <1>7 DEF CallInv, InPlace, TemporaryIsWhole,
     TemporaryIsNew, StillThere, ExpectedSeen, SourceElsewhere
<1> QED BY <1>2, <1>5, <1>6, <1>8 DEF Advances

LEMMA RehashAdvances ==
  ASSUME FileInv, NEW c \in Calls, Rehash(c)
  PROVE  Advances(c)
<1>1. CASE Fails(c)
  BY <1>1, FailsAdvances DEF Rehash, Over
<1>2. CASE Goto(c, "done") /\ UNCHANGED <<files, recorded, seen>> /\ SameHistory
  <2>1. at'[c] = "done"
    BY <1>2 DEF Goto, FileInv, FilesTypeOK
  <2>2. FilesTypeOK' /\ StepOf(c) /\ TornByCopyOnly'
    BY <1>2, IdleStep DEF Rehash, Over, FileInv, FilesTypeOK
  <2>3. CallInv(c)'
    BY <2>1 DEF CallInv, InPlace, TemporaryIsWhole, TemporaryIsNew, StillThere, ExpectedSeen,
       SourceElsewhere
  <2> QED BY <2>2, <2>3 DEF Advances
<1> QED BY <1>1, <1>2 DEF Rehash

LEMMA StartDownloadAdvances ==
  ASSUME FileInv, NEW c \in Calls, StartDownload(c)
  PROVE  Advances(c)
<1>1. Goto(c, "download") /\ at'[c] = "download"
  BY DEF StartDownload, Goto, FileInv, FilesTypeOK
<1>2. FilesTypeOK' /\ StepOf(c) /\ TornByCopyOnly'
  BY <1>1, TornTyped, PutTemporary DEF StartDownload, Awaiting, Over
<1>3. CallInv(c)'
  BY <1>1 DEF StartDownload, FileInv, CallInv, InPlace, TemporaryIsWhole,
     TemporaryIsNew, StillThere, ExpectedSeen, SourceElsewhere
<1> QED BY <1>2, <1>3 DEF Advances

LEMMA EndDownloadAdvances ==
  ASSUME FileInv, NEW c \in Calls, EndDownload(c)
  PROVE  Advances(c)
<1>1. PICK text \in {Call[c].text, "other"} : files' = With(Target(c), <<text>>)
  BY DEF EndDownload
<1>2. <<text>> \in Contents /\ <<text>> # Torn
  <2>1. text \in Texts
    BY CallTyped, FileToolsAssumption
  <2> QED BY <2>1, SingleNotTorn
<1>3. Goto(c, "verify") /\ at'[c] = "verify"
  BY DEF EndDownload, Goto, FileInv, FilesTypeOK
<1>4. /\ FilesTypeOK' /\ StepOf(c) /\ TornByCopyOnly'
      /\ Puts(Tmp(c), <<text>>, {})
  BY <1>1, <1>2, <1>3, PutTemporary DEF EndDownload, Awaiting, Over
<1>5. CallInv(c)'
  BY <1>2, <1>3, <1>4 DEF EndDownload, FileInv, CallInv, InPlace, TemporaryIsWhole,
     TemporaryIsNew, StillThere, ExpectedSeen, SourceElsewhere, Puts, Tmp
<1> QED BY <1>4, <1>5 DEF Advances

LEMMA DropTemporaryAdvances ==
  ASSUME FileInv, NEW c \in Calls, Turn(c), at[c] \in {"download", "verify"}, DropTemporary(c)
  PROVE  Advances(c)
<1>1. Drops(Tmp(c)) /\ Tmp(c) \in OwnNames(c)
  BY WithoutDrops DEF DropTemporary, Target, OwnNames
<1>2. FilesTypeOK' /\ StepOf(c)
  BY <1>1, DropStep DEF DropTemporary, Over
<1>3. \A p \in Paths : Same(p)
  BY <1>1, NamesApart DEF Drops, Same
<1>4. TornByCopyOnly'
  BY <1>2, <1>3, TemporaryStep
<1>5. CallInv(c)'
  BY DEF DropTemporary, Goto, FileInv, FilesTypeOK, CallInv, InPlace, TemporaryIsWhole,
     TemporaryIsNew, StillThere, ExpectedSeen, SourceElsewhere
<1> QED BY <1>2, <1>4, <1>5 DEF Advances

LEMMA VerifyAdvances ==
  ASSUME FileInv, NEW c \in Calls, Verify(c)
  PROVE  Advances(c)
<1>1. CASE Corrupt(c)
  BY <1>1, DropTemporaryAdvances DEF Verify
<1>2. CASE ~Corrupt(c)
  <2>1. at'[c] = "rename" /\ seen' = seen /\ files' = files /\ overtaken' = overtaken
    BY <1>2 DEF Verify, SameHistory, Goto, FileInv, FilesTypeOK
  <2>2. FilesTypeOK' /\ StepOf(c) /\ TornByCopyOnly'
    BY <1>2, IdleStep DEF Verify, SameHistory, Over, Inside, FileInv, FilesTypeOK
  <2>3. Call[c].tool = "file_import"
    BY DEF Verify, FileInv, CallInv, InPlace
  <2>4. (TemporaryIsWhole(c) /\ TemporaryIsNew(c))'
    BY <1>2, <2>1, <2>3 DEF Verify, Corrupt, Target, FileInv, CallInv, TemporaryIsWhole,
       TemporaryIsNew, Tmp
  <2>5. (InPlace(c) /\ StillThere(c) /\ ExpectedSeen(c) /\ SourceElsewhere(c))'
    BY <2>1, <2>3 DEF InPlace, StillThere, ExpectedSeen, SourceElsewhere
  <2> QED BY <2>2, <2>4, <2>5 DEF Advances, CallInv
<1> QED BY <1>1, <1>2

\* Removing a file of the user's.
LEMMA DropPathStep ==
  ASSUME FileInv, NEW c \in Calls, at[c] \in Inside, at[c] # "copy",
         NEW place \in {"none"} \cup Awaiting \cup Inside \cup Over, Goto(c, place),
         NEW p \in Paths, files' = Without(p),
         UNCHANGED <<recorded, seen>>, SameHistory
  PROVE  FilesTypeOK' /\ StepOf(c) /\ TornByCopyOnly'
<1>1. Drops(p) /\ p \in OwnNames(c) /\ at[c] \notin Over
  BY WithoutDrops DEF OwnNames, Inside, Over
<1>2. FilesTypeOK' /\ StepOf(c)
  BY <1>1, DropStep
<1>3. TornByCopyOnly'
  BY <1>1, <1>2, WholeStays DEF Drops
<1> QED BY <1>2, <1>3

\* Putting content at a path.
LEMMA PutPathStep ==
  ASSUME FileInv, NEW c \in Calls, at[c] \in Inside,
         NEW place \in {"none"} \cup Awaiting \cup Inside \cup Over, Goto(c, place),
         NEW p \in Paths \cup {Trash(c)}, NEW gone \in SUBSET Paths,
         NEW content \in Contents, Puts(p, content, gone),
         UNCHANGED <<recorded, seen>>, SameHistory
  PROVE  FilesTypeOK' /\ StepOf(c)
<1>1. gone \cup {p} \subseteq OwnNames(c) /\ p \in FileNames /\ at[c] \notin Over
  BY CallTyped DEF OwnNames, FileNames, Inside, Over
<1> QED BY <1>1, PutStep

LEMMA LeavesTemporary ==
  ASSUME NEW c \in Calls,
         at'[c] \in {"move", "done", "record"}
  PROVE  CallInv(c)'
  BY DEF CallInv, InPlace, TemporaryIsWhole, TemporaryIsNew, StillThere, ExpectedSeen,
     SourceElsewhere

\* What the destination held goes; a copy's source stays.
LEMMA ClearAdvances ==
  ASSUME FileInv, NEW c \in Calls, ClearCopy(c) \/ RemoveDestination(c)
  PROVE  Advances(c)
<1>1. at[c] \in Inside /\ at[c] # "copy" /\ at[c] \notin Over
  BY DEF ClearCopy, RemoveDestination, Inside, Over
<1>2. CASE Fails(c)
  BY <1>1, <1>2, FailsAdvances
<1>3. CASE ~Fails(c)
  <2>1. PICK next \in {"open", "move"} :
          /\ Clear(c, next) /\ at[c] = IF next = "open" THEN "clear" ELSE "remove"
          /\ next = "open" => Call[c].path \in DOMAIN files /\ Call[c].path # Call[c].destination
    BY <1>3 DEF ClearCopy, RemoveDestination
  <2>2. next \in Inside /\ (next = "open" => Call[c].tool = "fs_copy")
    BY <2>1 DEF Inside, FileInv, CallInv, InPlace
  <2>3. /\ Goto(c, next) /\ UNCHANGED <<recorded, seen>> /\ SameHistory
        /\ files' = files \/ files' = Without(Call[c].destination)
    BY <1>3, <2>1 DEF Clear
  <2>4. at'[c] = next
    BY <2>3 DEF Goto, FileInv, FilesTypeOK
  <2>5. FilesTypeOK' /\ StepOf(c) /\ TornByCopyOnly'
    <3>1. CASE files' = files
      BY <1>1, <2>2, <2>3, <3>1, IdleStep DEF FileInv, FilesTypeOK
    <3>2. CASE files' = Without(Call[c].destination)
      BY <1>1, <2>2, <2>3, <3>2, CallTyped, DropPathStep
    <3> QED BY <2>3, <3>1, <3>2
  <2>6. next = "open" => Call[c].path \in DOMAIN files'
    BY <2>1, <2>3, WithoutDrops DEF Drops
  <2>7. CallInv(c)'
    BY <2>1, <2>2, <2>4, <2>6 DEF CallInv, InPlace, TemporaryIsWhole, TemporaryIsNew,
       StillThere, ExpectedSeen, SourceElsewhere
  <2> QED BY <2>5, <2>7 DEF Advances
<1> QED BY <1>2, <1>3

LEMMA OpenCopyAdvances ==
  ASSUME FileInv, NEW c \in Calls, OpenCopy(c)
  PROVE  Advances(c)
<1>1. /\ at'[c] = "copy" /\ at[c] = "open" /\ Goto(c, "copy")
      /\ UNCHANGED <<recorded, seen>> /\ SameHistory
  BY DEF OpenCopy, Goto, FileInv, FilesTypeOK
<1>2. Puts(Call[c].destination, Torn, {})
  BY WithPuts DEF OpenCopy
<1>3. FilesTypeOK' /\ StepOf(c)
  BY <1>1, <1>2, TornTyped, CallTyped, PutPathStep DEF Inside
<1>4. CallInv(c)'
  <2>1. /\ Call[c].path \in DOMAIN files /\ Call[c].path # Call[c].destination
        /\ Call[c].tool = "fs_copy"
    BY <1>1 DEF FileInv, CallInv, InPlace, SourceElsewhere
  <2> QED BY <1>1, <1>2, <2>1 DEF CallInv, InPlace, TemporaryIsWhole, TemporaryIsNew,
       StillThere, ExpectedSeen, SourceElsewhere, Puts
<1>5. TornByCopyOnly'
  <2> SUFFICES ASSUME ~CopyLeftHalf', NEW p \in Paths, p \in DOMAIN files', files'[p] = Torn
               PROVE  \E d \in Calls : at'[d] = "copy" /\ Call[d].destination = p
    BY DEF TornByCopyOnly
  <2>1. ~CopyLeftHalf
    BY <1>3 DEF CopyLeftHalf, StepOf, Goto, Over, FileInv, FilesTypeOK
  <2>2. \A d \in Calls : at[d] # "copy"
    BY <1>1, <1>3 DEF StepOf, Inside
  <2>3. p \in DOMAIN files => files[p] # Torn
    BY <2>1, <2>2 DEF FileInv, TornByCopyOnly
  <2>4. p = Call[c].destination
    BY <1>2, <2>3 DEF Puts
  <2> QED BY <1>1, <2>4
<1> QED BY <1>3, <1>4, <1>5 DEF Advances

LEMMA FillCopyAdvances ==
  ASSUME FileInv, NEW c \in Calls, FillCopy(c)
  PROVE  Advances(c)
<1>1. /\ at[c] = "copy" /\ Call[c].path \in DOMAIN files
      /\ Call[c].path # Call[c].destination
      /\ files[Call[c].path] \in Contents
  BY DEF FillCopy, FileInv, CallInv, SourceElsewhere, FilesTypeOK
<1>2. at'[c] = "done"
  BY DEF FillCopy, Goto, FileInv, FilesTypeOK
<1>3. Puts(Call[c].destination, files[Call[c].path], {})
  BY WithPuts DEF FillCopy
<1>4. {} \in SUBSET Paths
  OBVIOUS
<1>5. FilesTypeOK' /\ StepOf(c)
  BY <1>1, <1>3, <1>4, CallTyped, PutPathStep DEF FillCopy, Inside, Over
<1>6. CallInv(c)'
  BY <1>2, LeavesTemporary
<1>7. TornByCopyOnly'
  <2> SUFFICES ASSUME ~CopyLeftHalf', NEW p \in Paths, p \in DOMAIN files', files'[p] = Torn
               PROVE  FALSE
    BY DEF TornByCopyOnly
  <2>1. ~CopyLeftHalf
    BY <1>5 DEF CopyLeftHalf, StepOf, Goto, Over, FileInv, FilesTypeOK
  <2>2. \A d \in Calls : at[d] = "copy" => d = c
    BY <1>5 DEF StepOf, Inside
  <2>3. \A q \in Paths \cap DOMAIN files : files[q] = Torn => q = Call[c].destination
    BY <2>1, <2>2 DEF FileInv, TornByCopyOnly
  <2>4. files[Call[c].path] # Torn
    BY <1>1, <2>3, CallTyped
  <2> QED BY <1>3, <2>3, <2>4 DEF Puts
<1> QED BY <1>5, <1>6, <1>7 DEF Advances

LEMMA MoveAdvances ==
  ASSUME FileInv, NEW c \in Calls, Move(c) \/ MoveToTrash(c)
  PROVE  Advances(c)
<1> DEFINE path == Call[c].path
<1>1. PICK to \in Paths \cup {Trash(c)}, next \in {"done", "record"} : MoveTo(c, to, next)
  BY CallTyped DEF Move, MoveToTrash
<1>2. at[c] \in Inside /\ at[c] # "copy" /\ at[c] \notin Over
  BY DEF Move, MoveToTrash, Inside, Over
<1>3. CASE Fails(c)
  BY <1>2, <1>3, FailsAdvances
<1>4. CASE ~Fails(c)
  <2>1. /\ path \in DOMAIN files
        /\ files' = Restrict(With(to, files[path]), (DOMAIN files \ {path}) \cup {to})
        /\ Goto(c, next) /\ UNCHANGED <<recorded, seen>> /\ SameHistory
    BY <1>1, <1>4 DEF MoveTo
  <2>2. at'[c] = next
    BY <2>1 DEF Goto, FileInv, FilesTypeOK
  <2>3. Puts(to, files[path], {path}) /\ files[path] \in Contents
    BY <2>1, MovePuts DEF FileInv, FilesTypeOK
  <2>4. {path} \in SUBSET Paths
    BY CallTyped
  <2>5. next \in Inside \cup Over
    BY DEF Inside, Over
  <2>6. FilesTypeOK' /\ StepOf(c)
    BY <1>2, <2>1, <2>3, <2>4, <2>5, PutPathStep
  <2>7. TornByCopyOnly'
    BY <1>2, <2>1, <2>3, <2>6, WholeStays, CallTyped DEF Puts
  <2>8. CallInv(c)'
    BY <2>2, LeavesTemporary
  <2> QED BY <2>6, <2>7, <2>8 DEF Advances
<1> QED BY <1>3, <1>4

LEMMA EraseAdvances ==
  ASSUME FileInv, NEW c \in Calls, Erase(c)
  PROVE  Advances(c)
<1>1. at[c] \in Inside /\ at[c] # "copy" /\ at[c] \notin Over
  BY DEF Erase, Inside, Over
<1>2. CASE Fails(c)
  BY <1>1, <1>2, FailsAdvances
<1>3. CASE ~Fails(c)
  <2>1. /\ files' = Without(Call[c].path) /\ Goto(c, "done")
        /\ UNCHANGED <<recorded, seen>> /\ SameHistory
    BY <1>3 DEF Erase
  <2>2. at'[c] = "done"
    BY <2>1 DEF Goto, FileInv, FilesTypeOK
  <2>3. FilesTypeOK' /\ StepOf(c) /\ TornByCopyOnly'
    BY <1>1, <2>1, CallTyped, DropPathStep DEF Over
  <2> QED BY <2>2, <2>3, LeavesTemporary DEF Advances
<1> QED BY <1>2, <1>3

LEMMA RecordAdvances ==
  ASSUME FileInv, NEW c \in Calls, RecordTrash(c)
  PROVE  Advances(c)
<1>1. at[c] \in Inside /\ at[c] # "copy" /\ at[c] \notin Over
  BY DEF RecordTrash, Inside, Over
<1>2. at'[c] = "done"
  BY DEF RecordTrash, Goto, FileInv, FilesTypeOK
<1>3. FilesTypeOK' /\ StepOf(c) /\ TornByCopyOnly'
  BY <1>1, IdleStep DEF RecordTrash, SameHistory, Over, FileInv, FilesTypeOK
<1> QED BY <1>2, <1>3, LeavesTemporary DEF Advances

\* Another program changes a file, not one of the worker's.
LEMMA EditKeeps ==
  ASSUME FileInv, NEW p \in Paths, Edit(p)
  PROVE  FileInv'
<1> DEFINE before == IF p \in DOMAIN files THEN files[p] ELSE NoText
<1>1. before \in Contents
  BY DEF FileInv, FilesTypeOK, NoText, Contents
<1>2. Append(before, "user") \in Contents /\ Append(before, "user") # Torn
  BY <1>1, AppendNotTorn, FileToolsAssumption
<1>3. Puts(p, Append(before, "user"), {})
  BY WithPuts DEF Edit
<1> HIDE DEF before
<1>4. FilesTyped' /\ p \in FileNames
  BY <1>2, <1>3, PutsTyped DEF FileInv, FilesTypeOK, FilesTyped, FileNames
<1>5. /\ at' = at /\ seen' = seen /\ recorded' = recorded /\ died' = died
      /\ overtaken' = overtaken \cup Writers(p) /\ edits < MaxEdits /\ edits' = edits + 1
  BY DEF Edit
<1>6. edits' \in 0..MaxEdits
  BY <1>5, FileToolsAssumption DEF FileInv, FilesTypeOK
<1>7. FilesTypeOK'
  BY <1>4, <1>5, <1>6 DEF FileInv, FilesTypeOK, FilesTyped, FileNames, Writers, Tmp, Trash
<1>8. ASSUME NEW c \in Calls PROVE CallInv(c)'
  <2>1. CallInv(c) /\ Same(Tmp(c))
    BY <1>3, NamesApart DEF FileInv, Puts, Same
  <2>2. at[c] \in {"open", "copy"} => Call[c].path \in DOMAIN files'
    BY <1>3, <2>1 DEF CallInv, SourceElsewhere, Puts
  <2>3. (InPlace(c) /\ ExpectedSeen(c) /\ SourceElsewhere(c))'
    BY <1>5, <2>1, <2>2 DEF CallInv, InPlace, ExpectedSeen, SourceElsewhere
  <2>4. (TemporaryIsWhole(c) /\ TemporaryIsNew(c))'
    BY <1>5, <2>1 DEF CallInv, TemporaryIsWhole, TemporaryIsNew, Same, Tmp
  <2>5. StillThere(c)'
    <3>1. \/ Call[c].path = p /\ c \in Writers(p)
          \/ Same(Call[c].path)
          \/ at[c] \notin {"write", "fill", "rename"}
      BY <1>3 DEF Writers, Puts, Same
    <3> QED BY <1>5, <2>1, <3>1 DEF CallInv, StillThere, Same
  <2> QED BY <2>3, <2>4, <2>5 DEF CallInv
<1>9. TornByCopyOnly'
  BY <1>2, <1>3, <1>5 DEF FileInv, TornByCopyOnly, CopyLeftHalf, Puts
<1>10. OneInside'
  BY <1>5 DEF FileInv, OneInside
<1> QED BY <1>7, <1>8, <1>9, <1>10 DEF FileInv

\* The worker dies: its handlers are lost, wherever they were.
LEMMA DieKeeps ==
  ASSUME FileInv, Die
  PROVE  FileInv'
<1>1. \A c \in Calls : at'[c] = IF at[c] \in Awaiting \cup Inside THEN "lost" ELSE at[c]
  BY DEF Die
<1>2. \A c \in Calls : at'[c] \notin Awaiting \cup Inside
  BY <1>1 DEF Awaiting, Inside
<1>3. FilesTypeOK'
  BY DEF Die, FileInv, FilesTypeOK, Over, Tmp, Trash
<1>4. OneInside'
  BY <1>2 DEF OneInside
<1>5. \A c \in Calls : CallInv(c)'
  BY <1>2 DEF CallInv, InPlace, TemporaryIsWhole, TemporaryIsNew, StillThere, ExpectedSeen,
     SourceElsewhere, Awaiting, Inside
<1>6. CopyLeftHalf => CopyLeftHalf'
  BY <1>1 DEF CopyLeftHalf
<1>7. \A c \in Calls : at[c] = "copy" => CopyLeftHalf'
  BY <1>1 DEF CopyLeftHalf, Inside, FileInv, CallInv, InPlace
<1>8. TornByCopyOnly'
  BY <1>6, <1>7 DEF Die, TornByCopyOnly, FileInv
<1> QED BY <1>3, <1>4, <1>5, <1>8 DEF FileInv

LEMMA FileInvInit == Init => FileInv
<1> SUFFICES ASSUME Init PROVE FileInv
  OBVIOUS
<1>1. FilesTypeOK
  <2>1. \A s \in Seq(Texts) : s \in Contents
    BY DEF Contents
  <2>2. NoText \in Contents
    BY DEF NoText, Contents
  <2>3. DOMAIN Before \subseteq Paths /\ \A p \in DOMAIN Before : Before[p] \in Contents
    BY <2>1, FileToolsAssumption
  <2>4. 0 \in 0..MaxEdits
    BY FileToolsAssumption
  <2> QED BY <2>2, <2>3, <2>4 DEF Init, FilesTypeOK, Tmp, Trash
<1>2. OneInside /\ \A c \in Calls : CallInv(c)
  BY DEF Init, OneInside, Inside, CallInv, InPlace, TemporaryIsWhole, TemporaryIsNew,
     StillThere, ExpectedSeen, SourceElsewhere
<1>3. \A s \in Seq(Texts) : s # Torn
  <2> SUFFICES ASSUME NEW s \in Seq(Texts), s = Torn PROVE FALSE
    OBVIOUS
  <2>1. Len(s) = 1 /\ s[1] = "torn"
    BY DEF Torn
  <2>2. s[1] \in Texts
    BY <2>1
  <2> QED BY <2>1, <2>2, FileToolsAssumption
<1>4. TornByCopyOnly
  BY <1>3, FileToolsAssumption DEF Init, TornByCopyOnly
<1> QED BY <1>1, <1>2, <1>4 DEF FileInv

LEMMA HandlerAdvances ==
  ASSUME FileInv, NEW c \in Calls,
         \/ Start(c) \/ HashFile(c) \/ CheckWrite(c) \/ CheckReplace(c)
         \/ CreateTemporary(c) \/ FillTemporary(c) \/ RenameTemporary(c) \/ Rehash(c)
         \/ CallThrows(c)
         \/ StartDownload(c) \/ EndDownload(c) \/ DownloadFails(c) \/ Verify(c)
         \/ ClearCopy(c) \/ OpenCopy(c) \/ FillCopy(c) \/ RemoveDestination(c) \/ Move(c)
         \/ Erase(c) \/ MoveToTrash(c) \/ RecordTrash(c)
  PROVE  Advances(c)
<1>1. CASE Start(c)
  BY <1>1, StartAdvances
<1>2. CASE HashFile(c)
  BY <1>2, HashAdvances
<1>3. CASE CheckWrite(c) \/ CheckReplace(c)
  BY <1>3, CheckWriteAdvances, CheckReplaceAdvances
<1>4. CASE CreateTemporary(c) \/ FillTemporary(c) \/ RenameTemporary(c) \/ Rehash(c)
  BY <1>4, CreateAdvances, FillAdvances, RenameAdvances, RehashAdvances
<1>5. CASE CallThrows(c)
  BY <1>5, FailsAdvances DEF CallThrows, Inside, Over
<1>6. CASE StartDownload(c) \/ EndDownload(c)
  BY <1>6, StartDownloadAdvances, EndDownloadAdvances
<1>7. CASE DownloadFails(c)
  BY <1>7, DropTemporaryAdvances DEF DownloadFails
<1>8. CASE Verify(c)
  BY <1>8, VerifyAdvances
<1>9. CASE ClearCopy(c) \/ RemoveDestination(c)
  BY <1>9, ClearAdvances
<1>10. CASE OpenCopy(c) \/ FillCopy(c)
  BY <1>10, OpenCopyAdvances, FillCopyAdvances
<1>11. CASE Move(c) \/ MoveToTrash(c)
  BY <1>11, MoveAdvances
<1>12. CASE Erase(c) \/ RecordTrash(c)
  BY <1>12, EraseAdvances, RecordAdvances
<1> QED BY <1>1, <1>2, <1>3, <1>4, <1>5, <1>6, <1>7, <1>8, <1>9, <1>10, <1>11, <1>12

LEMMA FileInvNext == FileInv /\ [Next]_vars => FileInv'
<1> SUFFICES ASSUME FileInv, [Next]_vars PROVE FileInv'
  OBVIOUS
<1>1. CASE \E c \in Calls : Advances(c)
  BY <1>1, AdvanceKeeps
<1>2. CASE \E p \in Paths : Edit(p)
  BY <1>2, EditKeeps
<1>3. CASE Die
  BY <1>3, DieKeeps
<1>4. CASE UNCHANGED vars
  BY <1>4 DEF vars, FileInv, FilesTypeOK, OneInside, CallInv, InPlace, TemporaryIsWhole,
     TemporaryIsNew, StillThere, ExpectedSeen, SourceElsewhere, TornByCopyOnly, CopyLeftHalf,
     Tmp, Trash
<1> QED BY <1>1, <1>2, <1>3, <1>4, HandlerAdvances DEF Next

-----------------------------------------------------------------------------
(* The theorems *)

\* The files, the handlers and what they saw are what the type invariant says,
\* and the stronger invariant holds: what a handler looked at, what its
\* temporary file holds and which copy left half a file.
THEOREM FilesInvariant == Spec => []FileInv
  BY FileInvInit, FileInvNext, PTL DEF Spec

\* files, at, seen and the histories keep their types (FilesTypeOK).
THEOREM FilesTypeCorrect == Spec => []FilesTypeOK
<1>1. FileInv => FilesTypeOK
  BY DEF FileInv
<1> QED BY <1>1, FilesInvariant, PTL

\* No file is left half written by fs_write, fs_replace, fs_move, fs_delete or
\* file_import, whoever fails, edits or dies between two of their calls
\* (file-tools.ts): only a copy can leave one.
THEOREM OnlyCopiesTear == Spec => []NeverTorn
<1>1. FileInv => NeverTorn
  <2> SUFFICES ASSUME FileInv, ~CopyCutShort PROVE \A p \in Paths \cap DOMAIN files : files[p] # Torn
    BY DEF NeverTorn
  <2>1. ~CopyLeftHalf
    BY DEF CopyCutShort, CopyLeftHalf
  <2>2. \A c \in Calls : at[c] # "copy"
    BY DEF CopyCutShort, FileInv, CallInv, InPlace
  <2> QED BY <2>1, <2>2 DEF FileInv, TornByCopyOnly
<1> QED BY <1>1, FilesInvariant, PTL

\* The rename of the temporary file is the only step that ends a write.
LEMMA RenameEnds ==
  ASSUME FileInv, [Next]_vars, NEW c \in Calls, Renames(c)
  PROVE  RenameTemporary(c)
<1>1. at[c] = "rename" /\ at'[c] \in {"rehash", "done"}
  BY DEF Renames
<1>2. c \in Calls /\ at \in [Calls -> {"none"} \cup Awaiting \cup Inside \cup Over]
  BY DEF FileInv, FilesTypeOK
<1>3. ASSUME NEW d \in Calls, StepOf(d) PROVE d = c
  BY <1>1, <1>2, <1>3 DEF StepOf, Inside
<1>4. ~Die /\ ~(\E p \in Paths : Edit(p)) /\ ~UNCHANGED vars
  BY <1>1 DEF Die, Edit, vars, Inside
<1>5. PICK d \in Calls :
         \/ Start(d) \/ HashFile(d) \/ CheckWrite(d) \/ CheckReplace(d)
         \/ CreateTemporary(d) \/ FillTemporary(d) \/ RenameTemporary(d) \/ Rehash(d)
         \/ CallThrows(d)
         \/ StartDownload(d) \/ EndDownload(d) \/ DownloadFails(d) \/ Verify(d)
         \/ ClearCopy(d) \/ OpenCopy(d) \/ FillCopy(d) \/ RemoveDestination(d) \/ Move(d)
         \/ Erase(d) \/ MoveToTrash(d) \/ RecordTrash(d)
  BY <1>4 DEF Next
<1>6. d = c
  BY <1>3, <1>5, HandlerAdvances DEF Advances
<1>7. ~CallThrows(c)
  BY <1>1, <1>2 DEF CallThrows, Fails, Goto
<1> QED BY <1>1, <1>5, <1>6, <1>7 DEF Start, HashFile, CheckWrite, CheckReplace, CreateTemporary,
     FillTemporary, Rehash, StartDownload, EndDownload, DownloadFails, Verify, ClearCopy, OpenCopy,
     FillCopy, RemoveDestination, Move, Erase, MoveToTrash, RecordTrash

\* fs_replace (file-tools.ts:214-228) adds to whatever is in the file, though
\* other handlers changed it after it was hashed, unless another program does so
\* between read and rename; fs_write (:185-196) has found the expected content.
THEOREM WritesBuildOnTheFile == Spec => BuildsOnTheFile
<1>1. ASSUME FileInv, [Next]_vars
      PROVE  [\A c \in Calls : Renames(c) =>
                /\ Call[c].tool = "fs_replace" /\ c \notin overtaken =>
                     /\ Call[c].path \in DOMAIN files
                     /\ files'[Call[c].path] = Append(files[Call[c].path], Call[c].text)
                /\ Call[c].tool = "fs_write" /\ Call[c].expected # NoText =>
                     seen[c] = Call[c].expected]_vars
  <2> SUFFICES ASSUME NEW c \in Calls, Renames(c)
               PROVE  /\ Call[c].tool = "fs_replace" /\ c \notin overtaken =>
                           /\ Call[c].path \in DOMAIN files
                           /\ files'[Call[c].path] = Append(files[Call[c].path], Call[c].text)
                      /\ Call[c].tool = "fs_write" /\ Call[c].expected # NoText =>
                           seen[c] = Call[c].expected
    OBVIOUS
  <2>1. RenameTemporary(c)
    BY <1>1, RenameEnds
  <2>2. files'[Call[c].path] = files[Tmp(c)]
    BY <1>1, <2>1, RenameAdvances DEF Puts
  <2>3. CallInv(c) /\ at[c] = "rename"
    BY <1>1, <2>1 DEF FileInv, RenameTemporary
  <2> QED BY <2>2, <2>3 DEF CallInv, StillThere, ExpectedSeen, TemporaryIsNew
<1> QED BY <1>1, FilesInvariant, PTL DEF Spec, BuildsOnTheFile

\* file_import puts the file whose sha256 was asked for at its destination, and
\* no other one, whatever came over the wire.
THEOREM ImportsAreTheExpected == Spec => ImportsTheExpected
<1>1. ASSUME FileInv, [Next]_vars
      PROVE  [\A c \in Calls :
                Renames(c) /\ Call[c].tool = "file_import" /\ Call[c].expected # NoText =>
                  files'[Call[c].path] = Call[c].expected]_vars
  <2> SUFFICES ASSUME NEW c \in Calls, Renames(c), Call[c].tool = "file_import",
                      Call[c].expected # NoText
               PROVE  files'[Call[c].path] = Call[c].expected
    OBVIOUS
  <2>1. RenameTemporary(c)
    BY <1>1, RenameEnds
  <2>2. files'[Call[c].path] = files[Tmp(c)]
    BY <1>1, <2>1, RenameAdvances DEF Puts
  <2>3. CallInv(c) /\ at[c] = "rename"
    BY <1>1, <2>1 DEF FileInv, RenameTemporary
  <2> QED BY <2>2, <2>3 DEF CallInv, TemporaryIsNew
<1> QED BY <1>1, FilesInvariant, PTL DEF Spec, ImportsTheExpected
=============================================================================
