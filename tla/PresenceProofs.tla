--------------------------- MODULE PresenceProofs ---------------------------
(***************************************************************************)
(* Theorems about Migrations and WorkerPresence, for any relays, releases  *)
(* and times.                                                              *)
(***************************************************************************)
EXTENDS WorkerPresence, TLAPS

-----------------------------------------------------------------------------
(* Migrations: what the open transaction may hold, and how far a relay is.  *)

Writing(process) == process.at \in {"create", "record", "commit"}
Migrating(process) == process.at = "migrate" \/ Writing(process)

OneWriter ==
  /\ \A p, q \in writer : p = q
  /\ \A p \in Relays : p \in writer <=> Writing(relay[p])

DraftIsNext ==
  \A p \in writer :
    /\ draft.tables = IF relay[p].at = "create" THEN database.tables
                      ELSE database.tables \cup {relay[p].next}
    /\ draft.recorded = IF relay[p].at = "commit" THEN database.recorded \cup {relay[p].next}
                        ELSE database.recorded
    /\ relay[p].at # "create" => relay[p].next \notin database.tables
    /\ relay[p].next <= Newest

Behind ==
  \A p \in Relays :
    /\ relay[p].at = "open" => relay[p].next = 1
    /\ Migrating(relay[p]) =>
         /\ relay[p].seen \subseteq database.recorded
         /\ 1..(relay[p].next - 1) \subseteq database.tables

MigrationInv ==
  /\ MigrationTypeOK
  /\ SchemaIsPrefix
  /\ OneWriter
  /\ DraftIsNext
  /\ Behind
  /\ ServesComplete

LEMMA MigrationInvInit == Init => MigrationInv
BY MigrationsAssumption
   DEF Init, MigrationInv, MigrationTypeOK, SchemaIsPrefix, AtVersion, OneWriter, DraftIsNext,
       Behind, ServesComplete, Empty, Down, Schema, Process, Phases, Versions, Writing, Migrating

LEMMA StartKeeps ==
  ASSUME MigrationInv, NEW p \in Relays, NEW release \in Versions, Start(p, release)
  PROVE  MigrationInv'
<1> USE MigrationsAssumption DEF Start, Down, Schema, Process, Phases, Versions
<1>1. MigrationTypeOK'
  <2>1. relay[p] \in Process /\ relay \in [Relays -> Process]
    BY DEF MigrationInv, MigrationTypeOK
  <2>2. relay'[p] \in Process
    <3>1. relay'[p] = [at |-> "open", release |-> release, seen |-> {}, next |-> 1]
      BY <2>1 DEF MigrationInv, MigrationTypeOK
    <3> QED
      BY <3>1
  <2>3. relay' \in [Relays -> Process]
    BY <2>1, <2>2
  <2> QED
    BY <2>3 DEF MigrationInv, MigrationTypeOK
<1>2. SchemaIsPrefix'
  BY DEF MigrationInv, AtVersion, MigrationTypeOK, OneWriter, SchemaIsPrefix, Writing
<1>3. OneWriter'
  BY DEF MigrationInv, MigrationTypeOK, OneWriter, Writing
<1>4. DraftIsNext'
  BY DEF MigrationInv, DraftIsNext, MigrationTypeOK, OneWriter, Writing
<1>5. Behind'
  BY DEF MigrationInv, Behind, Migrating, MigrationTypeOK, OneWriter, Writing
<1>6. ServesComplete'
  BY DEF MigrationInv, MigrationTypeOK, OneWriter, ServesComplete, Writing
<1> QED
  BY <1>1, <1>2, <1>3, <1>4, <1>5, <1>6 DEF MigrationInv

LEMMA ReadAppliedKeeps ==
  ASSUME MigrationInv, NEW p \in Relays, ReadApplied(p)
  PROVE  MigrationInv'
<1> USE MigrationsAssumption DEF ReadApplied, Down, Schema, Process, Phases, Versions
<1>1. MigrationTypeOK'
  <2>1. relay[p] \in Process /\ relay \in [Relays -> Process]
    BY DEF MigrationInv, MigrationTypeOK
  <2>2. relay'[p] \in Process
    <3>1. Down \in Process
      OBVIOUS
    <3>2. [relay[p] EXCEPT !.at = "migrate", !.seen = database.recorded] \in Process
      BY <2>1 DEF MigrationInv, MigrationTypeOK
    <3> QED
      BY <2>1, <3>1, <3>2
  <2>3. relay' \in [Relays -> Process]
    BY <2>1, <2>2
  <2> QED
    BY <2>3 DEF MigrationInv, MigrationTypeOK
<1>2. SchemaIsPrefix'
  BY DEF MigrationInv, AtVersion, MigrationTypeOK, OneWriter, SchemaIsPrefix, Writing
<1>3. OneWriter'
  BY DEF MigrationInv, MigrationTypeOK, OneWriter, Writing
<1>4. DraftIsNext'
  BY DEF MigrationInv, DraftIsNext, MigrationTypeOK, OneWriter, Writing
<1>5. Behind'
  BY DEF MigrationInv, Behind, Migrating, MigrationTypeOK, OneWriter, Writing, SchemaIsPrefix, AtVersion
<1>6. ServesComplete'
  BY DEF MigrationInv, MigrationTypeOK, OneWriter, ServesComplete, Writing
<1> QED
  BY <1>1, <1>2, <1>3, <1>4, <1>5, <1>6 DEF MigrationInv

LEMMA SkipKeeps ==
  ASSUME MigrationInv, NEW p \in Relays, Skip(p)
  PROVE  MigrationInv'
<1> USE MigrationsAssumption DEF Skip, Schema, Process, Phases, Versions
<1>1. MigrationTypeOK'
  BY DEF MigrationInv, MigrationTypeOK, OneWriter, Phases, Process, Schema, Versions, Writing
<1>2. SchemaIsPrefix'
  BY DEF MigrationInv, AtVersion, MigrationTypeOK, OneWriter, SchemaIsPrefix, Writing
<1>3. OneWriter'
  BY DEF MigrationInv, MigrationTypeOK, OneWriter, Writing
<1>4. DraftIsNext'
  BY DEF MigrationInv, DraftIsNext, MigrationTypeOK, OneWriter, Writing
<1>5. Behind'
  BY DEF MigrationInv, Behind, Migrating, MigrationTypeOK, OneWriter, Writing, SchemaIsPrefix, AtVersion
<1>6. ServesComplete'
  BY DEF MigrationInv, MigrationTypeOK, OneWriter, ServesComplete, Writing
<1> QED
  BY <1>1, <1>2, <1>3, <1>4, <1>5, <1>6 DEF MigrationInv

LEMMA BeginKeeps ==
  ASSUME MigrationInv, NEW p \in Relays, BeginImmediate(p)
  PROVE  MigrationInv'
<1> USE MigrationsAssumption DEF BeginImmediate, Goes, Schema, Process, Phases, Versions
<1>1. MigrationTypeOK'
  BY DEF MigrationInv, MigrationTypeOK, OneWriter, Phases, Process, Schema, Versions, Writing
<1>2. SchemaIsPrefix'
  BY DEF MigrationInv, AtVersion, MigrationTypeOK, OneWriter, SchemaIsPrefix, Writing
<1>3. OneWriter'
  BY DEF MigrationInv, MigrationTypeOK, OneWriter, Writing
<1>4. DraftIsNext'
  BY DEF MigrationInv, DraftIsNext, MigrationTypeOK, OneWriter, Writing
<1>5. Behind'
  BY DEF MigrationInv, Behind, Migrating, MigrationTypeOK, OneWriter, Writing
<1>6. ServesComplete'
  BY DEF MigrationInv, MigrationTypeOK, OneWriter, ServesComplete, Writing
<1> QED
  BY <1>1, <1>2, <1>3, <1>4, <1>5, <1>6 DEF MigrationInv

LEMMA ExecSqlKeeps ==
  ASSUME MigrationInv, NEW p \in Relays, ExecSql(p)
  PROVE  MigrationInv'
<1> USE MigrationsAssumption DEF ExecSql, Writes, Goes, Schema, Process, Phases, Versions
<1>1. MigrationTypeOK'
  <2>1. relay[p] \in Process /\ relay \in [Relays -> Process]
    BY DEF MigrationInv, MigrationTypeOK
  <2>2. relay'[p] \in Process
    BY <2>1 DEF MigrationInv, MigrationTypeOK
  <2>3. relay' \in [Relays -> Process]
    BY <2>1, <2>2
  <2>4. relay[p].next \in Versions
    BY <2>1 DEF MigrationInv, MigrationTypeOK, OneWriter, Writing, DraftIsNext
  <2>5. draft' \in Schema /\ UNCHANGED <<database, writer, starts>>
    BY <2>4 DEF MigrationInv, MigrationTypeOK
  <2> QED
    BY <2>3, <2>5 DEF MigrationInv, MigrationTypeOK
<1>2. SchemaIsPrefix'
  BY DEF MigrationInv, AtVersion, MigrationTypeOK, OneWriter, SchemaIsPrefix, Writing
<1>3. OneWriter'
  BY DEF MigrationInv, MigrationTypeOK, OneWriter, Writing
<1>4. DraftIsNext'
  BY DEF MigrationInv, DraftIsNext, MigrationTypeOK, OneWriter, Writing
<1>5. Behind'
  BY DEF MigrationInv, Behind, Migrating, MigrationTypeOK, OneWriter, Writing
<1>6. ServesComplete'
  BY DEF MigrationInv, MigrationTypeOK, OneWriter, ServesComplete, Writing
<1> QED
  BY <1>1, <1>2, <1>3, <1>4, <1>5, <1>6 DEF MigrationInv

LEMMA InsertKeeps ==
  ASSUME MigrationInv, NEW p \in Relays, InsertVersion(p)
  PROVE  MigrationInv'
<1> USE MigrationsAssumption DEF InsertVersion, Writes, Goes, Schema, Process, Phases, Versions
<1>1. MigrationTypeOK'
  <2>1. relay[p] \in Process /\ relay \in [Relays -> Process]
    BY DEF MigrationInv, MigrationTypeOK
  <2>2. relay'[p] \in Process
    BY <2>1 DEF MigrationInv, MigrationTypeOK
  <2>3. relay' \in [Relays -> Process]
    BY <2>1, <2>2
  <2>4. relay[p].next \in Versions
    BY <2>1 DEF MigrationInv, MigrationTypeOK, OneWriter, Writing, DraftIsNext
  <2>5. draft' \in Schema /\ UNCHANGED <<database, writer, starts>>
    BY <2>4 DEF MigrationInv, MigrationTypeOK
  <2> QED
    BY <2>3, <2>5 DEF MigrationInv, MigrationTypeOK
<1>2. SchemaIsPrefix'
  BY DEF MigrationInv, AtVersion, MigrationTypeOK, OneWriter, SchemaIsPrefix, Writing
<1>3. OneWriter'
  BY DEF MigrationInv, MigrationTypeOK, OneWriter, Writing
<1>4. DraftIsNext'
  BY DEF MigrationInv, DraftIsNext, MigrationTypeOK, OneWriter, Writing
<1>5. Behind'
  BY DEF MigrationInv, Behind, Migrating, MigrationTypeOK, OneWriter, Writing
<1>6. ServesComplete'
  BY DEF MigrationInv, MigrationTypeOK, OneWriter, ServesComplete, Writing
<1> QED
  BY <1>1, <1>2, <1>3, <1>4, <1>5, <1>6 DEF MigrationInv

LEMMA CommitKeeps ==
  ASSUME MigrationInv, NEW p \in Relays, Commit(p)
  PROVE  MigrationInv'
<1> USE MigrationsAssumption DEF Commit, Schema, Process, Phases, Versions
<1>1. MigrationTypeOK'
  BY DEF MigrationInv, MigrationTypeOK, OneWriter, Phases, Process, Schema, Versions, Writing
<1>2. SchemaIsPrefix'
  BY DEF MigrationInv, AtVersion, MigrationTypeOK, OneWriter, SchemaIsPrefix, Writing
<1>3. OneWriter'
  BY DEF MigrationInv, MigrationTypeOK, OneWriter, Writing
<1>4. DraftIsNext'
  BY DEF MigrationInv, DraftIsNext, MigrationTypeOK, OneWriter, Writing
<1>5. Behind'
  BY DEF MigrationInv, Behind, Migrating, MigrationTypeOK, OneWriter, Writing
<1>6. ServesComplete'
  BY DEF MigrationInv, MigrationTypeOK, OneWriter, ServesComplete, Writing
<1> QED
  BY <1>1, <1>2, <1>3, <1>4, <1>5, <1>6 DEF MigrationInv

LEMMA ReadyKeeps ==
  ASSUME MigrationInv, NEW p \in Relays, Ready(p)
  PROVE  MigrationInv'
<1> USE MigrationsAssumption DEF Ready, Goes, Schema, Process, Phases, Versions
<1>1. MigrationTypeOK'
  BY DEF MigrationInv, MigrationTypeOK, OneWriter, Phases, Process, Schema, Versions, Writing
<1>2. SchemaIsPrefix'
  BY DEF MigrationInv, AtVersion, MigrationTypeOK, OneWriter, SchemaIsPrefix, Writing
<1>3. OneWriter'
  BY DEF MigrationInv, MigrationTypeOK, OneWriter, Writing
<1>4. DraftIsNext'
  BY DEF MigrationInv, DraftIsNext, MigrationTypeOK, OneWriter, Writing
<1>5. Behind'
  BY DEF MigrationInv, Behind, Migrating, MigrationTypeOK, OneWriter, Writing
<1>6. ServesComplete'
  BY DEF MigrationInv, MigrationTypeOK, ServesComplete, Behind, Migrating, Writing
<1> QED
  BY <1>1, <1>2, <1>3, <1>4, <1>5, <1>6 DEF MigrationInv

LEMMA DiesKeeps ==
  ASSUME MigrationInv, NEW p \in Relays, Dies(p)
  PROVE  MigrationInv'
<1> USE MigrationsAssumption DEF Dies, Abandoned, Down, Schema, Process, Phases, Versions
<1>1. MigrationTypeOK'
  BY DEF MigrationInv, MigrationTypeOK, OneWriter, Phases, Process, Schema, Versions, Writing
<1>2. SchemaIsPrefix'
  BY DEF MigrationInv, AtVersion, MigrationTypeOK, OneWriter, SchemaIsPrefix, Writing
<1>3. OneWriter'
  BY DEF MigrationInv, MigrationTypeOK, OneWriter, Writing
<1>4. DraftIsNext'
  BY DEF MigrationInv, DraftIsNext, MigrationTypeOK, OneWriter, Writing
<1>5. Behind'
  BY DEF MigrationInv, Behind, Migrating, MigrationTypeOK, OneWriter, Writing
<1>6. ServesComplete'
  BY DEF MigrationInv, MigrationTypeOK, OneWriter, ServesComplete, Writing
<1> QED
  BY <1>1, <1>2, <1>3, <1>4, <1>5, <1>6 DEF MigrationInv

LEMMA MigrationStutters ==
  ASSUME MigrationInv, UNCHANGED migrationVars
  PROVE  MigrationInv'
BY DEF MigrationInv, migrationVars, MigrationTypeOK, SchemaIsPrefix, AtVersion, OneWriter,
       DraftIsNext, Behind, ServesComplete

LEMMA NextKeepsMigrations ==
  ASSUME MigrationInv, [Next]_migrationVars
  PROVE  MigrationInv'
<1>1. CASE UNCHANGED migrationVars
  BY <1>1, MigrationStutters
<1>2. ASSUME NEW p \in Relays, NEW release \in Versions, Start(p, release)
      PROVE  MigrationInv'
  BY <1>2, StartKeeps
<1>3. ASSUME NEW p \in Relays, Migrate(p)
      PROVE  MigrationInv'
  BY <1>3, ReadAppliedKeeps, SkipKeeps, BeginKeeps, ExecSqlKeeps, InsertKeeps, CommitKeeps,
     ReadyKeeps DEF Migrate
<1>4. ASSUME NEW p \in Relays, Dies(p)
      PROVE  MigrationInv'
  BY <1>4, DiesKeeps
<1> QED
  BY <1>1, <1>2, <1>3, <1>4 DEF Next

\* Whatever dies, fails or runs beside, the database holds the tables of the
\* first n migrations, records exactly these, and a relay that serves finds
\* all its release knows (migrateRelayDatabase).
THEOREM SchemaWhole == Spec => [](SchemaIsPrefix /\ ServesComplete)
<1>1. MigrationInv => SchemaIsPrefix /\ ServesComplete
  BY DEF MigrationInv
<1>2. MigrationInv /\ [Next]_migrationVars => MigrationInv'
  BY NextKeepsMigrations
<1> QED
  BY <1>1, <1>2, MigrationInvInit, PTL DEF Spec

-----------------------------------------------------------------------------
(* The worker's silence *)

\* What is left of the budget when the worker is between two requests.
Between ==
  IF beatIn > 0
  THEN Latency + HeartbeatEvery - beatIn
  ELSE Latency + HeartbeatEvery + (PollWait + Latency)

\* The silence the relay may count beyond the excuse.
Allowance ==
  CASE worker.at = "beating" /\ worker.reached ->
         IF worker.doomed THEN 0 ELSE worker.elapsed
    [] worker.at = "beating" /\ ~worker.reached ->
         Latency + HeartbeatEvery + (PollWait + Latency)
           + (IF worker.doomed THEN 0 ELSE worker.elapsed)
    [] worker.at = "polling" /\ ~worker.doomed /\ beatIn = 0 ->
         Latency + HeartbeatEvery + worker.elapsed
    [] OTHER -> Between

Accounted == known => silence <= excuse + Allowance

Punctual ==
  /\ worker.doomed => worker.at \in Requests
  /\ worker.at \notin Requests \cup {"waiting"} => worker.elapsed = 0
  /\ worker.at = "beating" => beatIn = 0
  /\ worker.at = "beating" /\ ~worker.doomed => worker.elapsed <= Latency
  /\ worker.at = "polling" /\ ~worker.doomed => worker.elapsed <= PollWait + Latency

PresenceInv ==
  /\ MigrationInv
  /\ PresenceTypeOK
  /\ Punctual
  /\ Accounted

LEMMA TimesAreNumbers ==
  /\ HeartbeatEvery \in Nat \ {0}
  /\ PollWait \in Nat
  /\ Latency \in Nat
  /\ FetchTimeout \in Nat
  /\ Jitter \in Nat
  /\ OfflineAfter \in Nat
  /\ MaxFaults \in Nat
  /\ Cap \in Nat
BY PresenceAssumption DEF Times, Cap

LEMMA AtTyped ==
  ASSUME NEW place \in Requests \cup Busy \cup {"loop"}, NEW failures \in 0..6
  PROVE  /\ At(place, failures) \in LoopState
         /\ \A doomed \in BOOLEAN :
              [At(place, failures) EXCEPT !.doomed = doomed] \in LoopState
BY DEF At, LoopState

LEMMA BetweenBounds ==
  ASSUME PresenceTypeOK
  PROVE  /\ Between \in Nat
         /\ Between <= Latency + HeartbeatEvery + (PollWait + Latency)
         /\ beatIn = 0 => Between = Latency + HeartbeatEvery + (PollWait + Latency)
BY TimesAreNumbers DEF PresenceTypeOK, Between

LEMMA PresenceInvInit == PresenceInit => PresenceInv
<1> SUFFICES ASSUME PresenceInit PROVE PresenceInv
  OBVIOUS
<1>1. MigrationInv
  BY MigrationInvInit DEF PresenceInit
<1>2. PresenceTypeOK
  <2>1. worker \in LoopState
    BY AtTyped DEF PresenceInit
  <2>2. MigrationTypeOK
    BY <1>1 DEF MigrationInv
  <2>3. known \in BOOLEAN
    BY DEF PresenceInit
  <2>4. beatIn = 0 /\ silence = 0 /\ excuse = 0 /\ faults = 0
    BY DEF PresenceInit
  <2> QED
    BY <2>1, <2>2, <2>3, <2>4, TimesAreNumbers DEF PresenceTypeOK
<1>3. Punctual /\ Accounted
  BY TimesAreNumbers DEF PresenceInit, Punctual, Accounted, At, Requests
<1> QED
  BY <1>1, <1>2, <1>3 DEF PresenceInv

LEMMA SendHeartbeatAccounts ==
  ASSUME PresenceInv, NEW doomed \in BOOLEAN, SendHeartbeat(doomed), MigrationInv'
  PROVE  PresenceInv'
<1> USE TimesAreNumbers DEF SendHeartbeat, Send, Fault, At, Upto, Requests, Busy
<1>1. PresenceTypeOK'
  <2>1. worker.failures \in 0..6
    BY DEF PresenceInv, PresenceTypeOK, LoopState
  <2>2. worker' \in LoopState
    BY <2>1, AtTyped
  <2> QED
    BY <2>2 DEF PresenceInv, PresenceTypeOK, MigrationInv
<1>2. Punctual'
  BY DEF PresenceInv, PresenceTypeOK, LoopState, Punctual
<1>3. Accounted'
  BY DEF PresenceInv, PresenceTypeOK, LoopState, Punctual, Accounted, Allowance, Between
<1> QED
  BY <1>1, <1>2, <1>3 DEF PresenceInv

LEMMA RelayHeartbeatAccounts ==
  ASSUME PresenceInv, RelayHeartbeat, MigrationInv'
  PROVE  PresenceInv'
<1> USE TimesAreNumbers DEF RelayHeartbeat, SeenNow, At, Upto, Requests, Busy
<1>1. PresenceTypeOK'
  <2>1. worker' \in LoopState
    BY DEF PresenceInv, PresenceTypeOK, LoopState
  <2> QED
    BY <2>1 DEF PresenceInv, PresenceTypeOK, MigrationInv
<1>2. Punctual'
  BY DEF PresenceInv, PresenceTypeOK, LoopState, Punctual
<1>3. Accounted'
  BY DEF PresenceInv, PresenceTypeOK, LoopState, Punctual, Accounted, Allowance, Between
<1> QED
  BY <1>1, <1>2, <1>3 DEF PresenceInv

LEMMA HeartbeatAnsweredAccounts ==
  ASSUME PresenceInv, HeartbeatAnswered, MigrationInv'
  PROVE  PresenceInv'
<1> USE TimesAreNumbers DEF HeartbeatAnswered, At, Upto, Requests, Busy
<1>1. PresenceTypeOK'
  <2>1. worker.failures \in 0..6
    BY DEF PresenceInv, PresenceTypeOK, LoopState
  <2>2. worker' \in LoopState
    BY <2>1, AtTyped
  <2> QED
    BY <2>2 DEF PresenceInv, PresenceTypeOK, MigrationInv
<1>2. Punctual'
  BY DEF PresenceInv, PresenceTypeOK, LoopState, Punctual
<1>3. Accounted'
  BY DEF PresenceInv, PresenceTypeOK, LoopState, Punctual, Accounted, Allowance, Between
<1> QED
  BY <1>1, <1>2, <1>3 DEF PresenceInv

LEMMA SendPollAccounts ==
  ASSUME PresenceInv, NEW doomed \in BOOLEAN, SendPoll(doomed), MigrationInv'
  PROVE  PresenceInv'
<1> USE TimesAreNumbers DEF SendPoll, Send, Fault, At, Upto, Requests, Busy
<1>1. PresenceTypeOK'
  <2>1. worker.failures \in 0..6
    BY DEF PresenceInv, PresenceTypeOK, LoopState
  <2>2. worker' \in LoopState
    BY <2>1, AtTyped
  <2> QED
    BY <2>2 DEF PresenceInv, PresenceTypeOK, MigrationInv
<1>2. Punctual'
  BY DEF PresenceInv, PresenceTypeOK, LoopState, Punctual
<1>3. Accounted'
  BY DEF PresenceInv, PresenceTypeOK, LoopState, Punctual, Accounted, Allowance, Between
<1> QED
  BY <1>1, <1>2, <1>3 DEF PresenceInv

LEMMA PollEmptyAccounts ==
  ASSUME PresenceInv, PollEmpty, MigrationInv'
  PROVE  PresenceInv'
<1> USE TimesAreNumbers DEF PollEmpty, StillDue, At, Upto, Requests, Busy
<1>1. PresenceTypeOK'
  BY DEF PresenceInv, PresenceTypeOK, MigrationInv, LoopState, Punctual
<1>2. Punctual'
  BY DEF PresenceInv, PresenceTypeOK, LoopState, Punctual
<1>3. Accounted'
  BY DEF PresenceInv, PresenceTypeOK, LoopState, Punctual, Accounted, Allowance, Between
<1> QED
  BY <1>1, <1>2, <1>3 DEF PresenceInv

LEMMA PollJobAccounts ==
  ASSUME PresenceInv, PollJob, MigrationInv'
  PROVE  PresenceInv'
<1> USE TimesAreNumbers DEF PollJob, Fault, Excused, At, Upto, Requests, Busy
<1>1. PresenceTypeOK'
  BY DEF PresenceInv, PresenceTypeOK, MigrationInv, LoopState, Punctual
<1>2. Punctual'
  BY DEF PresenceInv, PresenceTypeOK, LoopState, Punctual
<1>3. Accounted'
  BY DEF PresenceInv, PresenceTypeOK, LoopState, Punctual, Accounted, Allowance, Between
<1> QED
  BY <1>1, <1>2, <1>3 DEF PresenceInv

LEMMA JobEndsAccounts ==
  ASSUME PresenceInv, JobEnds, MigrationInv'
  PROVE  PresenceInv'
<1> USE TimesAreNumbers DEF JobEnds, At, Upto, Requests, Busy
<1>1. PresenceTypeOK'
  BY DEF PresenceInv, PresenceTypeOK, MigrationInv, LoopState, Punctual
<1>2. Punctual'
  BY DEF PresenceInv, PresenceTypeOK, LoopState, Punctual
<1>3. Accounted'
  BY DEF PresenceInv, PresenceTypeOK, LoopState, Punctual, Accounted, Allowance, Between
<1> QED
  BY <1>1, <1>2, <1>3 DEF PresenceInv

LEMMA LoopFailsAccounts ==
  ASSUME PresenceInv, LoopFails, MigrationInv'
  PROVE  PresenceInv'
<1> USE TimesAreNumbers DEF LoopFails, WaitsAfter, At, Upto, Requests, Busy
<1>1. PresenceTypeOK'
  BY DEF PresenceInv, PresenceTypeOK, MigrationInv, LoopState, Punctual
<1>2. Punctual'
  BY DEF PresenceInv, PresenceTypeOK, LoopState, Punctual
<1>3. Accounted'
  <2>1. Allowance' = Between
    BY DEF Allowance, Between
  <2>2. known => silence <= excuse' + Between
    <3>1. known => silence <= excuse + Allowance
      BY DEF PresenceInv, Accounted
    <3>2. Between \in Nat /\ excuse \in 0..Cap /\ silence \in 0..Cap /\ worker.elapsed \in Nat
      BY BetweenBounds DEF PresenceInv, PresenceTypeOK, LoopState
    <3>3. CASE worker.at = "beating"
      BY <3>1, <3>2, <3>3, BetweenBounds, SMTT(30)
      DEF PresenceInv, PresenceTypeOK, LoopState, Punctual, Allowance
    <3>4. CASE worker.at = "polling"
      BY <3>1, <3>2, <3>4, BetweenBounds, SMTT(30)
      DEF PresenceInv, PresenceTypeOK, LoopState, Punctual, Allowance
    <3>5. CASE worker.at \notin Requests
      BY <3>1, <3>2, <3>5 DEF PresenceInv, PresenceTypeOK, LoopState, Punctual, Allowance
    <3> QED
      BY <3>3, <3>4, <3>5
  <2> QED
    BY <2>1, <2>2 DEF PresenceInv, PresenceTypeOK, Accounted
<1> QED
  BY <1>1, <1>2, <1>3 DEF PresenceInv

LEMMA WaitOverAccounts ==
  ASSUME PresenceInv, WaitOver, MigrationInv'
  PROVE  PresenceInv'
<1> USE TimesAreNumbers DEF WaitOver, At, Upto, Requests, Busy
<1>1. PresenceTypeOK'
  BY DEF PresenceInv, PresenceTypeOK, MigrationInv, LoopState, Punctual
<1>2. Punctual'
  BY DEF PresenceInv, PresenceTypeOK, LoopState, Punctual
<1>3. Accounted'
  BY DEF PresenceInv, PresenceTypeOK, LoopState, Punctual, Accounted, Allowance, Between
<1> QED
  BY <1>1, <1>2, <1>3 DEF PresenceInv

LEMMA WorkerDiesAccounts ==
  ASSUME PresenceInv, WorkerDies, MigrationInv'
  PROVE  PresenceInv'
<1> USE TimesAreNumbers DEF WorkerDies, Fault, Excused, At, Upto, Requests, Busy
<1>1. PresenceTypeOK'
  BY DEF PresenceInv, PresenceTypeOK, MigrationInv, LoopState, Punctual
<1>2. Punctual'
  BY DEF PresenceInv, PresenceTypeOK, LoopState, Punctual
<1>3. Accounted'
  <2>1. Allowance' = Between
    BY DEF Allowance, Between
  <2>2. known => silence <= excuse' + Between
    <3>1. known => silence <= excuse + Allowance
      BY DEF PresenceInv, Accounted
    <3>2. Between \in Nat /\ excuse \in 0..Cap /\ silence \in 0..Cap /\ worker.elapsed \in Nat
      BY BetweenBounds DEF PresenceInv, PresenceTypeOK, LoopState
    <3>3. CASE worker.at = "beating"
      BY <3>1, <3>2, <3>3, BetweenBounds, SMTT(30)
      DEF PresenceInv, PresenceTypeOK, LoopState, Punctual, Allowance
    <3>4. CASE worker.at = "polling"
      BY <3>1, <3>2, <3>4, BetweenBounds, SMTT(30)
      DEF PresenceInv, PresenceTypeOK, LoopState, Punctual, Allowance
    <3>5. CASE worker.at \notin Requests
      BY <3>1, <3>2, <3>5 DEF PresenceInv, PresenceTypeOK, LoopState, Punctual, Allowance
    <3> QED
      BY <3>3, <3>4, <3>5
  <2> QED
    BY <2>1, <2>2 DEF PresenceInv, PresenceTypeOK, Accounted
<1> QED
  BY <1>1, <1>2, <1>3 DEF PresenceInv

LEMMA WorkerStartsAccounts ==
  ASSUME PresenceInv, WorkerStarts, MigrationInv'
  PROVE  PresenceInv'
<1> USE TimesAreNumbers DEF WorkerStarts, At, Upto, Requests, Busy
<1>1. PresenceTypeOK'
  BY DEF PresenceInv, PresenceTypeOK, MigrationInv, LoopState, Punctual
<1>2. Punctual'
  BY DEF PresenceInv, PresenceTypeOK, LoopState, Punctual
<1>3. Accounted'
  BY DEF PresenceInv, PresenceTypeOK, LoopState, Punctual, Accounted, Allowance, Between
<1> QED
  BY <1>1, <1>2, <1>3 DEF PresenceInv

LEMMA TickAccounts ==
  ASSUME PresenceInv, Tick, MigrationInv'
  PROVE  PresenceInv'
<1> USE TimesAreNumbers DEF Tick, Longest, Timed, At, Upto, Requests, Busy
<1>1. PresenceTypeOK'
  BY DEF PresenceInv, PresenceTypeOK, MigrationInv, LoopState, Punctual
<1>2. Punctual'
  BY DEF PresenceInv, PresenceTypeOK, LoopState, Punctual
<1>3. Accounted'
  BY DEF PresenceInv, PresenceTypeOK, LoopState, Punctual, Accounted, Allowance, Between
<1> QED
  BY <1>1, <1>2, <1>3 DEF PresenceInv

LEMMA RelayEndsAccounts ==
  ASSUME PresenceInv, worker.at \in Requests, RelayEnds, MigrationInv'
  PROVE  PresenceInv'
<1> USE TimesAreNumbers DEF RelayEnds, Excused, At, Upto, Requests, Busy
<1>1. PresenceTypeOK'
  <2>1. worker' \in LoopState
    BY DEF PresenceInv, PresenceTypeOK, LoopState
  <2>2. excuse' \in 0..Cap
    BY DEF PresenceInv, PresenceTypeOK, LoopState
  <2> QED
    BY <2>1, <2>2 DEF PresenceInv, PresenceTypeOK, MigrationInv
<1>2. Punctual'
  BY DEF PresenceInv, PresenceTypeOK, LoopState, Punctual
<1>3. Accounted'
  <2>1. worker' = [worker EXCEPT !.doomed = TRUE] /\ UNCHANGED <<beatIn, known, silence>>
    OBVIOUS
  <2>2. known => silence <= excuse + Allowance
    BY DEF PresenceInv, Accounted
  <2>3. CASE worker.at = "beating"
    BY <2>1, <2>2, <2>3, BetweenBounds
    DEF PresenceInv, PresenceTypeOK, LoopState, Punctual, Accounted, Allowance
  <2>4. CASE worker.at = "polling"
    <3>1. Allowance' = Between
      BY <2>1, <2>4 DEF PresenceInv, PresenceTypeOK, LoopState, Allowance, Between
    <3> QED
      BY <2>1, <2>2, <2>4, <3>1, BetweenBounds
      DEF PresenceInv, PresenceTypeOK, LoopState, Punctual, Accounted, Allowance
  <2> QED
    BY <2>3, <2>4
<1> QED
  BY <1>1, <1>2, <1>3 DEF PresenceInv

LEMMA PresenceStutters ==
  ASSUME PresenceInv, UNCHANGED presenceVars, MigrationInv'
  PROVE  PresenceInv'
BY DEF PresenceInv, presenceVars, PresenceTypeOK, MigrationInv, Punctual, Accounted, Allowance,
       Between

LEMMA NextKeepsPresence ==
  ASSUME PresenceInv, [PresenceNext]_systemVars
  PROVE  PresenceInv'
<1>1. MigrationInv
  BY DEF PresenceInv
<1>2. CASE RelayStep
  <2>1. MigrationInv'
    BY <1>1, <1>2, NextKeepsMigrations DEF RelayStep
  <2>2. CASE worker.at \in Requests /\ RelayEnds
    BY <2>1, <2>2, RelayEndsAccounts
  <2>3. CASE UNCHANGED presenceVars
    BY <2>1, <2>3, PresenceStutters
  <2> QED
    BY <1>2, <2>2, <2>3 DEF RelayStep, RelayEnds
<1>3. CASE UNCHANGED migrationVars
  <2>1. MigrationInv'
    BY <1>1, <1>3, MigrationStutters
  <2>2. CASE UNCHANGED presenceVars
    BY <2>1, <2>2, PresenceStutters
  <2>3. CASE Tick
    BY <2>1, <2>3, TickAccounts
  <2>4. CASE WorkerStep
    BY <2>1, <2>4, SendHeartbeatAccounts, RelayHeartbeatAccounts, HeartbeatAnsweredAccounts,
       SendPollAccounts, PollEmptyAccounts, PollJobAccounts, JobEndsAccounts, LoopFailsAccounts,
       WaitOverAccounts, WorkerDiesAccounts, WorkerStartsAccounts DEF WorkerStep
  <2> QED
    BY <1>2, <2>2, <2>3, <2>4 DEF PresenceNext, systemVars
<1> QED
  BY <1>2, <1>3 DEF PresenceNext, systemVars

LEMMA SilenceFits ==
  ASSUME PresenceInv
  PROVE  SilenceIsAccounted
<1>1. Allowance <= Budget
  BY TimesAreNumbers, BetweenBounds
  DEF PresenceInv, PresenceTypeOK, LoopState, Punctual, Allowance, Budget
<1>2. Allowance \in Int /\ Budget \in Int /\ silence \in Int /\ excuse \in Int
  BY TimesAreNumbers, BetweenBounds
  DEF PresenceInv, PresenceTypeOK, LoopState, Allowance, Budget
<1> QED
  BY <1>1, <1>2 DEF PresenceInv, Accounted, SilenceIsAccounted

LEMMA PresenceAlways == PresenceSpec => []PresenceInv
<1>1. PresenceInv /\ [PresenceNext]_systemVars => PresenceInv'
  BY NextKeepsPresence
<1> QED
  BY <1>1, PresenceInvInit, PTL DEF PresenceSpec

\* For any intervals, the relay counts no more silence than the budget and the
\* time in which the worker could not beat (client.ts main loop, heartbeat).
THEOREM SilenceAlwaysAccounted == PresenceSpec => []SilenceIsAccounted
<1>1. PresenceInv => SilenceIsAccounted
  BY SilenceFits
<1> QED
  BY <1>1, PresenceAlways, PTL

\* Where the budget fits, a worker that was kept from nothing is online, so
\* that a call of such a worker never ends with WORKER_OFFLINE (beginCall).
THEOREM IdleWorkerIsOnline ==
  ASSUME Budget <= OfflineAfter
  PROVE  PresenceSpec => [](known /\ excuse = 0 => Online)
<1>1. PresenceInv => (known /\ excuse = 0 => Online)
  <2> SUFFICES ASSUME PresenceInv, known, excuse = 0
               PROVE  silence <= OfflineAfter
    BY DEF Online
  <2>1. silence <= Budget
    BY SilenceFits, TimesAreNumbers DEF SilenceIsAccounted, Budget
  <2> QED
    BY <2>1, TimesAreNumbers DEF PresenceInv, PresenceTypeOK, Budget
<1> QED
  BY <1>1, PresenceAlways, PTL

\* The relay that answers the worker runs on a whole schema, whatever the
\* worker does meanwhile.
THEOREM PresenceOnWholeSchema == PresenceSpec => [](SchemaIsPrefix /\ ServesComplete)
<1>1. PresenceInv => SchemaIsPrefix /\ ServesComplete
  BY DEF PresenceInv, MigrationInv
<1> QED
  BY <1>1, PresenceAlways, PTL

\* Every variable of the relays' databases and of the worker's loop keeps its
\* type; the failures in a row, for one, never pass the table of delays.
THEOREM PresenceTypeCorrect == PresenceSpec => []PresenceTypeOK
<1>1. PresenceInv => PresenceTypeOK
  BY DEF PresenceInv
<1> QED
  BY <1>1, PresenceAlways, PTL
=============================================================================
