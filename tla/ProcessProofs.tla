---------------------------- MODULE ProcessProofs ----------------------------
(***************************************************************************)
(* Theorems about ProcessTools, for any processes, any output and limit,   *)
(* and any order of output, exits, timers, signals and polls.              *)
(***************************************************************************)
EXTENDS ProcessTools, WellFoundedInduction, SequenceTheorems, TLAPS

-----------------------------------------------------------------------------
(* The inductive invariant *)

\* What a call of the helper knows of it.
NativeCallInv(c) ==
  /\ native[c].state = "none" => helper[c].state = "none"
  /\ native[c].state \in GivenUp => helper[c].state # "running"
  /\ aborted[c] => ~Pending(c)
  /\ helper[c].line = "ok" \/ native[c].stdout = "ok" => c \in performed
  /\ native[c].state = "resolved" => c \in performed

NativeInv ==
  /\ NativeTypeOK
  /\ aborted \in [NativeCalls -> BOOLEAN]
  /\ \A c \in NativeCalls : NativeCallInv(c)

Bytes == {"a", "h", "t"}
Letters == Bytes \cup {"?"}
Chunks == [offset : Nat, text : Seq(Letters)]

ProcessTyped ==
  /\ up \in BOOLEAN
  /\ child \in [Processes -> [state : {"none", "running", "exited", "reported"},
                             written : Nat, read : Nat]]
  /\ sessions \in [Processes -> [known : BOOLEAN, chunks : Seq(Chunks), nextOffset : Nat,
                                exited : BOOLEAN]]
  /\ runs \in [Processes ->
       [state : {"none", "waiting", "returned", "rejected", "started"} \cup GivenUp,
        aborted : BOOLEAN]]
  /\ reader \in [Processes -> [after : Nat, seen : Seq(Letters)]]

\* A session ends with its process, and a call that was given up ended it.
LifeInv(p) ==
  /\ runs[p].state = "none" => child[p].state = "none"
  /\ child[p].state # "none" => sessions[p].known
  /\ sessions[p].exited => child[p].state = "reported"
  /\ runs[p].aborted => ~Waits(p)
  /\ runs[p].state \in GivenUp => child[p].state # "running"

\* What was read is decoded to at most three times as much.
ReadInv(p) ==
  /\ child[p].written <= Len(Output[p])
  /\ child[p].read <= child[p].written
  /\ sessions[p].nextOffset <= 3 * child[p].read

Text(chunks) == FlattenSeq([i \in DOMAIN chunks |-> chunks[i].text])

\* No chunk goes beyond the offset.
Within(chunks, offset) ==
  \A i \in DOMAIN chunks : chunks[i].offset + Len(chunks[i].text) <= offset

\* What the client has and what it will be sent is all there is.
TextInv(s, r) ==
  /\ Within(s.chunks, s.nextOffset)
  /\ Len(Text(s.chunks)) = s.nextOffset
  /\ r.seen \o TextAfter(s.chunks, r.after) = Text(s.chunks)
  /\ Len(r.seen) = r.after
  /\ r.after <= s.nextOffset

ProcessInv ==
  /\ NativeInv
  /\ ProcessTyped
  /\ \A p \in Processes :
       LifeInv(p) /\ ReadInv(p) /\ TextInv(sessions[p], reader[p])

-----------------------------------------------------------------------------
(* Sequences of sequences *)

Positive == Nat \ {0}

\* What holds of 1 and goes on from each number to the next holds of all.
LEMMA Climbs ==
  ASSUME NEW P, 1 \in P, \A i \in Positive : i \in P => i + 1 \in P
  PROVE  \A i \in Positive : i \in P
<1> DEFINE Bad == Positive \ P
<1> SUFFICES ASSUME Bad # {} PROVE FALSE
  OBVIOUS
<1>1. PICK n \in Bad : \A m \in Bad : ~(<<m, n>> \in OpToRel(<, Nat))
  <2>1. Bad \subseteq Nat
    BY DEF Positive
  <2> HIDE DEF Bad
  <2> QED
    BY <2>1, WFMin, NatLessThanWellFounded
<1>2. n \in Positive /\ n # 1 /\ n \notin P
  OBVIOUS
<1>3. n - 1 \in Positive /\ <<n - 1, n>> \in OpToRel(<, Nat) /\ (n - 1) + 1 = n
  BY <1>2 DEF OpToRel, Positive
<1>4. n - 1 \in P
  BY <1>1, <1>3
<1> QED
  BY <1>2, <1>3, <1>4

\* FlattenSeq joins the first n sequences one by one.
Joins(s, n, f) == f = [i \in 1..n |-> IF i = 1 THEN s[i] ELSE f[i-1] \o s[i]]

LEMMA FlattenIs ==
  ASSUME NEW s, Len(s) # 0
  PROVE  FlattenSeq(s) = (CHOOSE f : Joins(s, Len(s), f))[Len(s)]
BY DEF FlattenSeq, Joins

LEMMA JoinsSteps ==
  ASSUME NEW s, NEW n \in Positive, NEW f, Joins(s, n, f)
  PROVE  /\ f[1] = s[1]
         /\ \A i \in Positive : i < n => f[i + 1] = f[i] \o s[i + 1]
<1>1. \A i \in 1..n : f[i] = IF i = 1 THEN s[i] ELSE f[i-1] \o s[i]
  BY DEF Joins
<1>2. 1 \in 1..n
  BY DEF Positive
<1>3. ASSUME NEW i \in Positive, i < n PROVE f[i + 1] = f[i] \o s[i + 1]
  <2>1. i + 1 \in 1..n /\ i + 1 # 1 /\ (i + 1) - 1 = i
    BY <1>3 DEF Positive
  <2> QED
    BY <1>1, <2>1
<1> QED
  BY <1>1, <1>2, <1>3

LEMMA JoinsOnce ==
  ASSUME NEW s, NEW n \in Positive, NEW f, NEW g, Joins(s, n, f), Joins(s, n, g)
  PROVE  f = g
<1> DEFINE P == {i \in Positive : i <= n => f[i] = g[i]}
<1>f. f[1] = s[1] /\ \A i \in Positive : i < n => f[i + 1] = f[i] \o s[i + 1]
  BY JoinsSteps
<1>g. g[1] = s[1] /\ \A i \in Positive : i < n => g[i + 1] = g[i] \o s[i + 1]
  BY JoinsSteps
<1>1. 1 \in P
  BY <1>f, <1>g DEF Positive
<1>2. ASSUME NEW i \in Positive, i \in P PROVE i + 1 \in P
  <2> SUFFICES ASSUME i + 1 <= n PROVE f[i + 1] = g[i + 1]
    BY DEF Positive
  <2>1. i < n /\ i <= n
    BY DEF Positive
  <2> QED
    BY <1>f, <1>g, <1>2, <2>1
<1>3. \A i \in Positive : i \in P
  <2> HIDE DEF P
  <2> QED
    BY <1>1, <1>2, Climbs
<1>4. \A i \in 1..n : f[i] = g[i]
  BY <1>3 DEF Positive
<1> QED
  BY <1>4 DEF Joins

LEMMA JoinsExtend ==
  ASSUME NEW s, NEW n \in Positive, NEW f, Joins(s, n, f)
  PROVE  Joins(s, n + 1, [i \in 1..(n + 1) |-> IF i = n + 1 THEN f[n] \o s[n + 1] ELSE f[i]])
<1> DEFINE g == [i \in 1..(n + 1) |-> IF i = n + 1 THEN f[n] \o s[n + 1] ELSE f[i]]
<1>1. ASSUME NEW i \in 1..(n + 1)
      PROVE  g[i] = IF i = 1 THEN s[i] ELSE g[i-1] \o s[i]
  <2>1. CASE i = n + 1
    <3>1. i # 1 /\ i - 1 = n /\ n \in 1..(n + 1) /\ n # n + 1
      BY <2>1 DEF Positive
    <3> QED
      BY <2>1, <3>1
  <2>2. CASE i # n + 1
    <3>1. i \in 1..n /\ g[i] = f[i]
      BY <2>2 DEF Positive
    <3>2. i # 1 => i - 1 \in 1..n /\ g[i-1] = f[i-1]
      BY <3>1 DEF Positive
    <3> QED
      BY <3>1, <3>2 DEF Joins
  <2> QED
    BY <2>1, <2>2
<1> QED
  BY <1>1 DEF Joins

LEMMA JoinsExist ==
  ASSUME NEW s
  PROVE  \A n \in Positive : \E f : Joins(s, n, f)
<1> DEFINE P == {n \in Positive : \E f : Joins(s, n, f)}
<1>1. 1 \in P
  <2>1. Joins(s, 1, [i \in 1..1 |-> s[i]])
    BY DEF Joins
  <2> QED
    BY <2>1 DEF Positive
<1>2. ASSUME NEW n \in Positive, n \in P PROVE n + 1 \in P
  <2>1. PICK f : Joins(s, n, f)
    BY <1>2
  <2>2. n + 1 \in Positive
    BY DEF Positive
  <2> QED
    BY <2>1, <2>2, JoinsExtend
<1> HIDE DEF P
<1>3. \A n \in Positive : n \in P
  BY <1>1, <1>2, Climbs
<1> QED
  BY <1>3 DEF P

LEMMA FlattenJoins ==
  ASSUME NEW s, NEW f, Len(s) \in Positive, Joins(s, Len(s), f)
  PROVE  FlattenSeq(s) = f[Len(s)]
<1>1. \A g : Joins(s, Len(s), g) => g = f
  BY JoinsOnce
<1>2. (CHOOSE g : Joins(s, Len(s), g)) = f
  BY <1>1
<1> QED
  BY <1>2, FlattenIs DEF Positive

\* The sequence that is added last comes last.
LEMMA FlattenAppend ==
  ASSUME NEW S, NEW s \in Seq(Seq(S)), NEW t \in Seq(S)
  PROVE  FlattenSeq(Append(s, t)) = FlattenSeq(s) \o t
<1> DEFINE n == Len(s)
           a == Append(s, t)
<1>1. n \in Nat /\ Len(a) = n + 1 /\ a[n + 1] = t /\ \A i \in 1..n : a[i] = s[i]
  OBVIOUS
<1>2. CASE n = 0
  <2>0. 1 \in Positive
    BY DEF Positive
  <2>5. Len(a) = 1 /\ a[1] = t
    BY <1>1, <1>2
  <2> HIDE DEF a
  <2>1. PICK f : Joins(a, 1, f)
    BY <2>0, JoinsExist
  <2>2. f[1] = t
    BY <2>0, <2>5, <2>1, JoinsSteps
  <2>4. FlattenSeq(a) = t
    BY <2>0, <2>5, <2>1, <2>2, FlattenJoins
  <2>3. FlattenSeq(s) = <<>>
    BY <1>2 DEF FlattenSeq
  <2> QED
    BY <2>4, <2>3 DEF a
<1>3. CASE n # 0
  <2>1. n \in Positive
    BY <1>1, <1>3 DEF Positive
  <2>2. PICK f : Joins(s, n, f)
    BY <2>1, JoinsExist
  <2> HIDE DEF a
  <2>3. Joins(a, n, f)
    BY <1>1, <2>2 DEF Joins
  <2>4. n + 1 \in Positive /\ n < n + 1
    BY <2>1 DEF Positive
  <2>8. PICK h : Joins(a, n + 1, h) /\ h[n + 1] = f[n] \o a[n + 1]
    <3> DEFINE h == [i \in 1..(n + 1) |-> IF i = n + 1 THEN f[n] \o a[n + 1] ELSE f[i]]
    <3>1. Joins(a, n + 1, h)
      BY <2>1, <2>3, JoinsExtend
    <3>2. n + 1 \in 1..(n + 1)
      BY <2>1 DEF Positive
    <3>3. h[n + 1] = f[n] \o a[n + 1]
      BY <3>2
    <3> HIDE DEF h
    <3> QED
      BY <3>1, <3>3
  <2>5. FlattenSeq(a) = f[n] \o t
    BY <1>1, <2>4, <2>8, FlattenJoins
  <2>6. FlattenSeq(s) = f[n]
    BY <2>1, <2>2, FlattenJoins
  <2> QED
    BY <2>5, <2>6 DEF a
<1> QED
  BY <1>2, <1>3

\* By induction: what each sequence that is joined keeps is so in the end.
LEMMA FlattenIn ==
  ASSUME NEW s, NEW T, Len(s) \in Positive, s[1] \in T[1],
         \A i \in Positive : i < Len(s) => \A x \in T[i] : x \o s[i + 1] \in T[i + 1]
  PROVE  FlattenSeq(s) \in T[Len(s)]
<1> DEFINE n == Len(s)
<1>1. PICK f : Joins(s, n, f)
  BY JoinsExist
<1>2. f[1] = s[1] /\ \A i \in Positive : i < n => f[i + 1] = f[i] \o s[i + 1]
  BY <1>1, JoinsSteps
<1> DEFINE Q == {i \in Positive : i <= n => f[i] \in T[i]}
<1>3. 1 \in Q
  BY <1>2 DEF Positive
<1>4. ASSUME NEW i \in Positive, i \in Q PROVE i + 1 \in Q
  <2>1. i + 1 \in Positive /\ (i + 1 <= n => i < n /\ i <= n)
    BY DEF Positive
  <2>2. i + 1 <= n => f[i + 1] \in T[i + 1]
    BY <1>2, <1>4, <2>1
  <2> QED
    BY <2>1, <2>2
<1>5. n \in Q
  <2> HIDE DEF Q, n
  <2>1. \A i \in Positive : i \in Q
    BY <1>3, <1>4, Climbs
  <2> QED
    BY <2>1 DEF n
<1>6. FlattenSeq(s) = f[n]
  BY <1>1, FlattenJoins
<1> QED
  BY <1>5, <1>6 DEF Positive

LEMMA Triples ==
  ASSUME NEW a \in Nat, NEW i \in Nat, NEW b \in 1..3, i <= a, a <= 3 * i
  PROVE  i + 1 <= a + b /\ a + b <= 3 * (i + 1)
OBVIOUS

\* Joined, sequences of one to three letters are at least as many letters and
\* at most three times as many.
LEMMA FlattenLength ==
  ASSUME NEW S, NEW s \in Seq(Seq(S)), \A i \in 1..Len(s) : Len(s[i]) \in 1..3
  PROVE  /\ FlattenSeq(s) \in Seq(S)
         /\ Len(s) <= Len(FlattenSeq(s))
         /\ Len(FlattenSeq(s)) <= 3 * Len(s)
<1> DEFINE n == Len(s)
           T == [i \in Positive |-> {x \in Seq(S) : i <= Len(x) /\ Len(x) <= 3 * i}]
<1>1. CASE n = 0
  BY <1>1 DEF FlattenSeq
<1>2. CASE n # 0
  <2>1. n \in Positive
    BY <1>2 DEF Positive
  <2>2. 1 \in Positive /\ 1 \in 1..n
    BY <2>1 DEF Positive
  <2>3. s[1] \in T[1]
    <3>1. s[1] \in Seq(S) /\ Len(s[1]) \in 1..3
      BY <2>2
    <3>2. \A b \in 1..3 : 1 <= b /\ b <= 3 * 1
      OBVIOUS
    <3>3. 1 <= Len(s[1]) /\ Len(s[1]) <= 3 * 1
      BY <3>1, <3>2
    <3> QED
      BY <2>2, <3>1, <3>3
  <2>4. ASSUME NEW i \in Positive, i < n, NEW x \in T[i] PROVE x \o s[i + 1] \in T[i + 1]
    <3>1. i + 1 \in Positive /\ i + 1 \in 1..n
      BY <2>1, <2>4 DEF Positive
    <3>2. x \in Seq(S) /\ i <= Len(x) /\ Len(x) <= 3 * i /\ i \in Nat /\ Len(x) \in Nat
      BY DEF Positive
    <3>3. s[i + 1] \in Seq(S) /\ Len(s[i + 1]) \in 1..3
      BY <3>1
    <3>4. x \o s[i + 1] \in Seq(S) /\ Len(x \o s[i + 1]) = Len(x) + Len(s[i + 1])
      BY <3>2, <3>3
    <3>5. i + 1 <= Len(x) + Len(s[i + 1]) /\ Len(x) + Len(s[i + 1]) <= 3 * (i + 1)
      BY <3>2, <3>3, Triples
    <3> QED
      BY <3>1, <3>4, <3>5
  <2>5. FlattenSeq(s) \in T[n]
    <3> HIDE DEF T
    <3> QED
      BY <2>1, <2>3, <2>4, FlattenIn
  <2> QED
    BY <2>1, <2>5
<1> QED
  BY <1>1, <1>2

\* Joined, sequences of letters are one, and empty ones none.
LEMMA FlattenWithin ==
  ASSUME NEW T, NEW s \in Seq(T), <<>> \in T, \A x \in T, y \in T : x \o y \in T
  PROVE  FlattenSeq(s) \in T
<1> DEFINE n == Len(s)
           U == [i \in Positive |-> T]
<1>1. CASE n = 0
  BY <1>1 DEF FlattenSeq
<1>2. CASE n # 0
  <2>1. n \in Positive
    BY <1>2 DEF Positive
  <2>2. 1 \in Positive /\ 1 \in 1..n
    BY <2>1 DEF Positive
  <2>3. ASSUME NEW i \in Positive, i < n, NEW x \in U[i] PROVE x \o s[i + 1] \in U[i + 1]
    <3>1. i + 1 \in Positive /\ i + 1 \in 1..n
      BY <2>1, <2>3 DEF Positive
    <3> QED
      BY <3>1
  <2>4. s[1] \in U[1]
    BY <2>2
  <2>5. FlattenSeq(s) \in U[n]
    <3> HIDE DEF U
    <3> QED
      BY <2>1, <2>3, <2>4, FlattenIn
  <2> QED
    BY <2>1, <2>5
<1> QED
  BY <1>1, <1>2

LEMMA FlattenTyped ==
  ASSUME NEW S, NEW s \in Seq(Seq(S))
  PROVE  FlattenSeq(s) \in Seq(S)
<1>1. <<>> \in Seq(S) /\ \A x \in Seq(S), y \in Seq(S) : x \o y \in Seq(S)
  OBVIOUS
<1> QED
  BY <1>1, FlattenWithin

LEMMA FlattenNothing ==
  ASSUME NEW s \in Seq({<<>>})
  PROVE  FlattenSeq(s) = <<>>
<1>1. <<>> \in {<<>>} /\ \A x \in {<<>>}, y \in {<<>>} : x \o y \in {<<>>}
  OBVIOUS
<1> QED
  BY <1>1, FlattenWithin

-----------------------------------------------------------------------------
(* Calls of the native helper *)

\* The call that moves keeps its part of the invariant, the others are as
\* they were.
NativeStep(c) ==
  /\ NativeTypeOK'
  /\ aborted' \in [NativeCalls -> BOOLEAN]
  /\ performed \subseteq performed'
  /\ \A d \in NativeCalls \ {c} :
       native'[d] = native[d] /\ helper'[d] = helper[d] /\ aborted'[d] = aborted[d]
  /\ NativeCallInv(c)'

LEMMA NativeStepInv ==
  ASSUME NativeInv, NEW c \in NativeCalls, NativeStep(c)
  PROVE  NativeInv'
<1>1. \A d \in NativeCalls \ {c} : NativeCallInv(d)'
  BY DEF NativeInv, NativeStep, NativeCallInv, Pending
<1> QED
  BY <1>1 DEF NativeInv, NativeStep

Promises == [state : {"none", "pending"} \cup Settled, stdout : Lines]
Helpers == [state : {"none", "running", "exited", "reported"}, line : Lines]

LEMMA SettleIs ==
  ASSUME NativeInv, NEW c \in NativeCalls, NEW state \in {"pending"} \cup Settled, Settle(c, state)
  PROVE  /\ native' \in [NativeCalls -> Promises]
         /\ native'[c].state = state /\ native'[c].stdout = native[c].stdout
         /\ \A d \in NativeCalls \ {c} : native'[d] = native[d]
BY DEF NativeInv, NativeTypeOK, Settle, Promises

LEMMA HelperIs ==
  ASSUME NativeInv, NEW c \in NativeCalls, NEW h \in Helpers, helper' = [helper EXCEPT ![c] = h]
  PROVE  /\ helper' \in [NativeCalls -> Helpers]
         /\ helper'[c] = h
         /\ \A d \in NativeCalls \ {c} : helper'[d] = helper[d]
BY DEF NativeInv, NativeTypeOK, Helpers

LEMMA KillIs ==
  ASSUME NativeInv, NEW c \in NativeCalls, Kill(c)
  PROVE  /\ helper' \in [NativeCalls -> Helpers]
         /\ helper'[c].state # "running" /\ helper'[c].line = helper[c].line
         /\ \A d \in NativeCalls \ {c} : helper'[d] = helper[d]
<1> DEFINE h == [helper[c] EXCEPT !.state = IF @ = "running" THEN "exited" ELSE @]
<1>1. helper' = [helper EXCEPT ![c] = h]
  BY DEF Kill
<1>2. helper[c] \in Helpers
  BY DEF NativeInv, NativeTypeOK, Helpers
<1>3. h \in Helpers /\ h.state # "running" /\ h.line = helper[c].line
  BY <1>2 DEF Helpers
<1> HIDE DEF h
<1> QED
  BY <1>1, <1>3, HelperIs

LEMMA NativeNextInv ==
  ASSUME NativeInv, [NativeNext]_nativeVars
  PROVE  NativeInv'
<1>1. CASE UNCHANGED nativeVars
  BY <1>1 DEF NativeInv, NativeTypeOK, NativeCallInv, Pending, nativeVars
<1>2. ASSUME NEW c \in NativeCalls,
             \/ CallNative(c) \/ StartSandboxed(c) \/ SandboxedEnds(c)
             \/ HelperSucceeds(c) \/ HelperFails(c) \/ ReadStdout(c)
             \/ HelperExit(c) \/ NativeTimeout(c) \/ NativeAbort(c)
      PROVE  NativeStep(c)
  <2>0. /\ native \in [NativeCalls -> Promises] /\ helper \in [NativeCalls -> Helpers]
        /\ native[c] \in Promises /\ helper[c] \in Helpers
        /\ sandboxed \in [NativeCalls -> {"none", "running", "ended"}]
        /\ performed \subseteq NativeCalls
        /\ aborted \in [NativeCalls -> BOOLEAN] /\ NativeCallInv(c)
        /\ DOMAIN aborted = NativeCalls
    BY DEF NativeInv, NativeTypeOK, Promises, Helpers
  <2> DEFINE Typed == /\ native' \in [NativeCalls -> Promises]
                      /\ helper' \in [NativeCalls -> Helpers]
                      /\ sandboxed' \in [NativeCalls -> {"none", "running", "ended"}]
                      /\ performed' \subseteq NativeCalls
                      /\ performed \subseteq performed'
                      /\ aborted' \in [NativeCalls -> BOOLEAN]
             Others == \A d \in NativeCalls \ {c} :
                         native'[d] = native[d] /\ helper'[d] = helper[d] /\ aborted'[d] = aborted[d]
  <2>q. Typed /\ Others /\ NativeCallInv(c)' => NativeStep(c)
    BY DEF NativeStep, NativeTypeOK, Promises, Helpers
  <2>1. CASE CallNative(c)
    <3>1. CASE aborted[c] /\ Settle(c, "cancelled") /\ UNCHANGED helper
      BY <2>0, <2>1, <2>q, <3>1, SettleIs DEF CallNative, NativeCallInv, Pending, Settled, GivenUp
    <3>2. CASE ~aborted[c] /\ Settle(c, "rejected") /\ UNCHANGED helper
      BY <2>0, <2>1, <2>q, <3>2, SettleIs DEF CallNative, NativeCallInv, Pending, Settled, GivenUp
    <3>3. CASE /\ ~aborted[c] /\ Settle(c, "pending")
               /\ helper' = [helper EXCEPT ![c].state = "running"]
      <4>1. [helper[c] EXCEPT !.state = "running"] \in Helpers
        BY <2>0 DEF Helpers
      <4>2. /\ helper' \in [NativeCalls -> Helpers] /\ helper'[c].line = helper[c].line
            /\ \A d \in NativeCalls \ {c} : helper'[d] = helper[d]
        BY <2>0, <3>3, <4>1, HelperIs DEF Helpers
      <4> QED
        BY <2>0, <2>1, <2>q, <3>3, <4>2, SettleIs
        DEF CallNative, NativeCallInv, Pending, Settled, GivenUp
    <3> QED
      BY <2>1, <3>1, <3>2, <3>3 DEF CallNative
  <2>2. CASE StartSandboxed(c)
    BY <2>0, <2>2, <2>q DEF StartSandboxed, NativeCallInv, Pending
  <2>3. CASE SandboxedEnds(c)
    BY <2>0, <2>3, <2>q DEF SandboxedEnds, NativeCallInv, Pending
  <2>4. CASE HelperSucceeds(c)
    <3>1. [state |-> "exited", line |-> "ok"] \in Helpers
      BY DEF Helpers, Lines
    <3> QED
      BY <2>0, <2>4, <2>q, <3>1, HelperIs DEF HelperSucceeds, Answer, NativeCallInv, Pending
  <2>5. CASE HelperFails(c)
    <3>1. [state |-> "exited", line |-> "error"] \in Helpers
      BY DEF Helpers, Lines
    <3> QED
      BY <2>0, <2>5, <2>q, <3>1, HelperIs DEF HelperFails, Answer, NativeCallInv, Pending
  <2>6. CASE ReadStdout(c)
    <3> DEFINE h == [helper[c] EXCEPT !.line = ""]
               n == [native[c] EXCEPT !.stdout = helper[c].line]
    <3>1. h \in Helpers /\ h.line = "" /\ h.state = helper[c].state
      BY <2>0 DEF Helpers, Lines
    <3>2. n \in Promises /\ n.stdout = helper[c].line /\ n.state = native[c].state
      BY <2>0 DEF Helpers, Promises
    <3>3. helper' = [helper EXCEPT ![c] = h] /\ native' = [native EXCEPT ![c] = n]
      BY <2>6 DEF ReadStdout
    <3> HIDE DEF h, n
    <3>4. /\ native' \in [NativeCalls -> Promises] /\ native'[c] = n
          /\ \A d \in NativeCalls \ {c} : native'[d] = native[d]
      BY <2>0, <3>2, <3>3
    <3>5. /\ helper' \in [NativeCalls -> Helpers] /\ helper'[c] = h
          /\ \A d \in NativeCalls \ {c} : helper'[d] = helper[d]
      BY <3>1, <3>3, HelperIs
    <3>6. /\ helper'[c].line = "" /\ helper'[c].state = helper[c].state
          /\ native'[c].stdout = helper[c].line /\ native'[c].state = native[c].state
          /\ UNCHANGED <<sandboxed, performed, aborted>>
      BY <2>6, <3>1, <3>2, <3>4, <3>5 DEF ReadStdout
    <3>7. NativeCallInv(c)'
      BY <2>0, <3>6 DEF NativeCallInv, Pending
    <3> QED
      BY <2>0, <2>q, <3>4, <3>5, <3>6, <3>7
  <2>7. CASE HelperExit(c)
    <3> DEFINE h == [helper[c] EXCEPT !.state = "reported"]
    <3>1. h \in Helpers /\ h.state = "reported" /\ h.line = helper[c].line
      BY <2>0 DEF Helpers
    <3>2. helper' = [helper EXCEPT ![c] = h]
      BY <2>7 DEF HelperExit
    <3> HIDE DEF h
    <3>3. CASE Pending(c)
      <4>1. Settle(c, Verdict(c)) /\ Verdict(c) \in Settled
            /\ Verdict(c) \notin {"none", "pending"} \cup GivenUp
            /\ (Verdict(c) = "resolved" => native[c].stdout = "ok")
        BY <2>7, <3>3 DEF HelperExit, Verdict, Settled, GivenUp
      <4> QED
        BY <2>0, <2>7, <2>q, <3>1, <3>2, <4>1, SettleIs, HelperIs
        DEF HelperExit, NativeCallInv, Pending
    <3>4. CASE ~Pending(c)
      BY <2>0, <2>7, <2>q, <3>1, <3>2, <3>4, HelperIs DEF HelperExit, NativeCallInv, Pending, GivenUp
    <3> QED
      BY <3>3, <3>4
  <2>8. CASE NativeTimeout(c)
    BY <2>0, <2>8, <2>q, SettleIs, KillIs
    DEF NativeTimeout, NativeCallInv, Pending, Settled, GivenUp
  <2>9. CASE NativeAbort(c)
    <3>1. /\ aborted' \in [NativeCalls -> BOOLEAN]
          /\ \A d \in NativeCalls \ {c} : aborted'[d] = aborted[d]
      BY <2>0, <2>9 DEF NativeAbort
    <3>2. UNCHANGED <<sandboxed, performed>>
      BY <2>9 DEF NativeAbort
    <3>3. CASE Pending(c)
      BY <2>0, <2>9, <2>q, <3>1, <3>2, <3>3, SettleIs, KillIs
      DEF NativeAbort, NativeCallInv, Pending, Settled, GivenUp
    <3>4. CASE ~Pending(c)
      BY <2>0, <2>9, <2>q, <3>1, <3>2, <3>4 DEF NativeAbort, NativeCallInv, Pending
    <3> QED
      BY <3>3, <3>4
  <2> QED
    BY <1>2, <2>1, <2>2, <2>3, <2>4, <2>5, <2>6, <2>7, <2>8, <2>9
<1>3. CASE NativeNext
  BY <1>2, <1>3, NativeStepInv DEF NativeNext
<1> QED
  BY <1>1, <1>3

LEMMA NativeInitInv == NativeInit => NativeInv
<1> SUFFICES ASSUME NativeInit PROVE NativeInv
  OBVIOUS
<1>1. NativeTypeOK /\ aborted \in [NativeCalls -> BOOLEAN]
  BY DEF NativeInit, NativeTypeOK, Lines
<1>2. ASSUME NEW c \in NativeCalls PROVE NativeCallInv(c)
  BY DEF NativeInit, NativeCallInv, Pending, GivenUp
<1> QED
  BY <1>1, <1>2 DEF NativeInv

-----------------------------------------------------------------------------
(* Chunks *)

\* Decoded, bytes are at least as many letters and at most three times as many.
LEMMA DecodedLength ==
  ASSUME NEW bytes \in Seq(Bytes)
  PROVE  /\ Decoded(bytes) \in Seq(Letters)
         /\ Len(bytes) <= Len(Decoded(bytes))
         /\ Len(Decoded(bytes)) <= 3 * Len(bytes)
<1> DEFINE whole(i) ==
             \/ bytes[i] = "a"
             \/ bytes[i] = "h" /\ i < Len(bytes) /\ bytes[i + 1] = "t"
             \/ bytes[i] = "t" /\ i > 1 /\ bytes[i - 1] = "h"
           s == [i \in DOMAIN bytes |-> IF whole(i) THEN <<bytes[i]>> ELSE <<"?", "?", "?">>]
<1>1. Decoded(bytes) = FlattenSeq(s)
  BY DEF Decoded
<1> HIDE DEF whole
<1>0. Len(bytes) \in Nat /\ DOMAIN bytes = 1..Len(bytes)
      /\ \A i \in 1..Len(bytes) : bytes[i] \in Bytes
  OBVIOUS
<1>4. ASSUME NEW l \in Bytes
      PROVE  /\ <<l>> \in Seq(Letters) /\ Len(<<l>>) \in 1..3
             /\ <<"?", "?", "?">> \in Seq(Letters) /\ Len(<<"?", "?", "?">>) \in 1..3
  BY DEF Letters
<1>5. \A i \in 1..Len(bytes) : s[i] = <<bytes[i]>> \/ s[i] = <<"?", "?", "?">>
  BY <1>0
<1>2. \A i \in 1..Len(bytes) : s[i] \in Seq(Letters) /\ Len(s[i]) \in 1..3
  <2> HIDE DEF s
  <2> QED
    BY <1>0, <1>4, <1>5
<1>3. s \in Seq(Seq(Letters)) /\ Len(s) = Len(bytes)
  <2>1. s = [i \in 1..Len(bytes) |-> s[i]]
    BY <1>0
  <2> HIDE DEF s
  <2> QED
    BY <1>0, <1>2, <2>1
<1> HIDE DEF s
<1> QED
  BY <1>1, <1>2, <1>3, FlattenLength

Texts(chunks) == [i \in DOMAIN chunks |-> chunks[i].text]
TextsAfter(chunks, after) ==
  [i \in DOMAIN chunks |-> IF Unread(chunks[i], after) THEN chunks[i].text ELSE <<>>]

LEMMA TextsTyped ==
  ASSUME NEW chunks \in Seq(Chunks), NEW after \in Nat
  PROVE  /\ Texts(chunks) \in Seq(Seq(Letters)) /\ Text(chunks) \in Seq(Letters)
         /\ TextsAfter(chunks, after) \in Seq(Seq(Letters))
         /\ TextAfter(chunks, after) \in Seq(Letters)
<1>1. Len(chunks) \in Nat /\ DOMAIN chunks = 1..Len(chunks)
  OBVIOUS
<1>0. \A i \in 1..Len(chunks) : chunks[i] \in Chunks
  OBVIOUS
<1>2. \A i \in 1..Len(chunks) : chunks[i].text \in Seq(Letters)
  BY <1>0 DEF Chunks
<1>3. Texts(chunks) \in Seq(Seq(Letters))
  BY <1>1, <1>2 DEF Texts
<1>4. TextsAfter(chunks, after) \in Seq(Seq(Letters))
  BY <1>1, <1>2 DEF TextsAfter
<1>5. Text(chunks) = FlattenSeq(Texts(chunks))
      /\ TextAfter(chunks, after) = FlattenSeq(TextsAfter(chunks, after))
  BY DEF Text, Texts, TextAfter, TextsAfter
<1> QED
  BY <1>3, <1>4, <1>5, FlattenTyped

\* One more chunk is more text, for whoever has not read as far.
LEMMA TextAppend ==
  ASSUME NEW chunks \in Seq(Chunks), NEW c \in Chunks, NEW after \in Nat
  PROVE  /\ Text(Append(chunks, c)) = Text(chunks) \o c.text
         /\ Unread(c, after) =>
              TextAfter(Append(chunks, c), after) = TextAfter(chunks, after) \o c.text
<1> DEFINE more == Append(chunks, c)
<1>1. more \in Seq(Chunks) /\ Len(more) = Len(chunks) + 1 /\ more[Len(chunks) + 1] = c
      /\ \A i \in 1..Len(chunks) : more[i] = chunks[i]
  OBVIOUS
<1>2. /\ Len(chunks) \in Nat
      /\ DOMAIN chunks = 1..Len(chunks) /\ DOMAIN more = 1..(Len(chunks) + 1)
  BY <1>1
<1> HIDE DEF more
<1>3. Texts(more) = Append(Texts(chunks), c.text)
  BY <1>1, <1>2 DEF Texts
<1>4. Unread(c, after) => TextsAfter(more, after) = Append(TextsAfter(chunks, after), c.text)
  BY <1>1, <1>2 DEF TextsAfter
<1>5. c.text \in Seq(Letters)
  BY DEF Chunks
<1>6. /\ FlattenSeq(Append(Texts(chunks), c.text)) = FlattenSeq(Texts(chunks)) \o c.text
      /\ FlattenSeq(Append(TextsAfter(chunks, after), c.text))
           = FlattenSeq(TextsAfter(chunks, after)) \o c.text
  BY <1>5, TextsTyped, FlattenAppend
<1> QED
  BY <1>3, <1>4, <1>6 DEF Text, Texts, TextAfter, TextsAfter, more

\* Who has read up to the end is sent nothing.
LEMMA NothingLeft ==
  ASSUME NEW chunks \in Seq(Chunks), NEW offset \in Nat, Within(chunks, offset)
  PROVE  TextAfter(chunks, offset) = <<>>
<1>1. Len(chunks) \in Nat /\ DOMAIN chunks = 1..Len(chunks)
  OBVIOUS
<1>2. ASSUME NEW i \in 1..Len(chunks) PROVE ~Unread(chunks[i], offset)
  <2>0. chunks[i] \in Chunks
    BY <1>1
  <2>1. chunks[i].offset \in Nat /\ Len(chunks[i].text) \in Nat
    BY <2>0 DEF Chunks
  <2> QED
    BY <1>1, <2>1 DEF Within, Unread
<1>3. TextsAfter(chunks, offset) \in Seq({<<>>})
  BY <1>1, <1>2 DEF TextsAfter
<1> QED
  BY <1>3, FlattenNothing DEF TextAfter, TextsAfter

-----------------------------------------------------------------------------
(* Processes *)

Children == [state : {"none", "running", "exited", "reported"}, written : Nat, read : Nat]
Sessions == [known : BOOLEAN, chunks : Seq(Chunks), nextOffset : Nat, exited : BOOLEAN]
RunStates == {"none", "waiting", "returned", "rejected", "started"} \cup GivenUp
Runs == [state : RunStates, aborted : BOOLEAN]
Readers == [after : Nat, seen : Seq(Letters)]

ProcessGood(p) == LifeInv(p) /\ ReadInv(p) /\ TextInv(sessions[p], reader[p])

\* The process that moves keeps its part of the invariant, the others are as
\* they were.
ProcessStep(p) ==
  /\ ProcessTyped'
  /\ \A q \in Processes \ {p} :
       /\ child'[q] = child[q] /\ sessions'[q] = sessions[q]
       /\ runs'[q] = runs[q] /\ reader'[q] = reader[q]
  /\ ProcessGood(p)'

LEMMA ProcessStepInv ==
  ASSUME ProcessInv, NativeInv', NEW p \in Processes, ProcessStep(p)
  PROVE  ProcessInv'
<1>1. ASSUME NEW q \in Processes \ {p} PROVE ProcessGood(q)'
  <2>1. ProcessGood(q)
    BY DEF ProcessInv, ProcessGood
  <2>2. /\ child'[q] = child[q] /\ sessions'[q] = sessions[q]
        /\ runs'[q] = runs[q] /\ reader'[q] = reader[q]
    BY DEF ProcessStep
  <2> QED
    BY <2>1, <2>2 DEF ProcessGood, LifeInv, ReadInv, Waits
<1> QED
  BY <1>1 DEF ProcessInv, ProcessGood, ProcessStep

LEMMA Parts ==
  ASSUME ProcessInv, NEW p \in Processes
  PROVE  /\ child \in [Processes -> Children] /\ child[p] \in Children
         /\ sessions \in [Processes -> Sessions] /\ sessions[p] \in Sessions
         /\ runs \in [Processes -> Runs] /\ runs[p] \in Runs
         /\ reader \in [Processes -> Readers] /\ reader[p] \in Readers
         /\ up \in BOOLEAN
         /\ ProcessGood(p)
BY DEF ProcessInv, ProcessTyped, Children, Sessions, Runs, RunStates, Readers, ProcessGood

LEMMA PartsTyped ==
  ASSUME child' \in [Processes -> Children], sessions' \in [Processes -> Sessions],
         runs' \in [Processes -> Runs], reader' \in [Processes -> Readers],
         up' \in BOOLEAN
  PROVE  ProcessTyped'
BY DEF ProcessTyped, Children, Sessions, Runs, RunStates, Readers

LEMMA ChildIs ==
  ASSUME ProcessInv, NEW p \in Processes, NEW state \in {"none", "running", "exited", "reported"},
         child' = [child EXCEPT ![p].state = state]
  PROVE  /\ child' \in [Processes -> Children]
         /\ child'[p] = [child[p] EXCEPT !.state = state]
         /\ child'[p].state = state
         /\ child'[p].written = child[p].written /\ child'[p].read = child[p].read
         /\ \A q \in Processes \ {p} : child'[q] = child[q]
<1>1. child \in [Processes -> Children] /\ child[p] \in Children
  BY Parts
<1>2. [child[p] EXCEPT !.state = state] \in Children
  BY <1>1 DEF Children
<1> QED
  BY <1>1, <1>2 DEF Children

LEMMA KilledIs ==
  ASSUME ProcessInv, NEW p \in Processes, KillChild(p)
  PROVE  /\ child' \in [Processes -> Children]
         /\ child'[p].state = IF child[p].state = "running" THEN "exited" ELSE child[p].state
         /\ child'[p].written = child[p].written /\ child'[p].read = child[p].read
         /\ \A q \in Processes \ {p} : child'[q] = child[q]
<1> DEFINE state == IF child[p].state = "running" THEN "exited" ELSE child[p].state
<1>1. child' = [child EXCEPT ![p].state = state]
  BY DEF KillChild
<1>2. child[p].state \in {"none", "running", "exited", "reported"}
  BY Parts DEF Children
<1>3. state \in {"none", "running", "exited", "reported"}
  BY <1>2
<1> HIDE DEF state
<1>4. child' \in [Processes -> Children] /\ child'[p].state = state
      /\ child'[p].written = child[p].written /\ child'[p].read = child[p].read
      /\ \A q \in Processes \ {p} : child'[q] = child[q]
  BY <1>1, <1>3, ChildIs
<1> QED
  BY <1>4 DEF state

LEMMA SessionIs ==
  ASSUME ProcessInv, NEW p \in Processes, NEW s \in Sessions,
         sessions' = [sessions EXCEPT ![p] = s]
  PROVE  /\ sessions' \in [Processes -> Sessions] /\ sessions'[p] = s
         /\ \A q \in Processes \ {p} : sessions'[q] = sessions[q]
BY Parts

LEMMA RunBecomes ==
  ASSUME ProcessInv, NEW p \in Processes, NEW state \in RunStates, RunIs(p, state)
  PROVE  /\ runs' \in [Processes -> Runs]
         /\ runs'[p].state = state /\ runs'[p].aborted = runs[p].aborted
         /\ \A q \in Processes \ {p} : runs'[q] = runs[q]
<1>1. runs \in [Processes -> Runs] /\ runs[p] \in Runs
  BY Parts
<1>2. [runs[p] EXCEPT !.state = state] \in Runs
  BY <1>1 DEF Runs
<1> QED
  BY <1>1, <1>2 DEF RunIs, Runs

\* A step that moves no output and no offset need only keep the life of its process.
SameOutput(p) ==
  /\ sessions'[p].chunks = sessions[p].chunks
  /\ sessions'[p].nextOffset = sessions[p].nextOffset
  /\ child'[p].read = child[p].read /\ child'[p].written = child[p].written
  /\ reader' = reader

LEMMA LifeStep ==
  ASSUME ProcessInv, NEW p \in Processes, SameOutput(p), up' \in BOOLEAN,
         child' \in [Processes -> Children], sessions' \in [Processes -> Sessions],
         runs' \in [Processes -> Runs],
         \A q \in Processes \ {p} :
           child'[q] = child[q] /\ sessions'[q] = sessions[q] /\ runs'[q] = runs[q],
         LifeInv(p)'
  PROVE  ProcessStep(p)
<1>1. ProcessTyped'
  BY Parts, PartsTyped DEF SameOutput
<1>2. ProcessGood(p)
  BY Parts
<1>3. TextInv(sessions[p], reader[p])'
  BY <1>2 DEF ProcessGood, TextInv, SameOutput
<1>4. ReadInv(p)'
  BY <1>2 DEF ProcessGood, ReadInv, SameOutput
<1> QED
  BY <1>1, <1>3, <1>4 DEF ProcessStep, ProcessGood, SameOutput

LEMMA SpawnedIs ==
  ASSUME ProcessInv, NEW p \in Processes, NEW state \in {"none", "running", "exited"},
         Spawned(p, state)
  PROVE  /\ child' \in [Processes -> Children] /\ sessions' \in [Processes -> Sessions]
         /\ child'[p].state = state
         /\ child'[p].written = child[p].written /\ child'[p].read = child[p].read
         /\ sessions'[p].known /\ sessions'[p].exited = sessions[p].exited
         /\ sessions'[p].chunks = sessions[p].chunks
         /\ sessions'[p].nextOffset = sessions[p].nextOffset
         /\ \A q \in Processes \ {p} : child'[q] = child[q] /\ sessions'[q] = sessions[q]
<1> DEFINE s == [sessions[p] EXCEPT !.known = TRUE]
<1>1. sessions[p] \in Sessions
  BY Parts
<1>2. /\ s \in Sessions /\ s.known /\ s.exited = sessions[p].exited
      /\ s.chunks = sessions[p].chunks /\ s.nextOffset = sessions[p].nextOffset
  BY <1>1 DEF Sessions
<1>3. sessions' = [sessions EXCEPT ![p] = s]
  BY DEF Spawned
<1>4. child' = [child EXCEPT ![p].state = state]
  BY DEF Spawned
<1> HIDE DEF s
<1>5. /\ sessions' \in [Processes -> Sessions] /\ sessions'[p] = s
      /\ \A q \in Processes \ {p} : sessions'[q] = sessions[q]
  BY <1>2, <1>3, SessionIs
<1>6. /\ child' \in [Processes -> Children] /\ child'[p].state = state
      /\ child'[p].written = child[p].written /\ child'[p].read = child[p].read
      /\ \A q \in Processes \ {p} : child'[q] = child[q]
  BY <1>4, ChildIs
<1> QED
  BY <1>2, <1>5, <1>6

\* process_run and process_start begin on a process that was never started.
LEMMA StartsStep ==
  ASSUME ProcessInv, NEW p \in Processes,
         ProcessRun(p) \/ ProcessRunFails(p) \/ ProcessStart(p) \/ ProcessStartStrict(p)
  PROVE  ProcessStep(p)
<1>1. /\ runs[p].state = "none" /\ child[p].state = "none" /\ ~sessions[p].exited
      /\ up \in BOOLEAN /\ runs[p].aborted \in BOOLEAN
  BY Parts DEF ProcessRun, ProcessRunFails, ProcessStart, ProcessStartStrict, ProcessGood, LifeInv, Runs
<1>2. ASSUME NEW state \in RunStates, RunIs(p, state), NEW of \in {"none", "running", "exited"},
             Spawned(p, of), up' \in BOOLEAN, UNCHANGED reader,
             state # "none", state \in GivenUp => of # "running",
             runs[p].aborted => state # "waiting"
      PROVE  ProcessStep(p)
  <2>1. /\ runs' \in [Processes -> Runs]
        /\ runs'[p].state = state /\ runs'[p].aborted = runs[p].aborted
        /\ \A q \in Processes \ {p} : runs'[q] = runs[q]
    BY <1>2, RunBecomes
  <2>2. LifeInv(p)'
    BY <1>1, <1>2, <2>1, SpawnedIs DEF LifeInv, Waits
  <2>3. SameOutput(p)
    BY <1>2, SpawnedIs DEF SameOutput
  <2> QED
    BY <1>2, <2>1, <2>2, <2>3, SpawnedIs, LifeStep
<1>3. CASE ProcessRun(p)
  <2>1. /\ Begins(p) \in RunStates /\ Begins(p) # "none"
        /\ Begins(p) \in GivenUp => Begins(p) = "cancelled"
        /\ runs[p].aborted => Begins(p) # "waiting"
    BY <1>1 DEF Begins, RunStates, GivenUp
  <2>2. CASE Begins(p) = "cancelled"
    <3>1. Spawned(p, "exited") /\ RunIs(p, Begins(p)) /\ UNCHANGED <<up, reader>>
      BY <1>3, <2>2 DEF ProcessRun
    <3> QED
      BY <1>1, <1>2, <2>1, <2>2, <3>1
  <2>3. CASE Begins(p) # "cancelled"
    <3>1. Spawned(p, "running") /\ RunIs(p, Begins(p)) /\ UNCHANGED <<up, reader>>
      BY <1>3, <2>3 DEF ProcessRun
    <3> QED
      BY <1>1, <1>2, <2>1, <2>3, <3>1
  <2> QED
    BY <2>2, <2>3
<1>4. CASE ProcessRunFails(p)
  <2>1. Spawned(p, "none") /\ UNCHANGED reader /\ up' \in BOOLEAN
    BY <1>1, <1>4 DEF ProcessRunFails
  <2>2. RunIs(p, "cancelled") \/ RunIs(p, "rejected")
    BY <1>4 DEF ProcessRunFails
  <2>3. {"cancelled", "rejected"} \subseteq RunStates
    BY DEF RunStates, GivenUp
  <2> QED
    BY <1>2, <2>1, <2>2, <2>3
<1>5. CASE ProcessStart(p)
  <2>1. "started" \in RunStates /\ "started" \notin GivenUp
    BY DEF RunStates, GivenUp
  <2>2. RunIs(p, "started") /\ Spawned(p, "running") /\ UNCHANGED <<up, reader>>
    BY <1>5 DEF ProcessStart
  <2> QED
    BY <1>1, <1>2, <2>1, <2>2
<1>6. CASE ProcessStartStrict(p)
  <2>1. "rejected" \in RunStates /\ "rejected" \notin GivenUp
    BY DEF RunStates, GivenUp
  <2>2. RunIs(p, "rejected") /\ UNCHANGED <<up, child, sessions, reader>>
    BY <1>6 DEF ProcessStartStrict
  <2>3. /\ runs' \in [Processes -> Runs]
        /\ runs'[p].state = "rejected" /\ runs'[p].aborted = runs[p].aborted
        /\ \A q \in Processes \ {p} : runs'[q] = runs[q]
    BY <2>1, <2>2, RunBecomes
  <2>4. LifeInv(p)'
    BY <1>1, <2>1, <2>2, <2>3 DEF LifeInv, Waits
  <2>5. SameOutput(p)
    BY <2>2 DEF SameOutput
  <2> QED
    BY <1>1, <2>2, <2>3, <2>4, <2>5, LifeStep, Parts
<1> QED
  BY <1>3, <1>4, <1>5, <1>6

LEMMA EndsStep ==
  ASSUME ProcessInv, NEW p \in Processes, ChildEnds(p) \/ Terminate(p)
  PROVE  ProcessStep(p)
<1>0. /\ LifeInv(p) /\ up \in BOOLEAN /\ child[p].state \in {"none", "running", "exited", "reported"}
      /\ sessions \in [Processes -> Sessions] /\ runs \in [Processes -> Runs]
  BY Parts DEF ProcessGood, Children
<1>1. KillChild(p) /\ UNCHANGED <<up, sessions, runs, reader>>
  <2>1. CASE ChildEnds(p)
    <3>1. child' = [child EXCEPT ![p].state = "exited"] /\ child[p].state = "running"
          /\ UNCHANGED <<up, sessions, runs, reader>>
      BY <2>1 DEF ChildEnds
    <3> QED
      BY <3>1 DEF KillChild
  <2>2. CASE Terminate(p)
    BY <2>2 DEF Terminate
  <2> QED
    BY <2>1, <2>2
<1>2. LifeInv(p)'
  BY <1>0, <1>1, KilledIs DEF LifeInv, Waits
<1>3. SameOutput(p)
  BY <1>1, KilledIs DEF SameOutput
<1> QED
  BY <1>0, <1>1, <1>2, <1>3, KilledIs, LifeStep

LEMMA TimeoutStep ==
  ASSUME ProcessInv, NEW p \in Processes, RunTimeout(p)
  PROVE  ProcessStep(p)
<1>0. LifeInv(p) /\ up \in BOOLEAN /\ sessions \in [Processes -> Sessions] /\ Waits(p)
  BY Parts DEF ProcessGood, RunTimeout
<1>1. KillChild(p) /\ RunIs(p, "timedout") /\ UNCHANGED <<up, sessions, reader>>
  BY DEF RunTimeout
<1>2. /\ runs' \in [Processes -> Runs]
      /\ runs'[p].state = "timedout" /\ runs'[p].aborted = runs[p].aborted
      /\ \A q \in Processes \ {p} : runs'[q] = runs[q]
  <2>1. "timedout" \in RunStates
    BY DEF RunStates, GivenUp
  <2> QED
    BY <1>1, <2>1, RunBecomes
<1>3. child'[p].state # "running" /\ (child'[p].state # "none" => child[p].state # "none")
      /\ (child[p].state = "reported" => child'[p].state = "reported")
  BY <1>1, KilledIs
<1>4. LifeInv(p)'
  BY <1>0, <1>1, <1>2, <1>3 DEF LifeInv, Waits
<1>5. SameOutput(p)
  BY <1>1, KilledIs DEF SameOutput
<1> QED
  BY <1>0, <1>1, <1>2, <1>4, <1>5, KilledIs, LifeStep

LEMMA AbortStep ==
  ASSUME ProcessInv, NEW p \in Processes, RunAbort(p)
  PROVE  ProcessStep(p)
<1>0. /\ LifeInv(p) /\ up \in BOOLEAN /\ sessions \in [Processes -> Sessions]
      /\ runs \in [Processes -> Runs] /\ runs[p] \in Runs /\ child \in [Processes -> Children]
      /\ runs[p].state \in {"none", "waiting"}
      /\ UNCHANGED <<up, sessions, reader>>
  BY Parts DEF ProcessGood, RunAbort
<1>1. CASE Waits(p)
  <2> DEFINE r == [state |-> "cancelled", aborted |-> TRUE]
  <2>1. KillChild(p) /\ runs' = [runs EXCEPT ![p] = r]
    BY <1>1 DEF RunAbort
  <2>2. r \in Runs
    BY DEF Runs, RunStates, GivenUp
  <2>3. /\ runs' \in [Processes -> Runs] /\ runs'[p] = r
        /\ \A q \in Processes \ {p} : runs'[q] = runs[q]
    BY <1>0, <2>1, <2>2
  <2>4. child'[p].state # "running" /\ (child'[p].state # "none" => child[p].state # "none")
        /\ (child[p].state = "reported" => child'[p].state = "reported")
    BY <2>1, KilledIs
  <2>5. LifeInv(p)'
    BY <1>0, <2>3, <2>4 DEF LifeInv, Waits
  <2>6. SameOutput(p)
    BY <1>0, <2>1, KilledIs DEF SameOutput
  <2> QED
    BY <1>0, <2>1, <2>3, <2>5, <2>6, KilledIs, LifeStep
<1>2. CASE ~Waits(p)
  <2> DEFINE r == [runs[p] EXCEPT !.aborted = TRUE]
  <2>1. child' = child /\ runs' = [runs EXCEPT ![p] = r]
    BY <1>2 DEF RunAbort
  <2>2. r \in Runs /\ r.state = runs[p].state
    BY <1>0 DEF Runs
  <2> HIDE DEF r
  <2>3. /\ runs' \in [Processes -> Runs] /\ runs'[p].state = runs[p].state
        /\ \A q \in Processes \ {p} : runs'[q] = runs[q]
    BY <1>0, <2>1, <2>2
  <2>4. LifeInv(p)'
    BY <1>0, <1>2, <2>1, <2>3 DEF LifeInv, Waits
  <2>5. SameOutput(p)
    BY <1>0, <2>1 DEF SameOutput
  <2> QED
    BY <1>0, <2>1, <2>3, <2>4, <2>5, LifeStep
<1> QED
  BY <1>1, <1>2

LEMMA ExitStep ==
  ASSUME ProcessInv, NEW p \in Processes, ChildExit(p)
  PROVE  ProcessStep(p)
<1>0. /\ LifeInv(p) /\ up \in BOOLEAN /\ runs \in [Processes -> Runs] /\ sessions[p] \in Sessions
      /\ child[p].state = "exited" /\ UNCHANGED <<up, reader>>
  BY Parts DEF ProcessGood, ChildExit
<1>1. /\ child' \in [Processes -> Children] /\ child'[p].state = "reported"
      /\ child'[p].written = child[p].written /\ child'[p].read = child[p].read
      /\ \A q \in Processes \ {p} : child'[q] = child[q]
  <2>1. child' = [child EXCEPT ![p].state = "reported"]
    BY DEF ChildExit
  <2> QED
    BY <2>1, ChildIs
<1> DEFINE s == [sessions[p] EXCEPT !.exited = TRUE]
<1>2. sessions' = [sessions EXCEPT ![p] = s]
  BY DEF ChildExit
<1>3. /\ s \in Sessions /\ s.known = sessions[p].known
      /\ s.chunks = sessions[p].chunks /\ s.nextOffset = sessions[p].nextOffset
  BY <1>0 DEF Sessions
<1> HIDE DEF s
<1>4. /\ sessions' \in [Processes -> Sessions] /\ sessions'[p] = s
      /\ \A q \in Processes \ {p} : sessions'[q] = sessions[q]
  BY <1>2, <1>3, SessionIs
<1>5. /\ runs' \in [Processes -> Runs]
      /\ \A q \in Processes \ {p} : runs'[q] = runs[q]
      /\ runs'[p].aborted = runs[p].aborted
      /\ runs'[p].state = IF Waits(p) THEN "returned" ELSE runs[p].state
  <2>1. "returned" \in RunStates
    BY DEF RunStates
  <2>2. CASE Waits(p)
    BY <2>1, <2>2, RunBecomes DEF ChildExit
  <2>3. CASE ~Waits(p)
    BY <1>0, <2>3 DEF ChildExit
  <2> QED
    BY <2>2, <2>3
<1>6. LifeInv(p)'
  BY <1>0, <1>1, <1>3, <1>4, <1>5 DEF LifeInv, Waits, GivenUp
<1>7. SameOutput(p)
  BY <1>0, <1>1, <1>3, <1>4 DEF SameOutput
<1> QED
  BY <1>0, <1>1, <1>4, <1>5, <1>6, <1>7, LifeStep

-----------------------------------------------------------------------------
(* Output and polls *)

LEMMA OutputTyped ==
  ASSUME NEW p \in Processes
  PROVE  Output[p] \in Seq(Bytes) /\ Len(Output[p]) \in Nat /\ MaxOutput \in Nat \ {0}
BY ProcessToolsAssumption DEF Bytes

LEMMA WriteStep ==
  ASSUME ProcessInv, NEW p \in Processes, Write(p)
  PROVE  ProcessStep(p)
<1> DEFINE k == [child[p] EXCEPT !.written = @ + 1]
<1>0. /\ ProcessGood(p) /\ child \in [Processes -> Children] /\ child[p] \in Children
      /\ sessions \in [Processes -> Sessions] /\ runs \in [Processes -> Runs]
      /\ reader \in [Processes -> Readers] /\ up \in BOOLEAN
  BY Parts
<1>1. child' = [child EXCEPT ![p] = k] /\ child[p].written < Len(Output[p])
      /\ UNCHANGED <<up, sessions, runs, reader>>
  BY DEF Write
<1>2. /\ k \in Children /\ k.state = child[p].state /\ k.read = child[p].read
      /\ k.written = child[p].written + 1
  BY <1>0 DEF Children
<1> HIDE DEF k
<1>3. child' \in [Processes -> Children] /\ child'[p] = k
      /\ \A q \in Processes \ {p} : child'[q] = child[q]
  BY <1>0, <1>1, <1>2
<1>4. ProcessTyped'
  BY <1>0, <1>1, <1>3, PartsTyped
<1>5. child[p].written \in Nat /\ child[p].read \in Nat /\ Len(Output[p]) \in Nat
  BY <1>0, OutputTyped DEF Children
<1>6. ReadInv(p)'
  BY <1>0, <1>1, <1>2, <1>3, <1>5 DEF ProcessGood, ReadInv
<1>7. LifeInv(p)' /\ TextInv(sessions[p], reader[p])'
  BY <1>0, <1>1, <1>2, <1>3 DEF ProcessGood, LifeInv, Waits
<1> QED
  BY <1>1, <1>3, <1>4, <1>6, <1>7 DEF ProcessStep, ProcessGood

LEMMA SliceIs ==
  ASSUME NEW S, NEW s \in Seq(S), NEW from \in Nat, NEW to \in Nat, from < to, to <= Len(s)
  PROVE  SubSeq(s, from + 1, to) \in Seq(S) /\ Len(SubSeq(s, from + 1, to)) = to - from
OBVIOUS

LEMMA StaysBelow ==
  ASSUME NEW a \in Nat, NEW b \in Nat, NEW n \in Nat, NEW m \in Nat, a + b <= n
  PROVE  a + b <= n + m
OBVIOUS

LEMMA GrowsBelow ==
  ASSUME NEW n \in Nat, NEW old \in Nat, NEW from \in Nat, NEW to \in Nat,
         n <= old + 3 * (to - from), old <= 3 * from
  PROVE  n <= 3 * to
OBVIOUS

LEMMA JoinAfter ==
  ASSUME NEW seen \in Seq(Letters), NEW rest \in Seq(Letters), NEW text \in Seq(Letters)
  PROVE  /\ seen \o (rest \o text) = (seen \o rest) \o text
         /\ Len((seen \o rest) \o text) = Len(seen \o rest) + Len(text)
<1>1. seen \o rest \in Seq(Letters)
  OBVIOUS
<1> QED
  BY <1>1, ConcatAssociative, ConcatProperties

\* What is appended to a session: nothing at the limit; below it what there is
\* room for, and where something is dropped the limit is reached.
LEMMA AppendedIs ==
  ASSUME NEW s \in Sessions, NEW r \in Readers, TextInv(s, r), NEW data \in Seq(Bytes),
         MaxOutput \in Nat \ {0}, data # <<>>
  PROVE  /\ Appended(s, data) \in Sessions
         /\ Appended(s, data).known = s.known /\ Appended(s, data).exited = s.exited
         /\ s.nextOffset <= Appended(s, data).nextOffset
         /\ Appended(s, data).nextOffset <= s.nextOffset + 3 * Len(data)
         /\ TextInv(Appended(s, data), r)
<1>0. /\ s.nextOffset \in Nat /\ s.chunks \in Seq(Chunks) /\ r.after \in Nat
      /\ r.seen \in Seq(Letters) /\ Len(data) \in Nat \ {0}
  BY DEF Sessions, Readers
<1>1. CASE s.nextOffset >= MaxOutput
  BY <1>0, <1>1 DEF Appended
<1>2. CASE ~(s.nextOffset >= MaxOutput)
  <2> DEFINE room == MaxOutput - s.nextOffset
             n == IF room < Len(data) THEN room ELSE Len(data)
             text == Decoded(SubSeq(data, 1, n))
             c == [offset |-> s.nextOffset, text |-> text]
             a == [s EXCEPT !.chunks = Append(@, c), !.nextOffset = @ + Len(text)]
  <2>1. room \in Nat \ {0} /\ n \in 1..Len(data) /\ (room < Len(data) => n = room)
    BY <1>0, <1>2
  <2>2. Appended(s, data) = a
    BY <1>2 DEF Appended
  <2>3. SubSeq(data, 1, n) \in Seq(Bytes) /\ Len(SubSeq(data, 1, n)) = n
    <3> HIDE DEF n
    <3> QED
      BY <1>0, <2>1
  <2>4. text \in Seq(Letters) /\ n <= Len(text) /\ Len(text) <= 3 * n
    BY <2>3, DecodedLength
  <2> HIDE DEF text
  <2>5. Len(text) \in Nat /\ 1 <= Len(text) /\ Len(text) <= 3 * Len(data)
    <3>1. Len(text) \in Nat
      BY <2>4
    <3> HIDE DEF n
    <3> QED
      BY <1>0, <2>1, <2>4, <3>1
  <2>6. c \in Chunks /\ c.offset = s.nextOffset /\ c.text = text
    BY <1>0, <2>4 DEF Chunks
  <2> HIDE DEF c
  <2>7. Append(s.chunks, c) \in Seq(Chunks) /\ s.nextOffset + Len(text) \in Nat
    BY <1>0, <2>5, <2>6
  <2>8. /\ a \in Sessions /\ a.known = s.known /\ a.exited = s.exited
        /\ a.chunks = Append(s.chunks, c) /\ a.nextOffset = s.nextOffset + Len(text)
    BY <2>7 DEF Sessions
  <2> HIDE DEF a
  <2>9. Within(a.chunks, a.nextOffset)
    <3>1. /\ Len(s.chunks) \in Nat /\ DOMAIN s.chunks = 1..Len(s.chunks)
          /\ DOMAIN a.chunks = 1..(Len(s.chunks) + 1)
          /\ a.chunks[Len(s.chunks) + 1] = c
          /\ \A i \in 1..Len(s.chunks) : a.chunks[i] = s.chunks[i]
      BY <1>0, <2>6, <2>8
    <3>2. ASSUME NEW i \in DOMAIN a.chunks
          PROVE  a.chunks[i].offset + Len(a.chunks[i].text) <= a.nextOffset
      <4>1. CASE i = Len(s.chunks) + 1
        BY <1>0, <2>5, <2>6, <2>8, <3>1, <4>1
      <4>2. CASE i # Len(s.chunks) + 1
        <5>1. i \in DOMAIN s.chunks /\ a.chunks[i] = s.chunks[i] /\ s.chunks[i] \in Chunks
          BY <1>0, <3>1, <4>2
        <5>2. s.chunks[i].offset + Len(s.chunks[i].text) <= s.nextOffset
          BY <5>1 DEF TextInv, Within
        <5>3. s.chunks[i].offset \in Nat /\ s.chunks[i].text \in Seq(Letters)
          BY <5>1 DEF Chunks
        <5>4. Len(s.chunks[i].text) \in Nat
          BY <5>3
        <5> QED
          BY <1>0, <2>5, <2>8, <5>1, <5>2, <5>3, <5>4, StaysBelow
      <4> QED
        BY <4>1, <4>2
    <3> QED
      BY <3>2 DEF Within
  <2>10. Unread(c, r.after)
    <3>1. r.after <= s.nextOffset
      BY DEF TextInv
    <3> QED
      BY <1>0, <2>5, <2>6, <3>1 DEF Unread
  <2>11. /\ Text(a.chunks) = Text(s.chunks) \o text
         /\ TextAfter(a.chunks, r.after) = TextAfter(s.chunks, r.after) \o text
    BY <1>0, <2>6, <2>8, <2>10, TextAppend
  <2>12. Text(s.chunks) \in Seq(Letters) /\ TextAfter(s.chunks, r.after) \in Seq(Letters)
    BY <1>0, TextsTyped
  <2> HIDE DEF n, room
  <2>13. r.seen \o (TextAfter(s.chunks, r.after) \o text) = Text(s.chunks) \o text
         /\ Len(Text(s.chunks) \o text) = Len(Text(s.chunks)) + Len(text)
    <3>1. r.seen \o TextAfter(s.chunks, r.after) = Text(s.chunks)
      BY DEF TextInv
    <3>2. r.seen \in Seq(Letters)
      BY <1>0
    <3>3. text \in Seq(Letters)
      BY <2>4
    <3> DEFINE rest == TextAfter(s.chunks, r.after)
    <3>4. rest \in Seq(Letters)
      BY <2>12
    <3>5. r.seen \o rest = Text(s.chunks)
      BY <3>1
    <3> HIDE DEF rest
    <3>6. /\ r.seen \o (rest \o text) = (r.seen \o rest) \o text
          /\ Len((r.seen \o rest) \o text) = Len(r.seen \o rest) + Len(text)
      BY <3>2, <3>3, <3>4, JoinAfter
    <3>7. /\ r.seen \o (rest \o text) = Text(s.chunks) \o text
          /\ Len(Text(s.chunks) \o text) = Len(Text(s.chunks)) + Len(text)
      BY <3>5, <3>6
    <3> QED
      BY <3>7 DEF rest
  <2>14. Len(Text(a.chunks)) = a.nextOffset /\ r.seen \o TextAfter(a.chunks, r.after) = Text(a.chunks)
    BY <2>8, <2>11, <2>13 DEF TextInv
  <2>15. TextInv(a, r)
    BY <1>0, <2>5, <2>8, <2>9, <2>14 DEF TextInv
  <2> QED
    BY <1>0, <2>2, <2>5, <2>8, <2>15
<1> QED
  BY <1>1, <1>2

LEMMA ReadStep ==
  ASSUME ProcessInv, NEW p \in Processes, ReadOutput(p)
  PROVE  ProcessStep(p)
<1>0. /\ ProcessGood(p) /\ child \in [Processes -> Children] /\ child[p] \in Children
      /\ sessions \in [Processes -> Sessions] /\ sessions[p] \in Sessions
      /\ runs \in [Processes -> Runs]
      /\ reader \in [Processes -> Readers] /\ reader[p] \in Readers
      /\ up \in BOOLEAN
  BY Parts
<1>1. PICK upTo \in (child[p].read + 1)..child[p].written :
        LET data == SubSeq(Output[p], child[p].read + 1, upTo)
        IN /\ sessions' = [sessions EXCEPT ![p] = Appended(@, data)]
           /\ child' = [child EXCEPT ![p].read = upTo]
  BY DEF ReadOutput
<1> DEFINE data == SubSeq(Output[p], child[p].read + 1, upTo)
           s == Appended(sessions[p], data)
           k == [child[p] EXCEPT !.read = upTo]
<1>2. UNCHANGED <<up, runs, reader>>
  BY DEF ReadOutput
<1>3. /\ child[p].read \in Nat /\ child[p].written \in Nat /\ Len(Output[p]) \in Nat
      /\ child[p].written <= Len(Output[p]) /\ sessions[p].nextOffset \in Nat
      /\ sessions[p].nextOffset <= 3 * child[p].read
  BY <1>0, OutputTyped DEF Children, ProcessGood, ReadInv, Sessions
<1>4. data \in Seq(Bytes) /\ Len(data) = upTo - child[p].read /\ Len(data) \in Nat \ {0}
  <2>0. upTo \in (child[p].read + 1)..child[p].written
    OBVIOUS
  <2>1. upTo \in Nat /\ child[p].read < upTo /\ upTo <= Len(Output[p])
    <3> HIDE DEF data, s, k
    <3> QED
      BY <1>3, <2>0
  <2>2. data \in Seq(Bytes) /\ Len(data) = upTo - child[p].read
    <3>1. Output[p] \in Seq(Bytes)
      BY OutputTyped
    <3>2. child[p].read \in Nat /\ upTo \in Nat /\ child[p].read < upTo /\ upTo <= Len(Output[p])
      BY <1>3, <2>1
    <3> QED
      BY <3>1, <3>2, SliceIs
  <2> HIDE DEF data
  <2> QED
    BY <1>3, <2>1, <2>2
<1>5. /\ sessions' = [sessions EXCEPT ![p] = s] /\ child' = [child EXCEPT ![p] = k]
  BY <1>1
<1>6. k \in Children /\ k.state = child[p].state /\ k.read = upTo /\ k.written = child[p].written
  <2>1. upTo \in Nat
    BY <1>3
  <2> QED
    BY <1>0, <2>1 DEF Children
<1> HIDE DEF data
<1>7. /\ s \in Sessions /\ s.known = sessions[p].known /\ s.exited = sessions[p].exited
      /\ s.nextOffset <= sessions[p].nextOffset + 3 * Len(data)
      /\ sessions[p].nextOffset <= s.nextOffset
      /\ TextInv(s, reader[p])
  <2>1. TextInv(sessions[p], reader[p]) /\ data # <<>>
    BY <1>0, <1>4 DEF ProcessGood
  <2> QED
    BY <1>0, <1>4, <2>1, OutputTyped, AppendedIs
<1> HIDE DEF s, k
<1>8. /\ sessions' \in [Processes -> Sessions] /\ sessions'[p] = s
      /\ child' \in [Processes -> Children] /\ child'[p] = k
      /\ \A q \in Processes \ {p} : sessions'[q] = sessions[q] /\ child'[q] = child[q]
  BY <1>0, <1>5, <1>6, <1>7
<1>9. ProcessTyped'
  BY <1>0, <1>2, <1>8, PartsTyped
<1>10. LifeInv(p)'
  BY <1>0, <1>2, <1>6, <1>7, <1>8 DEF ProcessGood, LifeInv, Waits
<1>11. ReadInv(p)'
  <2>2. upTo \in Nat /\ upTo <= child[p].written
    BY <1>3
  <2>1. s.nextOffset <= 3 * upTo
    <3>1. s.nextOffset \in Nat
      BY <1>7 DEF Sessions
    <3>2. s.nextOffset <= sessions[p].nextOffset + 3 * (upTo - child[p].read)
      BY <1>4, <1>7
    <3> QED
      BY <1>3, <2>2, <3>1, <3>2, GrowsBelow
  <2> QED
    BY <1>3, <1>6, <1>8, <2>1, <2>2 DEF ReadInv
<1>12. TextInv(sessions[p], reader[p])'
  BY <1>2, <1>7, <1>8
<1> QED
  BY <1>2, <1>8, <1>9, <1>10, <1>11, <1>12 DEF ProcessStep, ProcessGood

LEMMA PollStep ==
  ASSUME ProcessInv, NEW p \in Processes, Poll(p)
  PROVE  ProcessStep(p)
<1>0. /\ ProcessGood(p) /\ child \in [Processes -> Children]
      /\ sessions \in [Processes -> Sessions] /\ sessions[p] \in Sessions
      /\ runs \in [Processes -> Runs]
      /\ reader \in [Processes -> Readers] /\ reader[p] \in Readers
      /\ up \in BOOLEAN
      /\ UNCHANGED <<up, child, sessions, runs>>
  BY Parts DEF Poll
<1> DEFINE chunks == sessions[p].chunks
           offset == sessions[p].nextOffset
           r == [after |-> offset, seen |-> reader[p].seen \o TextAfter(chunks, reader[p].after)]
<1>1. reader' = [reader EXCEPT ![p] = r]
  BY DEF Poll
<1>2. /\ chunks \in Seq(Chunks) /\ offset \in Nat
      /\ reader[p].after \in Nat /\ reader[p].seen \in Seq(Letters)
  BY <1>0 DEF Sessions, Readers
<1>3. Within(chunks, offset) /\ Len(Text(chunks)) = offset
      /\ reader[p].seen \o TextAfter(chunks, reader[p].after) = Text(chunks)
  BY <1>0 DEF ProcessGood, TextInv
<1>4. Text(chunks) \in Seq(Letters)
  BY <1>2, TextsTyped
<1>5. r \in Readers /\ r.after = offset /\ r.seen = Text(chunks)
  BY <1>2, <1>3, <1>4 DEF Readers
<1> HIDE DEF r
<1>6. reader' \in [Processes -> Readers] /\ reader'[p] = r
      /\ \A q \in Processes \ {p} : reader'[q] = reader[q]
  BY <1>0, <1>1, <1>5
<1>7. TextInv(sessions[p], r)
  <2>1. TextAfter(chunks, offset) = <<>>
    BY <1>2, <1>3, NothingLeft
  <2>2. Text(chunks) \o <<>> = Text(chunks)
    BY <1>4
  <2> QED
    BY <1>2, <1>3, <1>5, <2>1, <2>2 DEF TextInv
<1>8. ProcessTyped'
  BY <1>0, <1>6, PartsTyped
<1>9. LifeInv(p)' /\ ReadInv(p)'
  BY <1>0 DEF ProcessGood, LifeInv, ReadInv, Waits
<1>10. TextInv(sessions[p], reader[p])'
  BY <1>0, <1>6, <1>7
<1> QED
  BY <1>0, <1>6, <1>8, <1>9, <1>10 DEF ProcessStep, ProcessGood

-----------------------------------------------------------------------------
(* Theorems *)

LEMMA ProcessInitInv == Init => ProcessInv
<1> SUFFICES ASSUME Init PROVE ProcessInv
  OBVIOUS
<1>1. NativeInv
  BY NativeInitInv DEF Init
<1>2. /\ child = [p \in Processes |-> [state |-> "none", written |-> 0, read |-> 0]]
      /\ sessions = [p \in Processes |-> NoSession]
      /\ runs = [p \in Processes |-> [state |-> "none", aborted |-> FALSE]]
      /\ reader = [p \in Processes |-> [after |-> 0, seen |-> <<>>]]
      /\ up = TRUE
  BY DEF Init
<1>3. NoSession \in Sessions /\ NoSession.chunks = <<>> /\ NoSession.nextOffset = 0
      /\ ~NoSession.exited
  BY DEF NoSession, Sessions
<1>4. ProcessTyped
  BY <1>2, <1>3 DEF ProcessTyped, Sessions
<1>5. ASSUME NEW p \in Processes PROVE ProcessGood(p)
  <2>1. LifeInv(p)
    BY <1>2, <1>3 DEF LifeInv, Waits, GivenUp
  <2>2. ReadInv(p)
    BY <1>2, <1>3, OutputTyped DEF ReadInv
  <2>3. Text(<<>>) = <<>> /\ TextAfter(<<>>, 0) = <<>>
    <3>1. FlattenSeq(<<>>) = <<>>
      BY DEF FlattenSeq
    <3>2. /\ [i \in DOMAIN <<>> |-> (<<>>)[i].text] = <<>>
          /\ [i \in DOMAIN <<>> |-> IF Unread((<<>>)[i], 0) THEN (<<>>)[i].text ELSE <<>>] = <<>>
      OBVIOUS
    <3> QED
      BY <3>1, <3>2 DEF Text, TextAfter
  <2>4. TextInv(sessions[p], reader[p])
    <3>1. sessions[p].chunks = <<>> /\ sessions[p].nextOffset = 0
          /\ reader[p].after = 0 /\ reader[p].seen = <<>>
      BY <1>2, <1>3
    <3>2. <<>> \o <<>> = <<>> /\ Len(<<>>) = 0
      OBVIOUS
    <3> QED
      BY <2>3, <3>1, <3>2 DEF TextInv, Within
  <2> QED
    BY <1>2, <2>1, <2>2, <2>4 DEF ProcessGood
<1> QED
  BY <1>1, <1>4, <1>5 DEF ProcessInv, ProcessGood

LEMMA SameProcesses ==
  ASSUME ProcessInv, NativeInv', up' \in BOOLEAN, UNCHANGED processVars
  PROVE  ProcessInv'
BY DEF ProcessInv, ProcessTyped, LifeInv, ReadInv, Waits, processVars

LEMMA ProcessNextInv == ProcessInv /\ [Next]_vars => ProcessInv'
<1> SUFFICES ASSUME ProcessInv, [Next]_vars PROVE ProcessInv'
  OBVIOUS
<1>0. up \in BOOLEAN
  BY DEF ProcessInv, ProcessTyped
<1>1. UNCHANGED nativeVars => NativeInv'
  BY NativeNextInv DEF ProcessInv
<1>2. CASE UNCHANGED vars
  BY <1>0, <1>1, <1>2, SameProcesses DEF vars
<1>3. CASE RunStrict
  <2>1. NativeInv'
    BY <1>3, NativeNextInv DEF RunStrict, ProcessInv
  <2> QED
    BY <1>0, <1>3, <2>1, SameProcesses DEF RunStrict
<1>4. ASSUME NEW p \in Processes, Write(p) PROVE ProcessInv'
  BY <1>1, <1>4, WriteStep, ProcessStepInv DEF Write
<1>5. ASSUME NEW p \in Processes, ReadOutput(p) PROVE ProcessInv'
  BY <1>1, <1>5, ReadStep, ProcessStepInv DEF ReadOutput
<1>6. ASSUME NEW p \in Processes,
             ProcessRun(p) \/ ProcessRunFails(p) \/ ProcessStart(p) \/ ProcessStartStrict(p)
      PROVE  ProcessInv'
  <2>1. UNCHANGED nativeVars
    BY <1>6 DEF ProcessRun, ProcessRunFails, ProcessStart, ProcessStartStrict
  <2> QED
    BY <1>1, <1>6, <2>1, StartsStep, ProcessStepInv
<1>7. ASSUME NEW p \in Processes, ProcessStartFails(p) \/ InputBreaks(p) PROVE ProcessInv'
  <2>1. up' = FALSE /\ UNCHANGED <<nativeVars, processVars>>
    BY <1>7 DEF ProcessStartFails, InputBreaks
  <2> QED
    BY <1>1, <2>1, SameProcesses
<1>8. ASSUME NEW p \in Processes, ChildEnds(p) \/ Terminate(p) PROVE ProcessInv'
  <2>1. UNCHANGED nativeVars
    BY <1>8 DEF ChildEnds, Terminate
  <2> QED
    BY <1>1, <1>8, <2>1, EndsStep, ProcessStepInv
<1>9. ASSUME NEW p \in Processes, ChildExit(p) PROVE ProcessInv'
  BY <1>1, <1>9, ExitStep, ProcessStepInv DEF ChildExit
<1>10. ASSUME NEW p \in Processes, RunTimeout(p) PROVE ProcessInv'
  BY <1>1, <1>10, TimeoutStep, ProcessStepInv DEF RunTimeout
<1>11. ASSUME NEW p \in Processes, RunAbort(p) PROVE ProcessInv'
  BY <1>1, <1>11, AbortStep, ProcessStepInv DEF RunAbort
<1>12. ASSUME NEW p \in Processes, Poll(p) PROVE ProcessInv'
  BY <1>1, <1>12, PollStep, ProcessStepInv DEF Poll
<1>13. CASE Next
  BY <1>3, <1>4, <1>5, <1>6, <1>7, <1>8, <1>9, <1>10, <1>11, <1>12, <1>13 DEF Next
<1> QED
  BY <1>2, <1>13

\* The inductive invariant of sessions, calls and helpers: how a process, its
\* session and its call go together, and that what a client has and what it
\* will be sent make up the text of the session.
THEOREM ProcessInvariant == Spec => []ProcessInv
BY ProcessInitInv, ProcessNextInv, PTL DEF Spec

\* Sessions, calls and readers keep their types, and offsets their bounds: the
\* text of a session is at most three times what was read (append,
\* process-tools.ts:82).
THEOREM ProcessTypeCorrect == Spec => []ProcessTypeOK
<1>1. ProcessInv => ProcessTypeOK
  <2> SUFFICES ASSUME ProcessInv PROVE ProcessTypeOK
    OBVIOUS
  <2>1. ASSUME NEW p \in Processes
        PROVE  /\ child[p].state \in {"none", "running", "exited", "reported"}
               /\ child[p].written \in 0..Len(Output[p])
               /\ child[p].read \in 0..child[p].written
               /\ sessions[p].nextOffset \in 0..(3 * Len(Output[p]))
               /\ sessions[p].exited => child[p].state = "reported"
               /\ child[p].state # "none" => sessions[p].known
               /\ runs[p].state \in {"none", "waiting", "returned", "rejected", "started"} \cup GivenUp
               /\ reader[p].after \in 0..sessions[p].nextOffset
    <3>1. /\ child[p] \in Children /\ sessions[p] \in Sessions /\ runs[p] \in Runs
          /\ reader[p] \in Readers /\ LifeInv(p) /\ ReadInv(p) /\ TextInv(sessions[p], reader[p])
      BY Parts DEF ProcessGood
    <3>2. Len(Output[p]) \in Nat
      BY OutputTyped
    <3>3. /\ child[p].written \in Nat /\ child[p].read \in Nat
          /\ sessions[p].nextOffset \in Nat /\ reader[p].after \in Nat
      BY <3>1 DEF Children, Sessions, Readers
    <3>4. child[p].written <= Len(Output[p]) /\ child[p].read <= child[p].written
          /\ sessions[p].nextOffset <= 3 * child[p].read
          /\ reader[p].after <= sessions[p].nextOffset
      BY <3>1 DEF ReadInv, TextInv
    <3>5. sessions[p].nextOffset <= 3 * Len(Output[p])
      BY <3>2, <3>3, <3>4
    <3> QED
      BY <3>1, <3>2, <3>3, <3>4, <3>5 DEF Children, Runs, RunStates, LifeInv
  <2> QED
    BY <2>1 DEF ProcessTypeOK, ProcessInv, NativeInv, ProcessTyped
<1> QED
  BY <1>1, ProcessInvariant, PTL

\* For any output, in any pieces and however the limit cuts its characters, a
\* client that polls gets the text the session keeps once and in order
\* (process_poll, process-tools.ts:247).
THEOREM PollsGetAllOnce == Spec => []PolledOnce
<1>1. ProcessInv => PolledOnce
  <2> SUFFICES ASSUME ProcessInv, NEW p \in Processes
               PROVE  reader[p].seen = SubSeq(Text(sessions[p].chunks), 1, reader[p].after)
    BY DEF PolledOnce, Text
  <2>1. /\ sessions[p] \in Sessions /\ reader[p] \in Readers
        /\ TextInv(sessions[p], reader[p])
    BY Parts DEF ProcessGood
  <2> DEFINE seen == reader[p].seen
             rest == TextAfter(sessions[p].chunks, reader[p].after)
  <2>2. seen \in Seq(Letters) /\ rest \in Seq(Letters)
    <3>1. sessions[p].chunks \in Seq(Chunks) /\ reader[p].after \in Nat
      BY <2>1 DEF Sessions, Readers
    <3> QED
      BY <2>1, <3>1, TextsTyped DEF Readers
  <2>3. Text(sessions[p].chunks) = seen \o rest /\ Len(seen) = reader[p].after
    BY <2>1 DEF TextInv
  <2> HIDE DEF seen, rest
  <2>4. SubSeq(seen \o rest, 1, Len(seen)) = seen
    BY <2>2
  <2> QED
    BY <2>1, <2>3, <2>4 DEF seen
<1> QED
  BY <1>1, ProcessInvariant, PTL

\* In any order of exits, timers and signals, a call that was given up has
\* ended its process, a signal is heard, and what the helper is said to have
\* done it has done (process_run, NativeClient.call).
THEOREM CallsEndAsReported == Spec => []EndsAsReported
<1>1. ProcessInv => EndsAsReported
  <2> SUFFICES ASSUME ProcessInv PROVE EndsAsReported
    OBVIOUS
  <2>1. \A p \in Processes : LifeInv(p)
    BY DEF ProcessInv
  <2>2. \A c \in NativeCalls : NativeCallInv(c)
    BY DEF ProcessInv, NativeInv
  <2> QED
    BY <2>1, <2>2 DEF EndsAsReported, LifeInv, NativeCallInv
<1> QED
  BY <1>1, ProcessInvariant, PTL
=============================================================================
