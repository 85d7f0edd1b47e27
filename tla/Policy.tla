------------------------------- MODULE Policy -------------------------------
(***************************************************************************)
(* evaluatePolicy (policy.ts) and the subjects it compares                 *)
(* (path-policy.ts).                                                       *)
(*                                                                         *)
(* A path is the sequence of its names from the drive on, resolved and in  *)
(* lower case as normalizeWindowsPath leaves it.  A tool pattern is the    *)
(* set of the tools it matches with the number of its literal characters.  *)
(* A field that a rule or a request may leave out is a set of at most one. *)
(***************************************************************************)
EXTENDS Integers, Sequences

CONSTANTS NameLength   \* characters of each name in a path

Decisions == {"allow", "prompt", "deny"}

\* "c:\" keeps its separator, other paths end with a name.
PathLength(path) ==
  LET upTo[n \in 0..Len(path)] ==
        IF n = 0 THEN 0 ELSE upTo[n - 1] + NameLength[path[n]] + 1
  IN IF Len(path) = 1 THEN upTo[1] ELSE upTo[Len(path)] - 1

\* A path lies in a root, but in no drive: "c:\" followed by a separator
\* begins no path.
PathContains(root, path) ==
  \/ path = root
  \/ /\ Len(root) \in 2..Len(path)
     /\ SubSeq(path, 1, Len(root)) = root

SubjectSpecificity(subject) ==
  IF subject.kind \in {"path", "executable"}
  THEN PathLength(subject.value) + 100
  ELSE NameLength[subject.value[1]] + 50

SubjectsMatch(subject, requested) ==
  /\ subject.kind = requested.kind
  /\ IF subject.kind = "path"
     THEN PathContains(subject.value, requested.value)
     ELSE subject.value = requested.value

MatchRule(rule, request) ==
  /\ request.capability \in rule.capabilities
  /\ \A tools \in rule.tools : \E pattern \in tools : request.tool \in pattern.matches
  /\ \A subjects \in rule.subjects :
       \E subject \in subjects : \E requested \in request.subject : SubjectsMatch(subject, requested)

Largest(S) == CHOOSE n \in S : \A m \in S : m <= n

\* The largest specificity of all subjects counts, whichever of them matched.
Specificity(rule) ==
  10 + (IF rule.tools = {} THEN 0
        ELSE Largest({pattern.literal : pattern \in UNION rule.tools}))
     + (IF rule.subjects = {} THEN 0
        ELSE Largest({SubjectSpecificity(subject) : subject \in UNION rule.subjects}))

Matches(rules, request) == {i \in DOMAIN rules : MatchRule(rules[i], request)}
Denials(rules, request) == {i \in Matches(rules, request) : rules[i].decision = "deny"}

\* The first of the sorted rules; the sort is stable.
FirstOf(rules, S) ==
  CHOOSE i \in S : \A j \in S :
    \/ Specificity(rules[i]) > Specificity(rules[j])
    \/ Specificity(rules[i]) = Specificity(rules[j]) /\ i <= j

\* Slip: a denial is a rule like any other.
SelectedAlike(rules, request) == FirstOf(rules, Matches(rules, request))

Selected(rules, request) ==
  IF Denials(rules, request) # {}
  THEN FirstOf(rules, Denials(rules, request))
  ELSE FirstOf(rules, Matches(rules, request))

EvaluatePolicy(profile, request) ==
  IF Matches(profile.rules, request) = {}
  THEN profile.defaultDecision
  ELSE profile.rules[Selected(profile.rules, request)].decision
=============================================================================
