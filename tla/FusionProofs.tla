---------------------------- MODULE FusionProofs -----------------------------
(***************************************************************************)
(* The metering of FusionDispatch's panels, proved for any requests,       *)
(* panels of any length and any buckets, and that its statistics are what  *)
(* its clients are billed.                                                 *)
(*                                                                         *)
(* PanelCallsMetered is not inductive: a member whose first call took a    *)
(* token may still retry without one.  The invariant counts those over all *)
(* panels, and a panel that starts draws from each bucket at most what it  *)
(* holds, although its members draw one after the other.  The statistics   *)
(* are the size of the set of tokens that were billed.                     *)
(***************************************************************************)
EXTENDS FusionDispatch, FiniteSetTheorems, WellFoundedInduction, TLAPS

FusionFields == {"phase", "panel", "members", "judge", "judging", "bill"}

(* A dispatch whose members sit beside its candidates, and one that pauses *)
(* has its retry left.  (What it bills is a fold over the members, which   *)
(* the metering does not need.)                                            *)
Paired(d) ==
  /\ d = [f \in FusionFields |-> d[f]]
  /\ d.panel \in Seq(Candidates) /\ d.members \in Seq(Calling)
  /\ Len(d.members) = Len(d.panel)
  /\ \A i \in DOMAIN d.members : d.members[i].phase = "backoff" => d.members[i].retries = 0

PanelsPaired ==
  /\ req = [r \in Requests |-> req[r]]
  /\ \A r \in Requests : Paired(req[r])

BucketsHold ==
  /\ tokens \in [Limited -> Nat]
  /\ calls \in [Providers -> Nat]

(* The members at provider p that have not used their retry.               *)
Owing(p) ==
  {m \in Requests \X Nat :
     /\ req[m[1]].phase = "panel"
     /\ m[2] \in DOMAIN req[m[1]].members
     /\ Out(req[m[1]].members[m[2]]) /\ req[m[1]].members[m[2]].retries = 0
     /\ ProviderOf[req[m[1]].panel[m[2]]] = p}

RetriesCounted ==
  \A p \in Limited :
    /\ IsFiniteSet(Owing(p))
    /\ calls[p] + 2 * tokens[p] + Cardinality(Owing(p)) <= 2 * Capacity[p]

IInv == PanelsPaired /\ BucketsHold /\ RetriesCounted

-----------------------------------------------------------------------------
(* A nonempty set of positions has a last one.                             *)
Below == OpToRel(<, Nat)

LEMMA BelowIsLess == ASSUME NEW x \in Nat, NEW y \in Nat, x < y PROVE <<x, y>> \in Below
BY DEF Below, OpToRel

LEMMA LastPosition ==
  ASSUME NEW n \in Nat, NEW S \in SUBSET (1..n), S # {}
  PROVE  \E m \in S : S \subseteq 1..m
<1>. DEFINE U == {k \in Nat : \A i \in S : i <= k}
<1>1. n \in U
  OBVIOUS
<1>2. PICK m \in U : \A k \in U : ~ (<<k, m>> \in Below)
  <2>. HIDE DEF U
  <2>1. IsWellFoundedOn(Below, Nat)
    BY NatLessThanWellFounded DEF Below
  <2>2. U \subseteq Nat /\ U # {}
    BY <1>1 DEF U
  <2>. QED
    BY <2>1, <2>2, WFMin
<1>3. \A k \in U : ~(k < m)
  BY <1>2, BelowIsLess
<1>4. m \in S
  <2>. SUFFICES ASSUME m \notin S PROVE FALSE
    OBVIOUS
  <2>1. \E j \in S : j \in Nat /\ j >= 1 /\ j <= m
    <3>1. PICK j : j \in S
      BY Zenon
    <3>. QED
      BY <3>1
  <2>2. m \in Nat /\ m >= 1 /\ \A i \in S : i \in Nat /\ i <= m - 1
    BY <2>1
  <2>3. m - 1 \in U
    BY <2>2
  <2>. QED
    BY <2>2, <2>3, <1>3
<1>. QED
  BY <1>4

(* A panel takes no more tokens of a bucket than it holds.                 *)
LEMMA TakesFromBucket ==
  ASSUME BucketsHold, NEW p \in Limited, NEW panel \in Seq(Candidates)
  PROVE  Takes(panel, p) \in Nat /\ Takes(panel, p) <= tokens[p]
<1>. DEFINE At(i) == {j \in 1..i : ProviderOf[panel[j]] = p}
            S == {i \in DOMAIN panel : ProviderOf[panel[i]] = p /\ Granted(panel, i)}
<1>1. tokens[p] \in Nat /\ Takes(panel, p) = Cardinality(S)
  BY DEF BucketsHold, Takes
<1>2. CASE S = {}
  <2>1. Cardinality(S) = 0
    BY <1>2, FS_EmptySet
  <2>. QED
    BY <1>1, <2>1
<1>3. CASE S # {}
  <2>1. S \in SUBSET (1..Len(panel)) /\ Len(panel) \in Nat
    OBVIOUS
  <2>2. PICK m \in S : S \subseteq 1..m
    <3>. HIDE DEF S
    <3>. QED
      BY <1>3, <2>1, LastPosition
  <2>3. S \in SUBSET At(m) /\ At(m) \in SUBSET (1..m) /\ m \in Nat
    BY <2>1, <2>2
  <2>4. IsFiniteSet(At(m)) /\ Cardinality(At(m)) \in Nat
    <3>1. IsFiniteSet(1..m)
      BY <2>3, FS_Interval
    <3>. QED
      BY <2>3, <3>1, FS_Subset, FS_CardinalityType
  <2>5. Cardinality(At(m)) <= tokens[p]
    <3>1. ProviderOf[panel[m]] = p /\ Granted(panel, m)
      BY <2>2
    <3>2. Own(p, panel, m) = Cardinality(At(m))
      BY DEF Own
    <3>. QED
      BY <3>1, <3>2 DEF Granted
  <2>6. Cardinality(S) \in Nat /\ Cardinality(S) <= Cardinality(At(m))
    BY <2>3, <2>4, FS_Subset, FS_CardinalityType
  <2>. QED
    BY <1>1, <2>4, <2>5, <2>6
<1>. QED
  BY <1>2, <1>3

(* Every call of a panel was granted.                                      *)
LEMMA CallsAreGranted ==
  ASSUME NEW p, NEW panel \in Seq(Candidates)
  PROVE  /\ IsFiniteSet({i \in DOMAIN panel : ProviderOf[panel[i]] = p /\ Joins(panel, i)})
         /\ Calls(panel, p) \in Nat /\ Takes(panel, p) \in Nat
         /\ Calls(panel, p) <= Takes(panel, p)
<1>. DEFINE J == {i \in DOMAIN panel : ProviderOf[panel[i]] = p /\ Joins(panel, i)}
            G == {i \in DOMAIN panel : ProviderOf[panel[i]] = p /\ Granted(panel, i)}
<1>1. J \in SUBSET G /\ G \in SUBSET (1..Len(panel)) /\ Len(panel) \in Nat
  BY DEF Joins
<1>2. IsFiniteSet(1..Len(panel))
  BY <1>1, FS_Interval
<1>3. IsFiniteSet(G)
  BY <1>1, <1>2, FS_Subset
<1>4. IsFiniteSet(J) /\ Cardinality(J) <= Cardinality(G)
  BY <1>1, <1>3, FS_Subset
<1>5. Cardinality(J) \in Nat /\ Cardinality(G) \in Nat
  BY <1>3, <1>4, FS_CardinalityType
<1>. QED
  BY <1>4, <1>5 DEF Calls, Takes

-----------------------------------------------------------------------------
(* A step that gives r the dispatch d.                                     *)
LEMMA DispatchReplaced ==
  ASSUME PanelsPaired, NEW r \in Requests, NEW d, Paired(d), req' = [req EXCEPT ![r] = d]
  PROVE  /\ PanelsPaired'
         /\ req'[r] = d /\ \A q \in Requests \ {r} : req'[q] = req[q]
<1>1. /\ req' = [q \in Requests |-> IF q = r THEN d ELSE req[q]]
  BY DEF PanelsPaired
<1>. QED
  BY <1>1 DEF PanelsPaired

(* A member of r gets a call that owes a retry only if it did before.      *)
LEMMA MemberReplaced ==
  ASSUME PanelsPaired, NEW r \in Requests, NEW i \in DOMAIN req[r].members,
         NEW call \in Calling, call.phase = "backoff" => call.retries = 0,
         Out(call) /\ call.retries = 0 =>
           Out(req[r].members[i]) /\ req[r].members[i].retries = 0,
         req' = [req EXCEPT ![r].members[i] = call]
  PROVE  /\ PanelsPaired'
         /\ \A p : Owing(p)' \subseteq Owing(p)
         /\ req'[r].members[i] = call
<1>. DEFINE members == [req[r].members EXCEPT ![i] = call]
            d == [req[r] EXCEPT !.members = members]
<1>1. Paired(req[r])
  BY DEF PanelsPaired
<1>2. /\ members \in Seq(Calling) /\ Len(members) = Len(req[r].members)
      /\ DOMAIN members = DOMAIN req[r].members
      /\ members[i] = call
      /\ \A j \in DOMAIN req[r].members \ {i} : members[j] = req[r].members[j]
  BY <1>1 DEF Paired
<1>3. /\ d = [f \in FusionFields |-> d[f]]
      /\ d.phase = req[r].phase /\ d.panel = req[r].panel /\ d.members = members
  BY <1>1 DEF Paired, FusionFields
<1>4. req' = [req EXCEPT ![r] = d]
  OBVIOUS
<1>. HIDE DEF members, d
<1>5. Paired(d)
  <2>1. /\ req[r].panel \in Seq(Candidates) /\ Len(req[r].members) = Len(req[r].panel)
        /\ \A j \in DOMAIN req[r].members :
             req[r].members[j].phase = "backoff" => req[r].members[j].retries = 0
    BY <1>1 DEF Paired
  <2>2. \A j \in DOMAIN d.members : d.members[j].phase = "backoff" => d.members[j].retries = 0
    BY <1>2, <1>3, <2>1
  <2>3. d = [f \in FusionFields |-> d[f]] /\ d.panel \in Seq(Candidates)
        /\ d.members \in Seq(Calling) /\ Len(d.members) = Len(d.panel)
    BY <1>2, <1>3, <2>1
  <2>. QED
    BY <2>2, <2>3 DEF Paired
<1>6. PanelsPaired' /\ req'[r] = d /\ \A q \in Requests \ {r} : req'[q] = req[q]
  BY <1>4, <1>5, DispatchReplaced
<1>7. \A p : Owing(p)' \subseteq Owing(p)
  <2>. SUFFICES ASSUME NEW p, NEW m \in Owing(p)' PROVE m \in Owing(p)
    OBVIOUS
  <2>1. CASE m[1] = r /\ m[2] = i
    BY <1>2, <1>3, <1>6, <2>1 DEF Owing
  <2>2. CASE m[1] = r /\ m[2] # i
    BY <1>2, <1>3, <1>6, <2>2 DEF Owing
  <2>3. CASE m[1] # r
    BY <1>6, <2>3 DEF Owing
  <2>. QED
    BY <2>1, <2>2, <2>3
<1>. QED
  BY <1>2, <1>3, <1>6, <1>7

-----------------------------------------------------------------------------
(* What becomes of a call.                                                 *)
LEMMA AbsentType ==
  ASSUME NEW phase \in {"answered", "failed", "timed_out", "flight"},
         NEW spent \in Spent, NEW tool_calls \in BOOLEAN
  PROVE  /\ [Absent EXCEPT !.phase = phase, !.spent = spent, !.tool_calls = tool_calls] \in Calling
         /\ [Absent EXCEPT !.phase = phase] \in Calling
         /\ [Absent EXCEPT !.phase = phase].phase = phase
         /\ Absent \in Calling
<1>1. 0 \in 0..SAME_PROVIDER_RETRIES
  BY DEF SAME_PROVIDER_RETRIES
<1>2. Absent \in Calling
  BY <1>1 DEF Absent, Calling
<1>3. [Absent EXCEPT !.phase = phase].phase = phase
  BY DEF Absent
<1>4. [Absent EXCEPT !.phase = phase] \in Calling
  BY <1>2 DEF Calling
<1>5. [Absent EXCEPT !.phase = phase, !.spent = spent, !.tool_calls = tool_calls] \in Calling
  BY <1>2 DEF Calling, Spent
<1>. QED
  BY <1>2, <1>3, <1>4, <1>5

LEMMA AnswerType ==
  ASSUME NEW spent \in Spent, NEW tool_calls \in BOOLEAN
  PROVE  /\ AfterAnswer(spent, tool_calls) \in Calling
         /\ AfterAnswer(spent, tool_calls).phase = "answered"
<1>1. AfterAnswer(spent, tool_calls) \in Calling
  BY AbsentType DEF AfterAnswer
<1>2. AfterAnswer(spent, tool_calls).phase = "answered"
  BY DEF AfterAnswer, Absent
<1>. QED
  BY <1>1, <1>2

LEMMA ErrorType ==
  ASSUME NEW call \in Calling, NEW e
  PROVE  /\ AfterError(call, e) \in Calling
         /\ AfterError(call, e).phase = "backoff" => AfterError(call, e).retries = 0
         /\ Out(AfterError(call, e)) => AfterError(call, e).retries = call.retries
<1>1. CASE IsTransient(e) /\ call.retries < SAME_PROVIDER_RETRIES
  <2>1. call.retries \in 0..1 /\ call.retries < 1
    BY <1>1 DEF Calling, SAME_PROVIDER_RETRIES
  <2>2. AfterError(call, e) = [call EXCEPT !.phase = "backoff"]
    BY <1>1 DEF AfterError
  <2>3. [call EXCEPT !.phase = "backoff"] \in Calling
    BY DEF Calling
  <2>4. [call EXCEPT !.phase = "backoff"].retries = call.retries
    BY DEF Calling
  <2>. QED
    BY <2>1, <2>2, <2>3, <2>4
<1>2. CASE ~(IsTransient(e) /\ call.retries < SAME_PROVIDER_RETRIES)
  <2>1. AfterError(call, e) = [Absent EXCEPT !.phase = "failed"]
    BY <1>2 DEF AfterError
  <2>2. [Absent EXCEPT !.phase = "failed"] \in Calling
    BY AbsentType DEF Spent
  <2>3. [Absent EXCEPT !.phase = "failed"].phase = "failed"
    BY AbsentType DEF Spent
  <2>. QED
    BY <2>1, <2>2, <2>3 DEF Out
<1>. QED
  BY <1>1, <1>2

(* What a step does to the calls, the tokens and the calls still owed.     *)
MeterUntouched == UNCHANGED <<tokens, calls>> /\ \A p : Owing(p)' \subseteq Owing(p)

(* A step of r after its panel's members are through.                      *)
LeavesPanel(r) ==
  /\ req' = [q \in Requests |-> req'[q]]
  /\ \A q \in Requests \ {r} : req'[q] = req[q]
  /\ req'[r] = [f \in FusionFields |-> req'[r][f]]
  /\ req'[r].phase # "panel"
  /\ req'[r].panel = req[r].panel /\ req'[r].members = req[r].members

(* A step that gives a request new fields, but for panel and members.      *)
LEMMA PanelLeft ==
  ASSUME PanelsPaired, NEW r \in Requests, NEW d, req' = [req EXCEPT ![r] = d],
         d = [f \in FusionFields |-> d[f]], d.phase # "panel",
         d.panel = req[r].panel, d.members = req[r].members
  PROVE  LeavesPanel(r)
<1>1. req' = [q \in Requests |-> IF q = r THEN d ELSE req[q]]
  BY DEF PanelsPaired
<1>2. req'[r] = d /\ \A q \in Requests \ {r} : req'[q] = req[q]
  BY <1>1
<1>3. req' = [q \in Requests |-> req'[q]]
  BY <1>1
<1>. QED
  BY <1>2, <1>3 DEF LeavesPanel

LEMMA NothingOwed ==
  ASSUME PanelsPaired, NEW r \in Requests, LeavesPanel(r), UNCHANGED <<tokens, calls>>
  PROVE  PanelsPaired' /\ MeterUntouched
<1>1. Paired(req[r])
  BY DEF PanelsPaired
<1>2. /\ req'[r].panel \in Seq(Candidates) /\ req'[r].members \in Seq(Calling)
      /\ Len(req'[r].members) = Len(req'[r].panel)
  BY <1>1 DEF Paired, LeavesPanel
<1>3. \A i \in DOMAIN req'[r].members :
        req'[r].members[i].phase = "backoff" => req'[r].members[i].retries = 0
  BY <1>1 DEF Paired, LeavesPanel
<1>4. Paired(req'[r])
  BY <1>2, <1>3 DEF Paired, LeavesPanel
<1>5. PanelsPaired'
  BY <1>4 DEF PanelsPaired, LeavesPanel
<1>6. \A p : Owing(p)' \subseteq Owing(p)
  BY DEF Owing, LeavesPanel
<1>. QED
  BY <1>5, <1>6 DEF MeterUntouched

LEMMA UncountedSteps ==
  ASSUME PanelsPaired, [Next]_vars,
         \A r \in Requests :
           /\ \A panel \in Panels, judge \in Judges : ~Start(r, panel, judge)
           /\ \A i \in DOMAIN req[r].members : ~MemberRetries(r, i)
  PROVE  PanelsPaired' /\ MeterUntouched
<1>1. ASSUME NEW r \in Requests, NEW i \in DOMAIN req[r].members, MemberAnswers(r, i)
      PROVE  PanelsPaired' /\ MeterUntouched
  <2>1. req[r].members[i] \in Calling /\ Out(req[r].members[i])
    BY <1>1 DEF PanelsPaired, Paired, MemberAnswers, Out
  <2>2. \E call \in Calling :
          /\ call.phase = "backoff" => call.retries = 0
          /\ Out(call) => call.retries = req[r].members[i].retries
          /\ req' = [req EXCEPT ![r].members[i] = call]
    <3>1. CASE \E spent \in Spent, tool_calls \in BOOLEAN :
                 req' = [req EXCEPT ![r].members[i] = AfterAnswer(spent, tool_calls)]
      <4>1. PICK spent \in Spent, tool_calls \in BOOLEAN :
              req' = [req EXCEPT ![r].members[i] = AfterAnswer(spent, tool_calls)]
        BY <3>1
      <4>2. /\ AfterAnswer(spent, tool_calls) \in Calling
            /\ AfterAnswer(spent, tool_calls).phase = "answered"
        BY AnswerType
      <4>. QED
        BY <4>1, <4>2 DEF Out
    <3>2. CASE \E e \in Outcomes :
                 req' = [req EXCEPT ![r].members[i] = AfterError(@, e)]
      <4>1. PICK e \in Outcomes :
              req' = [req EXCEPT ![r].members[i] = AfterError(req[r].members[i], e)]
        BY <3>2
      <4>. DEFINE call == AfterError(req[r].members[i], e)
      <4>2. /\ call \in Calling
            /\ call.phase = "backoff" => call.retries = 0
            /\ Out(call) => call.retries = req[r].members[i].retries
        BY <2>1, ErrorType
      <4>. QED
        BY <4>1, <4>2
    <3>. QED
      BY <1>1, <3>1, <3>2 DEF MemberAnswers
  <2>3. PICK call \in Calling :
          /\ call.phase = "backoff" => call.retries = 0
          /\ Out(call) => call.retries = req[r].members[i].retries
          /\ req' = [req EXCEPT ![r].members[i] = call]
    BY <2>2
  <2>4. PanelsPaired' /\ \A p : Owing(p)' \subseteq Owing(p)
    BY <2>1, <2>3, MemberReplaced
  <2>. QED
    BY <1>1, <2>4 DEF MemberAnswers, MeterUntouched
<1>2. ASSUME NEW r \in Requests, NEW i \in DOMAIN req[r].members, MemberTimesOut(r, i)
      PROVE  PanelsPaired' /\ MeterUntouched
  <2>. DEFINE call == [Absent EXCEPT !.phase = "timed_out"]
  <2>1. call \in Calling /\ call.phase = "timed_out"
    BY AbsentType DEF Spent
  <2>2. req' = [req EXCEPT ![r].members[i] = call]
    BY <1>2 DEF MemberTimesOut
  <2>. HIDE DEF call
  <2>. QED
    BY <1>2, <2>1, <2>2, MemberReplaced DEF MemberTimesOut, MeterUntouched, Out
<1>3. CASE UNCHANGED vars
  BY <1>3 DEF vars, PanelsPaired, Paired, MeterUntouched, Owing
<1>. USE DEF LeavesPanel, FusionFields
<1>4. ASSUME NEW r \in Requests, JoinNone(r) PROVE PanelsPaired' /\ MeterUntouched
  <2>1. LeavesPanel(r)
    BY <1>4 DEF JoinNone, PanelsPaired, Paired
  <2>. QED
    BY <1>4, <2>1, NothingOwed DEF JoinNone
<1>5. ASSUME NEW r \in Requests, JoinToolCalls(r) PROVE PanelsPaired' /\ MeterUntouched
  <2>1. LeavesPanel(r)
    BY <1>5 DEF JoinToolCalls, PanelsPaired, Paired
  <2>. QED
    BY <1>5, <2>1, NothingOwed DEF JoinToolCalls
<1>6. ASSUME NEW r \in Requests, AskJudge(r) PROVE PanelsPaired' /\ MeterUntouched
  <2>1. LeavesPanel(r)
    BY <1>6 DEF AskJudge, PanelsPaired, Paired
  <2>. QED
    BY <1>6, <2>1, NothingOwed DEF AskJudge
<1>7. ASSUME NEW r \in Requests, JudgeAnswers(r) PROVE PanelsPaired' /\ MeterUntouched
  <2>1. PICK answer, bill :
          req' = [req EXCEPT ![r].phase = "served", ![r].judging = answer, ![r].bill = bill]
    <3>1. PICK spent \in Spent :
            req' = [req EXCEPT ![r].phase = "served", ![r].judging = AfterAnswer(spent, FALSE),
                               ![r].bill = SumUsage(req[r].bill, spent)]
      BY <1>7, Zenon DEF JudgeAnswers
    <3>. QED
      BY <3>1, Zenon
  <2>2. LeavesPanel(r)
    <3>. DEFINE d == [req[r] EXCEPT !.phase = "served", !.judging = answer, !.bill = bill]
    <3>1. /\ d = [f \in FusionFields |-> d[f]] /\ d.phase # "panel"
          /\ d.panel = req[r].panel /\ d.members = req[r].members
      BY DEF PanelsPaired, Paired
    <3>2. req' = [req EXCEPT ![r] = d]
      BY <2>1
    <3>. HIDE DEF d
    <3>. QED
      BY <3>1, <3>2, PanelLeft
  <2>. QED
    BY <1>7, <2>2, NothingOwed DEF JudgeAnswers
<1>8. ASSUME NEW r \in Requests, JudgeFails(r) PROVE PanelsPaired' /\ MeterUntouched
  <2>1. PICK call :
          req' = [req EXCEPT ![r].judging = call,
                    ![r].phase = IF call.phase = "failed" THEN "failed" ELSE "judge",
                    ![r].bill = IF call.phase = "failed" THEN None ELSE req[r].bill]
    <3>1. PICK e \in Outcomes :
            LET call == AfterError(req[r].judging, e) IN
            req' = [req EXCEPT ![r].judging = call,
                      ![r].phase = IF call.phase = "failed" THEN "failed" ELSE "judge",
                      ![r].bill = IF call.phase = "failed" THEN None ELSE req[r].bill]
      BY <1>8, Zenon DEF JudgeFails
    <3>. QED
      BY <3>1, Zenon
  <2>2. CASE call.phase = "failed"
    <3>1. req' = [req EXCEPT ![r].judging = call, ![r].phase = "failed", ![r].bill = None]
      BY <2>1, <2>2, Zenon
    <3>2. LeavesPanel(r)
      <4>. DEFINE d == [req[r] EXCEPT !.judging = call, !.phase = "failed", !.bill = None]
      <4>1. /\ d = [f \in FusionFields |-> d[f]] /\ d.phase # "panel"
            /\ d.panel = req[r].panel /\ d.members = req[r].members
        BY DEF PanelsPaired, Paired
      <4>2. req' = [req EXCEPT ![r] = d]
        BY <3>1
      <4>. HIDE DEF d
      <4>. QED
        BY <4>1, <4>2, PanelLeft
    <3>. QED
      BY <1>8, <3>2, NothingOwed DEF JudgeFails
  <2>3. CASE call.phase # "failed"
    <3>1. req' = [req EXCEPT ![r].judging = call, ![r].phase = "judge", ![r].bill = req[r].bill]
      BY <2>1, <2>3, Zenon
    <3>2. LeavesPanel(r)
      <4>. DEFINE d == [req[r] EXCEPT !.judging = call, !.phase = "judge", !.bill = req[r].bill]
      <4>1. /\ d = [f \in FusionFields |-> d[f]] /\ d.phase # "panel"
            /\ d.panel = req[r].panel /\ d.members = req[r].members
        BY DEF PanelsPaired, Paired
      <4>2. req' = [req EXCEPT ![r] = d]
        BY <3>1
      <4>. HIDE DEF d
      <4>. QED
        BY <4>1, <4>2, PanelLeft
    <3>. QED
      BY <1>8, <3>2, NothingOwed DEF JudgeFails
  <2>. QED
    BY <2>2, <2>3
<1>9. ASSUME NEW r \in Requests, JudgeRetries(r) PROVE PanelsPaired' /\ MeterUntouched
  <2>1. LeavesPanel(r)
    BY <1>9 DEF JudgeRetries, PanelsPaired, Paired
  <2>. QED
    BY <1>9, <2>1, NothingOwed DEF JudgeRetries
<1>10. ASSUME NEW r \in Requests, Abandon(r) PROVE PanelsPaired' /\ MeterUntouched
  <2>1. LeavesPanel(r)
    <3>. DEFINE d == [req[r] EXCEPT !.phase = "abandoned", !.bill = None]
    <3>1. /\ d = [f \in FusionFields |-> d[f]] /\ d.phase # "panel"
          /\ d.panel = req[r].panel /\ d.members = req[r].members
      BY DEF PanelsPaired, Paired
    <3>2. req' = [req EXCEPT ![r] = d]
      BY <1>10 DEF Abandon
    <3>. HIDE DEF d
    <3>. QED
      BY <3>1, <3>2, PanelLeft
  <2>. QED
    BY <1>10, <2>1, NothingOwed DEF Abandon
<1>. QED
  BY <1>1, <1>2, <1>3, <1>4, <1>5, <1>6, <1>7, <1>8, <1>9, <1>10
  DEF Next, RouterStep, JudgeStep

-----------------------------------------------------------------------------
(* A panel that starts owes a retry for every call it makes.               *)
LEMMA StartOwesItsCalls ==
  ASSUME PanelsPaired, NEW r \in Requests, NEW panel \in Panels, NEW judge \in Judges,
         Start(r, panel, judge)
  PROVE  /\ PanelsPaired' /\ panel \in Seq(Candidates)
         /\ \A p : IsFiniteSet(Owing(p)) =>
              /\ IsFiniteSet(Owing(p)') /\ Cardinality(Owing(p)') \in Nat
              /\ Cardinality(Owing(p)') <= Cardinality(Owing(p)) + Calls(panel, p)
<1>. DEFINE members == [i \in DOMAIN panel |-> IF Joins(panel, i) THEN Flying ELSE Absent]
            d == [req[r] EXCEPT !.phase = "panel", !.panel = panel, !.judge = judge,
                                !.members = members]
<1>1. panel \in Seq(Candidates) /\ Paired(req[r])
  BY FusionAssumption DEF PanelsPaired
<1>2. Flying \in Calling /\ Absent \in Calling /\ Flying.phase = "flight" /\ Absent.phase = "absent"
  BY AbsentType DEF Flying, Absent, Spent
<1>3. members \in Seq(Calling) /\ Len(members) = Len(panel) /\ DOMAIN members = DOMAIN panel
  <2>1. \A i \in DOMAIN panel : members[i] \in Calling
    BY <1>2
  <2>. QED
    BY <1>1, <2>1
<1>4. \A i \in DOMAIN members :
        /\ members[i].phase # "backoff"
        /\ Out(members[i]) => Joins(panel, i)
  BY <1>2 DEF Out
<1>5. req' = [req EXCEPT ![r] = d]
  BY DEF Start
<1>6. d = [f \in FusionFields |-> d[f]] /\ d.phase = "panel" /\ d.panel = panel /\ d.members = members
  BY <1>1 DEF Paired, FusionFields
<1>. HIDE DEF members, d
<1>7. Paired(d)
  BY <1>1, <1>3, <1>4, <1>6 DEF Paired
<1>8. PanelsPaired' /\ req'[r] = d /\ \A q \in Requests \ {r} : req'[q] = req[q]
  BY <1>5, <1>7, DispatchReplaced
<1>9. ASSUME NEW p, IsFiniteSet(Owing(p))
      PROVE  /\ IsFiniteSet(Owing(p)') /\ Cardinality(Owing(p)') \in Nat
             /\ Cardinality(Owing(p)') <= Cardinality(Owing(p)) + Calls(panel, p)
  <2>. DEFINE J == {i \in DOMAIN panel : ProviderOf[panel[i]] = p /\ Joins(panel, i)}
              New == {<<r, i>> : i \in J}
              At == [i \in J |-> <<r, i>>]
  <2>1. IsFiniteSet(J) /\ Cardinality(J) = Calls(panel, p) /\ Calls(panel, p) \in Nat
    BY <1>1, CallsAreGranted DEF Calls
  <2>2. IsFiniteSet(New) /\ Cardinality(New) <= Cardinality(J)
    <3>1. At \in Surjection(J, New)
      BY DEF Surjection
    <3>. HIDE DEF J, New, At
    <3>. QED
      BY <2>1, <3>1, FS_Surjection
  <2>3. Owing(p)' \subseteq Owing(p) \cup New
    BY <1>3, <1>4, <1>6, <1>8 DEF Owing
  <2>. HIDE DEF J, New, At
  <2>4. /\ IsFiniteSet(Owing(p) \cup New)
        /\ Cardinality(Owing(p) \cup New)
             = Cardinality(Owing(p)) + Cardinality(New) - Cardinality(Owing(p) \cap New)
    BY <1>9, <2>2, FS_Union
  <2>5. IsFiniteSet(Owing(p) \cap New)
    BY <2>2, FS_Subset
  <2>6. /\ Cardinality(Owing(p) \cap New) \in Nat /\ Cardinality(Owing(p) \cup New) \in Nat
        /\ Cardinality(New) \in Nat /\ Cardinality(Owing(p)) \in Nat
    BY <1>9, <2>2, <2>4, <2>5, FS_CardinalityType
  <2>7. /\ IsFiniteSet(Owing(p)') /\ Cardinality(Owing(p)') \in Nat
        /\ Cardinality(Owing(p)') <= Cardinality(Owing(p) \cup New)
    BY <2>3, <2>4, FS_Subset, FS_CardinalityType
  <2>. QED
    BY <2>1, <2>2, <2>4, <2>6, <2>7
<1>. QED
  BY <1>1, <1>8, <1>9

(* A retry is one of the calls owed.                                       *)
LEMMA RetryPaysOne ==
  ASSUME PanelsPaired, NEW r \in Requests, NEW i \in DOMAIN req[r].members, MemberRetries(r, i)
  PROVE  /\ PanelsPaired' /\ ProviderOf[req[r].panel[i]] \in Providers
         /\ <<r, i>> \in Owing(ProviderOf[req[r].panel[i]])
         /\ \A p : Owing(p)' \subseteq Owing(p) \ {<<r, i>>}
<1>. DEFINE call == AfterPause(req[r].members[i])
<1>1. /\ Paired(req[r]) /\ req[r].members[i] \in Calling /\ i \in Nat
      /\ req[r].members[i].phase = "backoff" /\ req[r].members[i].retries = 0
  BY DEF PanelsPaired, Paired, MemberRetries
<1>2. call \in Calling /\ call.phase = "flight" /\ call.retries # 0
  <2>1. 0 + 1 \in 0..SAME_PROVIDER_RETRIES /\ 0 + 1 # 0
    BY DEF SAME_PROVIDER_RETRIES
  <2>2. call = [req[r].members[i] EXCEPT !.phase = "flight", !.retries = 0 + 1]
    BY <1>1 DEF AfterPause, Calling
  <2>. HIDE DEF call
  <2>. QED
    BY <1>1, <2>1, <2>2 DEF Calling
<1>3. req' = [req EXCEPT ![r].members[i] = call]
  BY DEF MemberRetries
<1>. HIDE DEF call
<1>4. PanelsPaired' /\ req'[r].members[i] = call /\ \A p : Owing(p)' \subseteq Owing(p)
  <2>1. call.phase = "backoff" => call.retries = 0
    BY <1>2
  <2>2. Out(call) /\ call.retries = 0 =>
          Out(req[r].members[i]) /\ req[r].members[i].retries = 0
    BY <1>2
  <2>. QED
    BY <1>2, <1>3, <2>1, <2>2, MemberReplaced
<1>5. \A p : <<r, i>> \notin Owing(p)'
  BY <1>2, <1>4 DEF Owing
<1>6. <<r, i>> \in Owing(ProviderOf[req[r].panel[i]])
  BY <1>1 DEF Owing, Out, MemberRetries
<1>7. req[r].panel[i] \in Candidates
  BY <1>1 DEF Paired
<1>. QED
  BY <1>4, <1>5, <1>6, <1>7, FusionAssumption

LEMMA CountTypes ==
  ASSUME BucketsHold, NEW p \in Limited
  PROVE  p \in Providers /\ calls[p] \in Nat /\ tokens[p] \in Nat /\ Capacity[p] \in Nat
BY FusionAssumption DEF BucketsHold

LEMMA InvariantStep == IInv /\ [Next]_vars => IInv'
<1>. SUFFICES ASSUME IInv, [Next]_vars PROVE IInv'
  OBVIOUS
<1>. USE DEF IInv
<1>1. ASSUME NEW r \in Requests, NEW panel \in Panels, NEW judge \in Judges, Start(r, panel, judge)
      PROVE  IInv'
  <2>1. PanelsPaired' /\ panel \in Seq(Candidates)
    BY <1>1, StartOwesItsCalls
  <2>2. ASSUME NEW p \in Limited
        PROVE  /\ tokens'[p] = tokens[p] - Takes(panel, p) /\ tokens'[p] \in Nat
               /\ Calls(panel, p) \in Nat /\ Takes(panel, p) \in Nat
               /\ Calls(panel, p) <= Takes(panel, p)
    <3>1. tokens'[p] = tokens[p] - Takes(panel, p)
      BY <1>1 DEF Start
    <3>2. Calls(panel, p) \in Nat /\ Calls(panel, p) <= Takes(panel, p)
      BY <2>1, CallsAreGranted
    <3>3. Takes(panel, p) \in Nat /\ Takes(panel, p) <= tokens[p]
      BY <2>1, TakesFromBucket
    <3>. QED
      BY <3>1, <3>2, <3>3, CountTypes
  <2>3. \A p \in Providers : calls'[p] = calls[p] + Calls(panel, p) /\ calls'[p] \in Nat
    <3>1. \A p \in Providers : calls'[p] = calls[p] + Calls(panel, p) /\ calls[p] \in Nat
      BY <1>1 DEF Start, BucketsHold
    <3>2. \A p \in Providers : Calls(panel, p) \in Nat
      BY <2>1, CallsAreGranted
    <3>. QED
      BY <3>1, <3>2
  <2>4. BucketsHold'
    BY <1>1, <2>2, <2>3 DEF Start, BucketsHold
  <2>5. ASSUME NEW p \in Limited
        PROVE  /\ IsFiniteSet(Owing(p)')
               /\ calls'[p] + 2 * tokens'[p] + Cardinality(Owing(p)') <= 2 * Capacity[p]
    <3>1. /\ IsFiniteSet(Owing(p)') /\ Cardinality(Owing(p)') \in Nat
          /\ Cardinality(Owing(p)') <= Cardinality(Owing(p)) + Calls(panel, p)
      BY <1>1, StartOwesItsCalls DEF RetriesCounted
    <3>2. Cardinality(Owing(p)) \in Nat
      BY FS_CardinalityType DEF RetriesCounted
    <3>3. calls[p] + 2 * tokens[p] + Cardinality(Owing(p)) <= 2 * Capacity[p]
      BY DEF RetriesCounted
    <3>4. calls'[p] = calls[p] + Calls(panel, p)
      BY <2>3, CountTypes
    <3>. QED
      BY <2>2, <3>1, <3>2, <3>3, <3>4, CountTypes
  <2>. QED
    BY <2>1, <2>4, <2>5 DEF RetriesCounted
<1>2. ASSUME NEW r \in Requests, NEW i \in DOMAIN req[r].members, MemberRetries(r, i)
      PROVE  IInv'
  <2>. DEFINE at == ProviderOf[req[r].panel[i]]
  <2>1. /\ PanelsPaired' /\ at \in Providers
        /\ <<r, i>> \in Owing(at) /\ \A p : Owing(p)' \subseteq Owing(p) \ {<<r, i>>}
    BY <1>2, RetryPaysOne
  <2>2. tokens' = tokens /\ calls' = [calls EXCEPT ![at] = @ + 1]
    BY <1>2 DEF MemberRetries
  <2>. HIDE DEF at
  <2>3. BucketsHold'
    BY <2>1, <2>2 DEF BucketsHold
  <2>4. ASSUME NEW p \in Limited
        PROVE  /\ IsFiniteSet(Owing(p)')
               /\ calls'[p] + 2 * tokens'[p] + Cardinality(Owing(p)') <= 2 * Capacity[p]
    <3>1. IsFiniteSet(Owing(p)) /\ Cardinality(Owing(p)) \in Nat
      BY FS_CardinalityType DEF RetriesCounted
    <3>2. /\ IsFiniteSet(Owing(p) \ {<<r, i>>}) /\ Cardinality(Owing(p) \ {<<r, i>>}) \in Nat
          /\ Cardinality(Owing(p) \ {<<r, i>>})
               = IF <<r, i>> \in Owing(p) THEN Cardinality(Owing(p)) - 1 ELSE Cardinality(Owing(p))
      BY <3>1, FS_RemoveElement, FS_CardinalityType
    <3>3. /\ IsFiniteSet(Owing(p)') /\ Cardinality(Owing(p)') \in Nat
          /\ Cardinality(Owing(p)') <= Cardinality(Owing(p) \ {<<r, i>>})
      BY <2>1, <3>2, FS_Subset, FS_CardinalityType
    <3>4. calls[p] + 2 * tokens[p] + Cardinality(Owing(p)) <= 2 * Capacity[p]
      BY DEF RetriesCounted
    <3>5. calls'[p] = IF p = at THEN calls[p] + 1 ELSE calls[p]
      BY <2>2, CountTypes DEF BucketsHold
    <3>6. CASE p = at
      BY <2>1, <2>2, <3>1, <3>2, <3>3, <3>4, <3>5, <3>6, CountTypes
    <3>7. CASE p # at
      BY <2>2, <3>1, <3>2, <3>3, <3>4, <3>5, <3>7, CountTypes
    <3>. QED
      BY <3>6, <3>7
  <2>. QED
    BY <2>1, <2>3, <2>4 DEF RetriesCounted
<1>3. CASE \A r \in Requests :
             /\ \A panel \in Panels, judge \in Judges : ~Start(r, panel, judge)
             /\ \A i \in DOMAIN req[r].members : ~MemberRetries(r, i)
  <2>1. PanelsPaired' /\ tokens' = tokens /\ calls' = calls /\ \A p : Owing(p)' \subseteq Owing(p)
    BY <1>3, UncountedSteps DEF MeterUntouched
  <2>2. ASSUME NEW p \in Limited
        PROVE  /\ IsFiniteSet(Owing(p)')
               /\ calls'[p] + 2 * tokens'[p] + Cardinality(Owing(p)') <= 2 * Capacity[p]
    <3>1. IsFiniteSet(Owing(p)) /\ Cardinality(Owing(p)) \in Nat
      BY FS_CardinalityType DEF RetriesCounted
    <3>2. /\ IsFiniteSet(Owing(p)') /\ Cardinality(Owing(p)') \in Nat
          /\ Cardinality(Owing(p)') <= Cardinality(Owing(p))
      BY <2>1, <3>1, FS_Subset, FS_CardinalityType
    <3>3. calls[p] + 2 * tokens[p] + Cardinality(Owing(p)) <= 2 * Capacity[p]
      BY DEF RetriesCounted
    <3>. QED
      BY <2>1, <3>1, <3>2, <3>3, CountTypes
  <2>. QED
    BY <2>1, <2>2 DEF BucketsHold, RetriesCounted
<1>. QED
  BY <1>1, <1>2, <1>3

LEMMA InitEstablishes == Init => IInv
<1>. SUFFICES ASSUME Init PROVE IInv
  OBVIOUS
<1>1. \A r \in Requests : req[r].phase = "new" /\ Paired(req[r])
  <2>1. <<>> \in Seq(Candidates) /\ <<>> \in Seq(Calling)
    OBVIOUS
  <2>. DEFINE d == [phase |-> "new", panel |-> <<>>, members |-> <<>>, judge |-> None,
                    judging |-> Absent, bill |-> None]
  <2>2. /\ d = [f \in FusionFields |-> d[f]] /\ d.phase = "new"
        /\ d.panel = <<>> /\ d.members = <<>>
    BY DEF FusionFields
  <2>3. \A r \in Requests : req[r] = d
    BY DEF Init
  <2>. HIDE DEF d
  <2>4. Paired(d)
    <3>1. /\ d.panel \in Seq(Candidates) /\ d.members \in Seq(Calling)
      BY <2>1, <2>2, Zenon
    <3>2. Len(d.members) = Len(d.panel)
      BY <2>2, Zenon
    <3>3. DOMAIN <<>> = {}
      OBVIOUS
    <3>4. DOMAIN d.members = {}
      BY <2>2, <3>3, Zenon
    <3>. QED
      BY <2>2, <3>1, <3>2, <3>4, Zenon DEF Paired
  <2>. QED
    BY <2>2, <2>3, <2>4
<1>2. PanelsPaired
  BY <1>1 DEF Init, PanelsPaired
<1>3. BucketsHold
  BY FusionAssumption DEF Init, BucketsHold
<1>4. \A p : Owing(p) = {}
  BY <1>1 DEF Owing
<1>5. RetriesCounted
  <2>1. \A p \in Limited : calls[p] = 0 /\ tokens[p] = Capacity[p] /\ Capacity[p] \in Nat
    BY FusionAssumption DEF Init
  <2>. QED
    BY <1>4, <2>1, FS_EmptySet DEF RetriesCounted
<1>. QED
  BY <1>2, <1>3, <1>5 DEF IInv

LEMMA InvariantHolds == Spec => []IInv
BY InvariantStep, InitEstablishes, PTL DEF Spec

(* However many panels share a bucket, however their members' retries and  *)
(* timeouts interleave, a provider gets no more calls of panel members     *)
(* than the tokens taken and one retry for each.                           *)
THEOREM PanelCallsAreMetered == Spec => []PanelCallsMetered
<1>1. IInv => PanelCallsMetered
  <2>. SUFFICES ASSUME IInv, NEW p \in Limited
                PROVE  calls[p] + 2 * tokens[p] <= 2 * Capacity[p]
    BY DEF PanelCallsMetered, SAME_PROVIDER_RETRIES
  <2>1. Cardinality(Owing(p)) \in Nat
    BY FS_CardinalityType DEF IInv, RetriesCounted
  <2>. QED
    BY <2>1, CountTypes DEF IInv, RetriesCounted
<1>. QED
  BY <1>1, InvariantHolds, PTL

(* No panel overdraws a bucket, so a limited provider gets at most twice   *)
(* the calls its bucket held.                                              *)
THEOREM PanelsNeverOverdraw ==
  Spec => [](\A p \in Limited : tokens[p] >= 0 /\ calls[p] <= 2 * Capacity[p])
<1>1. IInv => \A p \in Limited : tokens[p] >= 0 /\ calls[p] <= 2 * Capacity[p]
  <2>. SUFFICES ASSUME IInv, NEW p \in Limited
                PROVE  tokens[p] >= 0 /\ calls[p] <= 2 * Capacity[p]
    OBVIOUS
  <2>1. Cardinality(Owing(p)) \in Nat
    BY FS_CardinalityType DEF IInv, RetriesCounted
  <2>. QED
    BY <2>1, CountTypes DEF IInv, RetriesCounted
<1>. QED
  BY <1>1, InvariantHolds, PTL

-----------------------------------------------------------------------------
(* The statistics.  What a request adds to them is fixed by its members    *)
(* and its judge, and counts from the moment its answers reach the judge.  *)
CallFields == {"phase", "retries", "spent", "tool_calls"}

JudgedInOrder(r) ==
  /\ req[r].judging = [f \in CallFields |-> req[r].judging[f]]
  /\ req[r].phase \in {"new", "panel"} => req[r].judging = Absent
  /\ req[r].phase = "judge" =>
       /\ req[r].judging.phase \in {"flight", "backoff"} /\ req[r].judging.spent = None
       /\ Survivors(r) # {} /\ WithTools(r) = {} /\ req[r].bill = PanelBill(r)
  /\ req[r].phase = "served" /\ Synthesized(r) =>
       req[r].bill = SumUsage(PanelBill(r), req[r].judging.spent)

UsageCounted(c) == IsFiniteSet(Billed(c)) /\ usage[c] = Cardinality(Billed(c))

StatisticsInv ==
  /\ usage = [c \in Candidates |-> usage[c]]
  /\ \A r \in Requests : JudgedInOrder(r)
  /\ \A c \in Candidates : UsageCounted(c)

(* The answers of a panel are finitely many tokens, none at position 0.    *)
LEMMA PanelTokensFinite ==
  ASSUME NEW r \in Requests, Paired(req[r]), NEW c
  PROVE  IsFiniteSet(PanelTokens(r, c)) /\ \A n : <<0, n>> \notin PanelTokens(r, c)
<1>. DEFINE d == req[r].members
            S == {i \in Survivors(r) : req[r].panel[i] = c}
<1>1. d \in Seq(Calling) /\ Len(d) \in Nat /\ S \subseteq 1..Len(d)
  BY DEF Paired, Survivors
<1>2. \A i \in S : Tokens(d[i]) \in 0..MaxTokens
  <2>1. \A i \in S : d[i] \in Calling
    BY <1>1
  <2>. QED
    BY <2>1, FusionAssumption DEF Calling, Tokens
<1>3. PanelTokens(r, c) = UNION {{i} \X (1..Tokens(d[i])) : i \in S}
  BY DEF PanelTokens
<1>. HIDE DEF S, d
<1>4. PanelTokens(r, c) \subseteq (1..Len(d)) \X (1..MaxTokens)
  BY <1>1, <1>2, <1>3, FusionAssumption
<1>5. IsFiniteSet((1..Len(d)) \X (1..MaxTokens))
  <2>1. IsFiniteSet(1..Len(d)) /\ IsFiniteSet(1..MaxTokens)
    BY <1>1, FusionAssumption, FS_Interval
  <2>. QED
    BY <2>1, FS_Product
<1>. QED
  BY <1>4, <1>5, FS_Subset

(* Of two dispatches that agree on this the request spent the same.        *)
SameSpending(d, e) ==
  d.panel = e.panel /\ d.members = e.members /\ d.judge = e.judge
    /\ Tokens(d.judging) = Tokens(e.judging)

LEMMA SpendingKept ==
  ASSUME NEW q, SameSpending(req[q], req'[q])
  PROVE  /\ Survivors(q)' = Survivors(q) /\ WithTools(q)' = WithTools(q)
         /\ PanelBill(q)' = PanelBill(q)
         /\ \A c : PanelTokens(q, c)' = PanelTokens(q, c) /\ Spending(q, c)' = Spending(q, c)
<1>1. Survivors(q)' = Survivors(q)
  BY DEF SameSpending, Survivors
<1>2. WithTools(q)' = WithTools(q)
  BY <1>1 DEF SameSpending, WithTools
<1>3. PanelBill(q)' = PanelBill(q)
  BY DEF SameSpending, PanelBill
<1>4. ASSUME NEW c PROVE PanelTokens(q, c)' = PanelTokens(q, c)
  BY <1>1 DEF SameSpending, PanelTokens
<1>5. ASSUME NEW c PROVE Spending(q, c)' = Spending(q, c)
  BY <1>4 DEF SameSpending, Spending
<1>. QED
  BY <1>1, <1>2, <1>3, <1>4, <1>5

(* The other requests are as they were.                                    *)
LEMMA OthersKept ==
  ASSUME PanelsPaired, NEW r \in Requests, NEW d, req' = [req EXCEPT ![r] = d]
  PROVE  /\ req'[r] = d
         /\ \A q \in Requests \ {r} :
              /\ req'[q] = req[q] /\ Synthesized(q)' = Synthesized(q)
              /\ JudgedInOrder(q)' = JudgedInOrder(q)
              /\ \A c : Spending(q, c)' = Spending(q, c)
<1>1. req'[r] = d /\ \A q \in Requests \ {r} : req'[q] = req[q]
  BY DEF PanelsPaired
<1>2. ASSUME NEW q \in Requests \ {r}
      PROVE  /\ Synthesized(q)' = Synthesized(q) /\ JudgedInOrder(q)' = JudgedInOrder(q)
             /\ \A c : Spending(q, c)' = Spending(q, c)
  <2>1. req'[q] = req[q]
    BY <1>1
  <2>2. SameSpending(req[q], req'[q])
    BY <2>1 DEF SameSpending
  <2>3. Synthesized(q)' = Synthesized(q)
    BY <2>1, <2>2, SpendingKept DEF Synthesized
  <2>. QED
    BY <2>1, <2>2, <2>3, SpendingKept DEF JudgedInOrder
<1>. QED
  BY <1>1, <1>2

(* A step that bills nothing.                                              *)
LEMMA NothingBilled ==
  ASSUME PanelsPaired, StatisticsInv, UNCHANGED usage,
         NEW r \in Requests, NEW d, req' = [req EXCEPT ![r] = d], JudgedInOrder(r)',
         Synthesized(r)' <=> Synthesized(r),
         Synthesized(r) => \A c : Spending(r, c)' = Spending(r, c)
  PROVE  StatisticsInv'
<1>1. \A c \in Candidates : Billed(c)' = Billed(c)
  BY OthersKept DEF Billed
<1>2. \A c \in Candidates : UsageCounted(c)'
  BY <1>1 DEF UsageCounted, StatisticsInv
<1>3. \A q \in Requests : JudgedInOrder(q)'
  BY OthersKept DEF StatisticsInv
<1>. QED
  BY <1>2, <1>3 DEF StatisticsInv

(* A step in which r spends more: what it spends now, and what it spent    *)
(* before if that was billed.                                              *)
LEMMA SpendingBilled ==
  ASSUME PanelsPaired, StatisticsInv, NEW r \in Requests, NEW d, req' = [req EXCEPT ![r] = d],
         JudgedInOrder(r)', Synthesized(r)', NEW c \in Candidates, NEW more, IsFiniteSet(more),
         IF Synthesized(r) THEN Spending(r, c)' = Spending(r, c) \cup more /\ Spending(r, c) \cap more = {}
         ELSE Spending(r, c)' = more,
         usage'[c] = usage[c] + Cardinality(more)
  PROVE  UsageCounted(c)'
<1>1. Billed(c)' = Billed(c) \cup ({r} \X more) /\ Billed(c) \cap ({r} \X more) = {}
  <2>. DEFINE before == {q \in Requests \ {r} : Synthesized(q)}
              Rest == UNION {{q} \X Spending(q, c) : q \in before}
  <2>1. \A q \in Requests \ {r} : /\ Synthesized(q)' = Synthesized(q)
                                 /\ Spending(q, c)' = Spending(q, c)
    BY OthersKept
  <2>2. Billed(c)' = Rest \cup ({r} \X Spending(r, c)')
    BY <2>1 DEF Billed
  <2>3. Billed(c) = Rest \cup IF Synthesized(r) THEN {r} \X Spending(r, c) ELSE {}
    BY DEF Billed
  <2>4. \A x \in Rest : \A y : x \notin {r} \X y
    OBVIOUS
  <2>. HIDE DEF Rest
  <2>5. CASE Synthesized(r)
    BY <2>2, <2>3, <2>4, <2>5
  <2>6. CASE ~Synthesized(r)
    BY <2>2, <2>3, <2>4, <2>6
  <2>. QED
    BY <2>5, <2>6
<1>2. IsFiniteSet({r} \X more) /\ Cardinality({r} \X more) = Cardinality(more)
  <2>1. IsFiniteSet({r}) /\ Cardinality({r}) = 1 /\ Cardinality(more) \in Nat
    BY FS_Singleton, FS_CardinalityType
  <2>2. IsFiniteSet({r} \X more) /\ Cardinality({r} \X more) = Cardinality({r}) * Cardinality(more)
    BY <2>1, FS_Product
  <2>. QED
    BY <2>1, <2>2
<1>3. IsFiniteSet(Billed(c)) /\ usage[c] = Cardinality(Billed(c))
  BY DEF StatisticsInv, UsageCounted
<1>. DEFINE B == Billed(c)
            M == {r} \X more
<1>4. B \cap M = {} /\ IsFiniteSet(B) /\ IsFiniteSet(M)
  BY <1>1, <1>2, <1>3
<1>. HIDE DEF B, M
<1>5. /\ IsFiniteSet(B \cup M)
      /\ Cardinality(B \cup M) = Cardinality(B) + Cardinality(M) - Cardinality(B \cap M)
  BY <1>4, FS_Union
<1>6. Cardinality(B \cap M) = 0 /\ Cardinality(B) \in Nat /\ Cardinality(M) \in Nat
  BY <1>4, FS_EmptySet, FS_CardinalityType
<1>. QED
  BY <1>1, <1>2, <1>3, <1>5, <1>6 DEF UsageCounted, B, M

LEMMA AbsentShape ==
  /\ Absent = [f \in CallFields |-> Absent[f]]
  /\ Absent.phase = "absent" /\ Absent.spent = None /\ Absent.retries = 0
BY DEF Absent, CallFields

(* A panel that is not over, or from which nothing comes for the judge.    *)
LEMMA PanelStep ==
  ASSUME PanelsPaired, StatisticsInv, UNCHANGED usage, NEW r \in Requests,
         req[r].phase \in {"new", "panel"}, NEW d, req' = [req EXCEPT ![r] = d],
         d.judging = Absent, d.phase \in {"panel", "abandoned", "failed", "served"},
         d.phase \in {"failed", "served"} =>
           d.members = req[r].members /\ (Survivors(r) = {} \/ WithTools(r) # {})
  PROVE  StatisticsInv'
<1>1. req'[r] = d
  BY OthersKept
<1>2. JudgedInOrder(r)
  BY DEF StatisticsInv
<1>3. ~Synthesized(r)
  BY <1>2 DEF JudgedInOrder, Synthesized
<1>4. ~Synthesized(r)'
  <2>1. CASE d.phase \in {"panel", "abandoned"}
    BY <1>1, <2>1 DEF Synthesized
  <2>2. CASE d.phase \in {"failed", "served"}
    <3>1. Survivors(r)' = Survivors(r)
      BY <1>1, <2>2 DEF Survivors
    <3>2. WithTools(r)' = WithTools(r)
      BY <1>1, <2>2, <3>1 DEF WithTools
    <3>. QED
      BY <2>2, <3>1, <3>2 DEF Synthesized
  <2>. QED
    BY <2>1, <2>2
<1>5. JudgedInOrder(r)'
  BY <1>1, <1>4, AbsentShape DEF JudgedInOrder
<1>. QED
  BY <1>3, <1>4, <1>5, NothingBilled

(* A judge's call that goes on, or ends with no answer.                    *)
LEMMA JudgeStillOut ==
  ASSUME PanelsPaired, StatisticsInv, UNCHANGED usage, NEW r \in Requests,
         req[r].phase = "judge", NEW d, req' = [req EXCEPT ![r] = d],
         d.panel = req[r].panel, d.members = req[r].members, d.judge = req[r].judge,
         d.judging = [f \in CallFields |-> d.judging[f]], d.judging.spent = None,
         d.judging.phase \in {"flight", "backoff", "failed"},
         d.phase \in {"judge", "failed", "abandoned"},
         d.phase = "judge" => d.judging.phase # "failed" /\ d.bill = req[r].bill
  PROVE  StatisticsInv'
<1>1. req'[r] = d
  BY OthersKept
<1>2. JudgedInOrder(r)
  BY DEF StatisticsInv
<1>3. SameSpending(req[r], req'[r])
  BY <1>1, <1>2 DEF JudgedInOrder, SameSpending, Tokens
<1>4. Synthesized(r)
  BY <1>2 DEF JudgedInOrder, Synthesized
<1>5. /\ Survivors(r)' = Survivors(r) /\ WithTools(r)' = WithTools(r)
      /\ PanelBill(r)' = PanelBill(r) /\ \A c : Spending(r, c)' = Spending(r, c)
  BY <1>3, SpendingKept
<1>6. d.judging # Absent
  BY AbsentShape
<1>7. Synthesized(r)'
  BY <1>1, <1>2, <1>5, <1>6 DEF JudgedInOrder, Synthesized
<1>8. JudgedInOrder(r)'
  BY <1>1, <1>2, <1>5 DEF JudgedInOrder
<1>. QED
  BY <1>4, <1>5, <1>7, <1>8, NothingBilled

LEMMA AskJudgeBilled ==
  ASSUME PanelsPaired, StatisticsInv, NEW r \in Requests, AskJudge(r)
  PROVE  StatisticsInv'
<1>. DEFINE d == IF ProviderOf[req[r].judge] \in Configured
                 THEN [req[r] EXCEPT !.phase = "judge", !.judging = Flying, !.bill = PanelBill(r)]
                 ELSE [req[r] EXCEPT !.phase = "failed"]
<1>1. JudgedInOrder(r) /\ Paired(req[r])
  BY DEF StatisticsInv, PanelsPaired
<1>2. Flying = [f \in CallFields |-> Flying[f]] /\ Flying.phase = "flight" /\ Flying.spent = None
  BY DEF Flying, Absent, CallFields
<1>3. /\ req[r].phase = "panel" /\ Survivors(r) # {} /\ WithTools(r) = {}
      /\ req[r].judging = Absent
  BY <1>1 DEF AskJudge, Joined, JudgedInOrder
<1>4. req' = [req EXCEPT ![r] = d]
  BY <1>1 DEF AskJudge
<1>5. /\ d.panel = req[r].panel /\ d.members = req[r].members /\ d.judge = req[r].judge
      /\ \/ d.phase = "judge" /\ d.judging = Flying /\ d.bill = PanelBill(r)
         \/ d.phase = "failed" /\ d.judging = Absent
  BY <1>1, <1>3 DEF Paired, FusionFields
<1>. HIDE DEF d
<1>6. req'[r] = d
  BY <1>4, OthersKept
<1>7. Tokens(d.judging) = 0 /\ Tokens(req[r].judging) = 0
  BY <1>2, <1>3, <1>5, AbsentShape DEF Tokens
<1>8. SameSpending(req[r], req'[r])
  BY <1>5, <1>6, <1>7 DEF SameSpending
<1>9. /\ Survivors(r)' = Survivors(r) /\ WithTools(r)' = WithTools(r)
      /\ PanelBill(r)' = PanelBill(r)
      /\ \A c : Spending(r, c)' = Spending(r, c)
  BY <1>8, SpendingKept
<1>10. Synthesized(r)' /\ ~Synthesized(r)
  BY <1>3, <1>5, <1>6, <1>9 DEF Synthesized
<1>11. JudgedInOrder(r)'
  BY <1>1, <1>2, <1>3, <1>5, <1>6, <1>9, AbsentShape DEF JudgedInOrder
<1>12. ASSUME NEW c \in Candidates PROVE UsageCounted(c)'
  <2>1. Spending(r, c) = PanelTokens(r, c)
    BY <1>7 DEF Spending
  <2>2. IsFiniteSet(PanelTokens(r, c))
    BY <1>1, PanelTokensFinite
  <2>3. usage'[c] = usage[c] + Cardinality(PanelTokens(r, c))
    BY DEF AskJudge, PanelSpent
  <2>. QED
    BY <1>4, <1>9, <1>10, <1>11, <2>1, <2>2, <2>3, SpendingBilled
<1>13. \A q \in Requests : JudgedInOrder(q)'
  BY <1>4, <1>11, OthersKept DEF StatisticsInv
<1>. QED
  BY <1>12, <1>13 DEF StatisticsInv, AskJudge

LEMMA JudgeAnswerBilled ==
  ASSUME PanelsPaired, StatisticsInv, NEW r \in Requests, JudgeAnswers(r)
  PROVE  StatisticsInv'
<1>1. JudgedInOrder(r) /\ Paired(req[r]) /\ req[r].phase = "judge"
  BY DEF StatisticsInv, PanelsPaired, JudgeAnswers
<1>2. PICK spent \in Spent :
        /\ req' = [req EXCEPT ![r].phase = "served", ![r].judging = AfterAnswer(spent, FALSE),
                              ![r].bill = SumUsage(@, spent)]
        /\ usage' = [usage EXCEPT ![req[r].judge] = @ + Tokens(AfterAnswer(spent, FALSE))]
  BY DEF JudgeAnswers
<1>. DEFINE answer == AfterAnswer(spent, FALSE)
            n == Tokens(answer)
            d == [req[r] EXCEPT !.phase = "served", !.judging = answer, !.bill = SumUsage(@, spent)]
<1>3. /\ answer = [f \in CallFields |-> answer[f]] /\ answer.phase = "answered"
      /\ answer.spent = spent
  BY DEF AfterAnswer, Absent, CallFields
<1>5. req' = [req EXCEPT ![r] = d] /\ usage' = [usage EXCEPT ![req[r].judge] = @ + n]
  BY <1>1, <1>2
<1>. HIDE DEF answer
<1>4. n \in Nat
  BY <1>3, FusionAssumption DEF Tokens, Spent
<1>6. /\ d.panel = req[r].panel /\ d.members = req[r].members /\ d.judge = req[r].judge
      /\ d.phase = "served" /\ d.judging = answer /\ d.bill = SumUsage(req[r].bill, spent)
  BY <1>1 DEF Paired, FusionFields
<1>. HIDE DEF d, n
<1>7. req'[r] = d
  BY <1>5, OthersKept
<1>8. Survivors(r)' = Survivors(r)
  BY <1>6, <1>7 DEF Survivors
<1>9. WithTools(r)' = WithTools(r) /\ PanelBill(r)' = PanelBill(r)
  BY <1>6, <1>7, <1>8 DEF WithTools, PanelBill
<1>10. \A c : PanelTokens(r, c)' = PanelTokens(r, c)
  BY <1>6, <1>7, <1>8 DEF PanelTokens
<1>11. Survivors(r) # {} /\ WithTools(r) = {} /\ Tokens(req[r].judging) = 0 /\ req[r].bill = PanelBill(r)
  BY <1>1 DEF JudgedInOrder, Tokens
<1>12. Synthesized(r)' /\ Synthesized(r)
  BY <1>1, <1>6, <1>7, <1>8, <1>9, <1>11 DEF Synthesized
<1>13. JudgedInOrder(r)'
  BY <1>3, <1>6, <1>7, <1>9, <1>11 DEF JudgedInOrder
<1>14. ASSUME NEW c \in Candidates PROVE UsageCounted(c)'
  <2>. DEFINE more == IF req[r].judge = c THEN {0} \X (1..n) ELSE {}
  <2>1. Spending(r, c) = PanelTokens(r, c)
    BY <1>11 DEF Spending
  <2>2. Spending(r, c)' = PanelTokens(r, c) \cup more
    BY <1>6, <1>7, <1>10 DEF Spending, n
  <2>3. PanelTokens(r, c) \cap more = {}
    BY <1>1, PanelTokensFinite
  <2>4. IsFiniteSet(more) /\ usage'[c] = usage[c] + Cardinality(more)
    <3>1. CASE req[r].judge = c
      <4>1. IsFiniteSet({0} \X (1..n)) /\ Cardinality({0} \X (1..n)) = n
        <5>1. IsFiniteSet(1..n) /\ Cardinality(1..n) = n
          BY <1>4, FS_Interval
        <5>2. IsFiniteSet({0}) /\ Cardinality({0}) = 1
          BY FS_Singleton
        <5>3. IsFiniteSet({0} \X (1..n)) /\ Cardinality({0} \X (1..n)) = Cardinality({0}) * Cardinality(1..n)
          BY <5>1, <5>2, FS_Product
        <5>. QED
          BY <1>4, <5>1, <5>2, <5>3
      <4>3. usage'[c] = usage[c] + n
        BY <1>5, <3>1 DEF StatisticsInv
      <4>. QED
        BY <3>1, <4>1, <4>3
    <3>2. CASE req[r].judge # c
      <4>1. more = {} /\ usage'[c] = usage[c]
        BY <1>5, <3>2 DEF StatisticsInv
      <4>2. usage[c] \in Nat
        BY FS_CardinalityType DEF StatisticsInv, UsageCounted
      <4>3. IsFiniteSet({}) /\ Cardinality({}) = 0
        BY FS_EmptySet
      <4>. QED
        BY <4>1, <4>2, <4>3
    <3>. QED
      BY <3>1, <3>2
  <2>. HIDE DEF more
  <2>. QED
    BY <1>5, <1>12, <1>13, <2>1, <2>2, <2>3, <2>4, SpendingBilled
<1>15. \A q \in Requests : JudgedInOrder(q)'
  BY <1>5, <1>13, OthersKept DEF StatisticsInv
<1>16. usage' = [c \in Candidates |-> usage'[c]]
  BY <1>5 DEF StatisticsInv
<1>. QED
  BY <1>14, <1>15, <1>16 DEF StatisticsInv

LEMMA StatisticsStep == PanelsPaired /\ StatisticsInv /\ [Next]_vars => StatisticsInv'
<1>. SUFFICES ASSUME PanelsPaired, StatisticsInv, [Next]_vars PROVE StatisticsInv'
  OBVIOUS
<1>1. ASSUME NEW r \in Requests PROVE JudgedInOrder(r) /\ Paired(req[r])
  BY DEF StatisticsInv, PanelsPaired
<1>2. ASSUME NEW r \in Requests, req[r].phase = "panel", NEW members,
             req' = [req EXCEPT ![r].members = members], UNCHANGED usage
      PROVE  StatisticsInv'
  <2>. DEFINE d == [req[r] EXCEPT !.members = members]
  <2>1. d.phase = "panel" /\ d.judging = Absent /\ req' = [req EXCEPT ![r] = d]
    BY <1>1, <1>2 DEF Paired, FusionFields, JudgedInOrder
  <2>. HIDE DEF d
  <2>. QED
    BY <1>2, <2>1, PanelStep
<1>3. ASSUME NEW r \in Requests, NEW panel \in Panels, NEW judge \in Judges, Start(r, panel, judge)
      PROVE  StatisticsInv'
  <2>. DEFINE members == [i \in DOMAIN panel |-> IF Joins(panel, i) THEN Flying ELSE Absent]
              d == [req[r] EXCEPT !.phase = "panel", !.panel = panel, !.judge = judge,
                                  !.members = members]
  <2>1. req[r].phase = "new" /\ req' = [req EXCEPT ![r] = d] /\ UNCHANGED usage
    BY <1>3 DEF Start
  <2>. HIDE DEF members
  <2>2. d.phase = "panel" /\ d.judging = Absent
    BY <1>1, <2>1 DEF Paired, FusionFields, JudgedInOrder
  <2>. HIDE DEF d
  <2>. QED
    BY <2>1, <2>2, PanelStep
<1>4. ASSUME NEW r \in Requests, NEW i \in DOMAIN req[r].members,
             MemberAnswers(r, i) \/ MemberRetries(r, i) \/ MemberTimesOut(r, i)
      PROVE  StatisticsInv'
  <2>1. req[r].phase = "panel" /\ UNCHANGED usage
    BY <1>4 DEF MemberAnswers, MemberRetries, MemberTimesOut
  <2>2. \E members : req' = [req EXCEPT ![r].members = members]
    <3>1. ASSUME NEW call, req' = [req EXCEPT ![r].members[i] = call]
          PROVE  \E members : req' = [req EXCEPT ![r].members = members]
      <4>. WITNESS [req[r].members EXCEPT ![i] = call]
      <4>. QED
        BY <3>1
    <3>2. CASE MemberAnswers(r, i)
      <4>1. CASE \E spent \in Spent, tool_calls \in BOOLEAN :
                   req' = [req EXCEPT ![r].members[i] = AfterAnswer(spent, tool_calls)]
        BY <3>1, <4>1
      <4>2. ASSUME NEW e \in Outcomes, req' = [req EXCEPT ![r].members[i] = AfterError(@, e)]
            PROVE  \E members : req' = [req EXCEPT ![r].members = members]
        <5>. DEFINE call == AfterError(req[r].members[i], e)
        <5>1. req' = [req EXCEPT ![r].members[i] = call]
          BY <4>2
        <5>. HIDE DEF call
        <5>. QED
          BY <3>1, <5>1
      <4>. QED
        BY <3>2, <4>1, <4>2 DEF MemberAnswers
    <3>3. CASE MemberRetries(r, i)
      <4>. DEFINE call == AfterPause(req[r].members[i])
      <4>1. req' = [req EXCEPT ![r].members[i] = call]
        BY <3>3 DEF MemberRetries
      <4>. HIDE DEF call
      <4>. QED
        BY <3>1, <4>1
    <3>4. CASE MemberTimesOut(r, i)
      <4>. DEFINE call == [Absent EXCEPT !.phase = "timed_out"]
      <4>1. req' = [req EXCEPT ![r].members[i] = call]
        BY <3>4 DEF MemberTimesOut
      <4>. HIDE DEF call
      <4>. QED
        BY <3>1, <4>1
    <3>. QED
      BY <1>4, <3>2, <3>3, <3>4
  <2>. QED
    BY <1>2, <2>1, <2>2
<1>5. ASSUME NEW r \in Requests, JoinNone(r) PROVE StatisticsInv'
  <2>. DEFINE d == [req[r] EXCEPT !.phase = "failed"]
  <2>1. /\ req[r].phase = "panel" /\ Survivors(r) = {} /\ UNCHANGED usage
        /\ req' = [req EXCEPT ![r] = d]
    BY <1>5 DEF JoinNone, Joined
  <2>2. d.phase = "failed" /\ d.judging = Absent /\ d.members = req[r].members
    BY <1>1, <2>1 DEF Paired, FusionFields, JudgedInOrder
  <2>. HIDE DEF d
  <2>. QED
    BY <2>1, <2>2, PanelStep
<1>6. ASSUME NEW r \in Requests, JoinToolCalls(r) PROVE StatisticsInv'
  <2>. DEFINE bill == req[r].members[Min(WithTools(r))].spent
              d == [req[r] EXCEPT !.phase = "served", !.bill = bill]
  <2>1. /\ req[r].phase = "panel" /\ WithTools(r) # {} /\ UNCHANGED usage
        /\ req' = [req EXCEPT ![r].phase = "served", ![r].bill = bill]
    BY <1>6 DEF JoinToolCalls, Joined
  <2>. HIDE DEF bill
  <2>2. /\ d.phase = "served" /\ d.judging = Absent /\ d.members = req[r].members
        /\ req' = [req EXCEPT ![r] = d]
    BY <1>1, <2>1 DEF Paired, FusionFields, JudgedInOrder
  <2>. HIDE DEF d
  <2>. QED
    BY <2>1, <2>2, PanelStep
<1>7. ASSUME NEW r \in Requests, JudgeRetries(r) PROVE StatisticsInv'
  <2>. DEFINE call == AfterPause(req[r].judging)
              d == [req[r] EXCEPT !.judging = call]
  <2>1. req[r].phase = "judge" /\ UNCHANGED usage /\ req' = [req EXCEPT ![r].judging = call]
    BY <1>7 DEF JudgeRetries
  <2>2. /\ call = [f \in CallFields |-> call[f]] /\ call.phase = "flight" /\ call.spent = None
    BY <1>1, <2>1 DEF JudgedInOrder, CallFields, AfterPause
  <2>. HIDE DEF call
  <2>3. /\ d.panel = req[r].panel /\ d.members = req[r].members /\ d.judge = req[r].judge
        /\ d.judging = call /\ d.phase = "judge" /\ d.bill = req[r].bill
        /\ req' = [req EXCEPT ![r] = d]
    BY <1>1, <2>1 DEF Paired, FusionFields
  <2>. HIDE DEF d
  <2>. QED
    BY <2>1, <2>2, <2>3, JudgeStillOut
<1>8. ASSUME NEW r \in Requests, JudgeFails(r) PROVE StatisticsInv'
  <2>1. PICK e \in Outcomes :
          req' = [req EXCEPT ![r].judging = AfterError(req[r].judging, e),
                    ![r].phase = IF AfterError(req[r].judging, e).phase = "failed"
                                 THEN "failed" ELSE "judge",
                    ![r].bill = IF AfterError(req[r].judging, e).phase = "failed" THEN None ELSE @]
    BY <1>8 DEF JudgeFails
  <2>. DEFINE call == AfterError(req[r].judging, e)
              d == [req[r] EXCEPT !.judging = call,
                      !.phase = IF call.phase = "failed" THEN "failed" ELSE "judge",
                      !.bill = IF call.phase = "failed" THEN None ELSE @]
  <2>2. req[r].phase = "judge" /\ UNCHANGED usage /\ req' = [req EXCEPT ![r] = d]
    BY <1>8, <2>1 DEF JudgeFails
  <2>3. /\ call = [f \in CallFields |-> call[f]] /\ call.phase \in {"backoff", "failed"}
        /\ call.spent = None
    <3>1. req[r].judging = [f \in CallFields |-> req[r].judging[f]] /\ req[r].judging.spent = None
      BY <1>1, <2>2 DEF JudgedInOrder
    <3>. QED
      BY <3>1 DEF CallFields, AfterError, Absent
  <2>. HIDE DEF call
  <2>4. /\ d.panel = req[r].panel /\ d.members = req[r].members /\ d.judge = req[r].judge
        /\ d.judging = call
        /\ d.phase = (IF call.phase = "failed" THEN "failed" ELSE "judge")
        /\ d.phase = "judge" => d.bill = req[r].bill
    BY <1>1 DEF Paired, FusionFields
  <2>. HIDE DEF d
  <2>. QED
    BY <2>2, <2>3, <2>4, JudgeStillOut
<1>9. ASSUME NEW r \in Requests, Abandon(r) PROVE StatisticsInv'
  <2>. DEFINE d == [req[r] EXCEPT !.phase = "abandoned", !.bill = None]
  <2>1. req[r].phase \in {"panel", "judge"} /\ UNCHANGED usage /\ req' = [req EXCEPT ![r] = d]
    BY <1>9 DEF Abandon
  <2>2. /\ d.panel = req[r].panel /\ d.members = req[r].members /\ d.judge = req[r].judge
        /\ d.judging = req[r].judging /\ d.phase = "abandoned"
    BY <1>1 DEF Paired, FusionFields
  <2>. HIDE DEF d
  <2>3. CASE req[r].phase = "panel"
    <3>1. d.judging = Absent
      BY <1>1, <2>2, <2>3 DEF JudgedInOrder
    <3>. QED
      BY <2>1, <2>2, <2>3, <3>1, PanelStep
  <2>4. CASE req[r].phase = "judge"
    <3>1. /\ d.judging = [f \in CallFields |-> d.judging[f]] /\ d.judging.spent = None
          /\ d.judging.phase \in {"flight", "backoff"}
      BY <1>1, <2>2, <2>4 DEF JudgedInOrder
    <3>. QED
      BY <2>1, <2>2, <2>4, <3>1, JudgeStillOut
  <2>. QED
    BY <2>1, <2>3, <2>4
<1>10. CASE UNCHANGED vars
  <2>1. req' = req /\ usage' = usage
    BY <1>10 DEF vars
  <2>2. ASSUME NEW q \in Requests
        PROVE  /\ JudgedInOrder(q)' = JudgedInOrder(q)
               /\ Synthesized(q)' = Synthesized(q) /\ \A c : Spending(q, c)' = Spending(q, c)
    <3>1. SameSpending(req[q], req'[q]) /\ req'[q] = req[q]
      BY <2>1 DEF SameSpending
    <3>. QED
      BY <3>1, SpendingKept DEF JudgedInOrder, Synthesized
  <2>3. \A c : Billed(c)' = Billed(c)
    BY <2>2 DEF Billed
  <2>. QED
    BY <2>1, <2>2, <2>3 DEF StatisticsInv, UsageCounted
<1>. QED
  BY <1>3, <1>4, <1>5, <1>6, <1>7, <1>8, <1>9, <1>10, AskJudgeBilled, JudgeAnswerBilled
  DEF Next, RouterStep, JudgeStep

LEMMA StatisticsInit == Init => StatisticsInv
<1>. SUFFICES ASSUME Init PROVE StatisticsInv
  OBVIOUS
<1>1. ASSUME NEW r \in Requests
      PROVE  req[r].phase = "new" /\ req[r].judging = Absent
  BY DEF Init
<1>2. \A r \in Requests : JudgedInOrder(r) /\ ~Synthesized(r)
  BY <1>1, AbsentShape DEF JudgedInOrder, Synthesized
<1>3. \A c : Billed(c) = {}
  BY <1>2 DEF Billed
<1>4. usage = [c \in Candidates |-> 0]
  BY DEF Init
<1>5. IsFiniteSet({}) /\ Cardinality({}) = 0
  BY FS_EmptySet
<1>6. \A c \in Candidates : UsageCounted(c)
  BY <1>3, <1>4, <1>5 DEF UsageCounted
<1>. QED
  BY <1>2, <1>4, <1>6 DEF StatisticsInv

(* However panels, retries, timeouts and disconnects interleave, the usage *)
(* statistics are the answers that reached a judge and the judges' own     *)
(* (record_usage in dispatch_fusion), and what a client is billed is the   *)
(* sum of those of its request (summed_usage).                             *)
THEOREM StatisticsAreBilled == Spec => []StatisticsMatchBills
<1>1. Init => IInv /\ StatisticsInv
  BY InitEstablishes, StatisticsInit
<1>2. (IInv /\ StatisticsInv) /\ [Next]_vars => (IInv /\ StatisticsInv)'
  BY InvariantStep, StatisticsStep DEF IInv
<1>3. StatisticsInv => StatisticsMatchBills
  BY DEF StatisticsInv, UsageCounted, JudgedInOrder, StatisticsMatchBills
<1>. QED
  BY <1>1, <1>2, <1>3, PTL DEF Spec
=============================================================================
