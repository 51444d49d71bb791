--------------------------- MODULE FusionDispatch ---------------------------
(***************************************************************************)
(* dispatch_fusion: every candidate of a route is called at once, each     *)
(* under its own timeout, and a judge model synthesizes the answer from    *)
(* those that came back.  Requests share the outbound buckets and the      *)
(* usage statistics; the calls of a panel run side by side.                *)
(***************************************************************************)
EXTENDS ProviderErrors, Sequences, SequencesExt

CONSTANTS
  Requests,
  Candidates,    (* The "provider/model"s of panels and judges.            *)
  Providers,
  ProviderOf,    (* Candidate -> its provider half.                        *)
  Configured,    (* Providers this router has an adapter for.              *)
  Capacity,      (* provider_rpm: limited provider -> whole tokens.        *)
  Panels,        (* Chains of the fusion routes.                           *)
  Judges,        (* Judge candidates.                                      *)
  Outcomes,      (* ProviderErrors the providers answer with.              *)
  MaxTokens,     (* Largest completion reported in a usage.                *)
  None

Limited == DOMAIN Capacity
SAME_PROVIDER_RETRIES == 1

ASSUME FusionAssumption ==
  /\ ProviderOf \in [Candidates -> Providers]
  /\ Configured \subseteq Providers
  /\ Limited \subseteq Providers /\ Capacity \in [Limited -> Nat]
  /\ Panels \subseteq Seq(Candidates) /\ Judges \subseteq Candidates
  /\ Outcomes \subseteq ProviderError /\ MaxTokens \in Nat
  /\ None \notin Nat

VARIABLES
  req,        (* The dispatch of each request.                             *)
  tokens,     (* Limited provider -> tokens in its outbound bucket.        *)
  usage,      (* Candidate -> completion tokens in its UsageStats.         *)
  calls       (* History: provider -> calls of panel members to it.        *)

vars == <<req, tokens, usage, calls>>

(* One call with its retry: a panel member or the judge.  A member that is *)
(* throttled or unconfigured is "absent".  `spent` is the usage of an      *)
(* answer, None if it reported none; `tool_calls`, whether it carries any. *)
Calling == [phase : {"absent", "flight", "backoff", "answered", "failed",
                     "timed_out"},
            retries : 0..SAME_PROVIDER_RETRIES,
            spent : (0..MaxTokens) \cup {None}, tool_calls : BOOLEAN]

(* `bill` is the usage of the answer the client gets, None for none.       *)
Fusion == [phase : {"new", "panel", "judge", "served", "failed", "abandoned"},
           panel : Seq(Candidates), members : Seq(Calling),
           judge : Candidates \cup {None}, judging : Calling,
           bill : Nat \cup {None}]

TypeOK ==
  /\ req \in [Requests -> Fusion]
  /\ \A r \in Requests : Len(req[r].members) = Len(req[r].panel)
  /\ tokens \in [Limited -> Nat]
  /\ usage \in [Candidates -> Nat]
  /\ calls \in [Providers -> Nat]

Absent == [phase |-> "absent", retries |-> 0, spent |-> None, tool_calls |-> FALSE]
Flying == [Absent EXCEPT !.phase = "flight"]

Init ==
  /\ req = [r \in Requests |->
       [phase |-> "new", panel |-> <<>>, members |-> <<>>, judge |-> None,
        judging |-> Absent, bill |-> None]]
  /\ tokens = Capacity
  /\ usage = [c \in Candidates |-> 0]
  /\ calls = [p \in Providers |-> 0]

-----------------------------------------------------------------------------
Own(p, panel, i) == Cardinality({j \in 1..i : ProviderOf[panel[j]] = p})

(* The members are taken in panel order, each spending a token of its      *)
(* provider's bucket, configured or not, before the adapter is looked up.  *)
Granted(panel, i) ==
  LET p == ProviderOf[panel[i]] IN p \in Limited => Own(p, panel, i) <= tokens[p]

Joins(panel, i) == Granted(panel, i) /\ ProviderOf[panel[i]] \in Configured

Calls(panel, p) == Cardinality({i \in DOMAIN panel : ProviderOf[panel[i]] = p /\ Joins(panel, i)})
Takes(panel, p) == Cardinality({i \in DOMAIN panel : ProviderOf[panel[i]] = p /\ Granted(panel, i)})

StartUnmetered(r, panel, judge) ==   \* slip: panel calls take no token
  /\ req[r].phase = "new"
  /\ req' = [req EXCEPT ![r].phase = "panel", ![r].panel = panel, ![r].judge = judge,
       ![r].members = [i \in DOMAIN panel |-> IF Joins(panel, i) THEN Flying ELSE Absent]]
  /\ calls' = [p \in Providers |-> calls[p] + Calls(panel, p)]
  /\ UNCHANGED <<tokens, usage>>

Start(r, panel, judge) ==
  /\ req[r].phase = "new"
  /\ req' = [req EXCEPT ![r].phase = "panel", ![r].panel = panel, ![r].judge = judge,
       ![r].members = [i \in DOMAIN panel |-> IF Joins(panel, i) THEN Flying ELSE Absent]]
  /\ tokens' = [p \in Limited |-> tokens[p] - Takes(panel, p)]
  /\ calls' = [p \in Providers |-> calls[p] + Calls(panel, p)]
  /\ UNCHANGED usage

(* retry_same_provider around one call: what the provider's answer, or the *)
(* end of the pause before the retry, makes of it.                         *)
AfterError(call, e) ==
  IF IsTransient(e) /\ call.retries < SAME_PROVIDER_RETRIES
  THEN [call EXCEPT !.phase = "backoff"]
  ELSE [Absent EXCEPT !.phase = "failed"]

AfterAnswer(spent, tool_calls) ==
  [Absent EXCEPT !.phase = "answered", !.spent = spent, !.tool_calls = tool_calls]

AfterPause(call) == [call EXCEPT !.phase = "flight", !.retries = @ + 1]

Spent == (0..MaxTokens) \cup {None}

MemberAnswers(r, i) ==
  /\ req[r].phase = "panel" /\ req[r].members[i].phase = "flight"
  /\ \/ \E spent \in Spent, tool_calls \in BOOLEAN :
          req' = [req EXCEPT ![r].members[i] = AfterAnswer(spent, tool_calls)]
     \/ \E e \in Outcomes : req' = [req EXCEPT ![r].members[i] = AfterError(@, e)]
  /\ UNCHANGED <<tokens, usage, calls>>

MemberRetries(r, i) ==
  /\ req[r].phase = "panel" /\ req[r].members[i].phase = "backoff"
  /\ req' = [req EXCEPT ![r].members[i] = AfterPause(@)]
  /\ calls' = [calls EXCEPT ![ProviderOf[req[r].panel[i]]] = @ + 1]
  /\ UNCHANGED <<tokens, usage>>

(* tokio::time::timeout drops the call, answered late or not at all.       *)
MemberTimesOut(r, i) ==
  /\ req[r].phase = "panel" /\ req[r].members[i].phase \in {"flight", "backoff"}
  /\ req' = [req EXCEPT ![r].members[i] = [Absent EXCEPT !.phase = "timed_out"]]
  /\ UNCHANGED <<tokens, usage, calls>>

Out(call) == call.phase \in {"flight", "backoff"}

Survivors(r) == {i \in DOMAIN req[r].members : req[r].members[i].phase = "answered"}

WithTools(r) == {i \in Survivors(r) : req[r].members[i].tool_calls}

(* join_all has collected every member.                                    *)
JoinedLate(r) ==   \* slip: a member that timed out is still waited for
  /\ req[r].phase = "panel"
  /\ \A i \in DOMAIN req[r].members :
       req[r].members[i].phase \notin {"flight", "backoff", "timed_out"}

Joined(r) ==
  req[r].phase = "panel" /\ \A i \in DOMAIN req[r].members : ~Out(req[r].members[i])

Tokens(call) == IF call.phase = "answered" /\ call.spent # None THEN call.spent ELSE 0

(* What the panel members of r that are candidate c spent: a set with an   *)
(* element for every token, so that a sum is a size.                       *)
PanelTokens(r, c) ==
  UNION {{i} \X (1..Tokens(req[r].members[i])) : i \in {i \in Survivors(r) : req[r].panel[i] = c}}

PanelSpent(r, c) == Cardinality(PanelTokens(r, c))

(* summed_usage: the sum of the usages that were reported, if any was.     *)
SumUsage(a, b) == IF a = None THEN b ELSE IF b = None THEN a ELSE a + b

BillOf(members) == FoldFunctionOnSet(SumUsage, None,
  [i \in DOMAIN members |-> members[i].spent], {i \in DOMAIN members : members[i].phase = "answered"})

PanelBill(r) == BillOf(req[r].members)

(* No member came back: a 503.                                             *)
JoinNone(r) ==
  /\ Joined(r) /\ Survivors(r) = {}
  /\ req' = [req EXCEPT ![r].phase = "failed"]
  /\ UNCHANGED <<tokens, usage, calls>>

(* A member answered with tool calls: the first such answer is returned as *)
(* it is, and nothing is recorded.                                         *)
JoinToolCalls(r) ==
  /\ Joined(r) /\ WithTools(r) # {}
  /\ req' = [req EXCEPT ![r].phase = "served",
                        ![r].bill = req[r].members[Min(WithTools(r))].spent]
  /\ UNCHANGED <<tokens, usage, calls>>

(* The usage of every survivor is recorded; the judge is called, without   *)
(* asking the outbound bucket of its provider and without a panel timeout. *)
AskJudgeOnce(r) ==   \* slip: two members on one model are recorded once
  /\ Joined(r) /\ Survivors(r) # {} /\ WithTools(r) = {}
  /\ usage' = [c \in Candidates |-> usage[c] +
       LET is == {i \in Survivors(r) : req[r].panel[i] = c}
       IN IF is = {} THEN 0 ELSE Tokens(req[r].members[Min(is)])]
  /\ req' = IF ProviderOf[req[r].judge] \in Configured
            THEN [req EXCEPT ![r].phase = "judge", ![r].judging = Flying,
                             ![r].bill = PanelBill(r)]
            ELSE [req EXCEPT ![r].phase = "failed"]
  /\ UNCHANGED <<tokens, calls>>

AskJudge(r) ==
  /\ Joined(r) /\ Survivors(r) # {} /\ WithTools(r) = {}
  /\ usage' = [c \in Candidates |-> usage[c] + PanelSpent(r, c)]
  /\ req' = IF ProviderOf[req[r].judge] \in Configured
            THEN [req EXCEPT ![r].phase = "judge", ![r].judging = Flying,
                             ![r].bill = PanelBill(r)]
            ELSE [req EXCEPT ![r].phase = "failed"]
  /\ UNCHANGED <<tokens, calls>>

(* The judge answered: its usage is recorded, the answer carries the sum.  *)
JudgeAnswers(r) ==
  /\ req[r].phase = "judge" /\ req[r].judging.phase = "flight"
  /\ \E spent \in Spent :
       LET answer == AfterAnswer(spent, FALSE) IN
       /\ req' = [req EXCEPT ![r].phase = "served", ![r].judging = answer,
                             ![r].bill = SumUsage(@, spent)]
       /\ usage' = [usage EXCEPT ![req[r].judge] = @ + Tokens(answer)]
  /\ UNCHANGED <<tokens, calls>>

(* The judge failed for good: so does the request, panel answers or not.   *)
JudgeFails(r) ==
  /\ req[r].phase = "judge" /\ req[r].judging.phase = "flight"
  /\ \E e \in Outcomes :
       LET call == AfterError(req[r].judging, e) IN
       req' = [req EXCEPT ![r].judging = call,
                 ![r].phase = IF call.phase = "failed" THEN "failed" ELSE "judge",
                 ![r].bill = IF call.phase = "failed" THEN None ELSE @]
  /\ UNCHANGED <<tokens, usage, calls>>

JudgeRetries(r) ==
  /\ req[r].phase = "judge" /\ req[r].judging.phase = "backoff"
  /\ req' = [req EXCEPT ![r].judging = AfterPause(@)]
  /\ UNCHANGED <<tokens, usage, calls>>

(* The client disconnects; whatever is out is dropped.                     *)
Abandon(r) ==
  /\ req[r].phase \in {"panel", "judge"}
  /\ req' = [req EXCEPT ![r].phase = "abandoned", ![r].bill = None]
  /\ UNCHANGED <<tokens, usage, calls>>

RouterStep(r) ==
  \/ JoinNone(r) \/ JoinToolCalls(r) \/ AskJudge(r) \/ JudgeRetries(r)

JudgeStep(r) == JudgeAnswers(r) \/ JudgeFails(r)

TimeOut(r) == \E i \in DOMAIN req[r].members : MemberTimesOut(r, i)

Next == \E r \in Requests :
  \/ \E panel \in Panels, judge \in Judges : Start(r, panel, judge)
  \/ \E i \in DOMAIN req[r].members :
       MemberAnswers(r, i) \/ MemberRetries(r, i) \/ MemberTimesOut(r, i)
  \/ RouterStep(r)
  \/ JudgeStep(r)
  \/ Abandon(r)

(* The timers fire and the executor runs what is ready; a panel member's   *)
(* provider need never answer, a judge's is bounded by its HTTP client.    *)
Fairness == \A r \in Requests :
  WF_vars(TimeOut(r)) /\ WF_vars(RouterStep(r)) /\ WF_vars(JudgeStep(r))

Spec == Init /\ [][Next]_vars /\ Fairness

-----------------------------------------------------------------------------
(* Property: the calls of panel members exceed what the outbound buckets   *)
(* granted by no more than their retries, over all panels at once.         *)
PanelCallsMetered ==
  \A p \in Limited : calls[p] + (1 + SAME_PROVIDER_RETRIES) * tokens[p]
                       <= (1 + SAME_PROVIDER_RETRIES) * Capacity[p]

Synthesized(r) ==
  /\ WithTools(r) = {} /\ Survivors(r) # {}
  /\ req[r].phase \in {"judge", "served", "failed"} \/ req[r].judging # Absent

(* What r's answers that reached the judge, and the judge's own, spent on c. *)
Spending(r, c) ==
  PanelTokens(r, c)
    \cup IF req[r].judge = c THEN {0} \X (1..Tokens(req[r].judging)) ELSE {}

Billed(c) == UNION {{r} \X Spending(r, c) : r \in {r \in Requests : Synthesized(r)}}

(* Property: the statistics hold each answer that reached the judge, and   *)
(* the judge's own, exactly once under its own candidate, and never a late *)
(* or failed one; a synthesized answer's bill is the sum of exactly those. *)
StatisticsMatchBills ==
  /\ \A c \in Candidates : usage[c] = Cardinality(Billed(c))
  /\ \A r \in Requests : req[r].phase = "served" /\ Synthesized(r) =>
       req[r].bill = SumUsage(PanelBill(r), req[r].judging.spent)

(* Property: a candidate that never answers, and whose provider never      *)
(* gives up either, delays a panel by no more than its timeout.            *)
SlowMemberNeverBlocks ==
  \A r \in Requests : req[r].phase = "panel" ~> req[r].phase # "panel"
=============================================================================
