----------------------------- MODULE AgentGateway -----------------------------
(***************************************************************************)
(* The Agent Gateway (agent_gateway/gateway.py) over its PostgreSQL stores *)
(* (persistence/agent_gateway.py), called by several processes at once:    *)
(* the HTTP service that agents post their decisions to                    *)
(* (agent_gateway/http.py), and the demo driver                            *)
(* (scripts/agent_canary_execution.py), which publishes a context, asks    *)
(* its agent, submits the answer, takes an accepted decision through       *)
(* Core Risk, the Policy Gate and the external Supervisor                  *)
(* (agent_gateway/decision_path.py), seals the capsule and hands it to the *)
(* execution orchestrator.                                                 *)
(*                                                                         *)
(* A submission is one transaction: an advisory lock per assignment, the   *)
(* claim of the outcome id, the evaluation, the verdict.  Nothing of it is *)
(* visible before the commit, and a process that dies rolls it back.  The  *)
(* lookups of identity, credential, assignment and context run on          *)
(* connections of their own and see what is committed at that moment.      *)
(***************************************************************************)
EXTENDS Integers, FiniteSets, Sequences

CONSTANTS
    Workers,        \* processes that hold a Gateway
    Driver,         \* the one that runs agent_canary_execution.py
    Decisions,      \* TradeProposals and NoTradeDecisions agents may submit
    Assignments,    \* TradingAssignments the operator may issue
    Supervised,     \* --enable-external-supervisor
    None,
    Hour,           \* _RATE_LIMIT_WINDOW
    Validity,       \* _DEFAULT_CONTEXT_VALIDITY
    LastTime,       \* bound on the clock
    MaxContexts,    \* bound on published contexts
    MaxCalls,       \* bound on submissions
    MaxFaults       \* bound on suspensions, crashes and lost replies

\* The validators of the contracts that cross the boundary.
TradeProposal(d) ==
    /\ d.kind = "TRADE_PROPOSAL"
    /\ \/ d.side = "BUY" /\ d.stop < d.reference /\ d.reference < d.target
       \/ d.side = "SELL" /\ d.target < d.reference /\ d.reference < d.stop
    /\ d.submitted < d.expires

NoTradeDecision(d) == d.kind = "NO_TRADE"

TradingAssignment(a) == a.from < a.until /\ a.minRisk <= a.maxRisk /\ a.max \in Nat \ {0}

AgentRejectionReason ==
    {"UNKNOWN_ASSIGNMENT", "ASSIGNMENT_NOT_OWNED", "ASSIGNMENT_NOT_VALID_AT_TIME",
     "STRATEGY_ARTIFACT_MISMATCH", "RATE_LIMIT_EXCEEDED", "RISK_FRACTION_OUT_OF_BAND",
     "MISSING_REQUIRED_EVIDENCE", "MISSING_REASON_CODES", "PROPOSAL_EXPIRED",
     "UNKNOWN_CONTEXT", "CONTEXT_ASSIGNMENT_MISMATCH", "CONTEXT_EXPIRED"}

ASSUME ContractAssumption ==
    /\ Driver \in Workers
    /\ Hour \in Nat \ {0} /\ Validity \in Nat \ {0} /\ LastTime \in Nat
    /\ None \notin Workers /\ None \notin Assignments /\ None \notin AgentRejectionReason
    /\ \A d \in Decisions : TradeProposal(d) \/ NoTradeDecision(d)
    /\ \A a \in Assignments : TradingAssignment(a)

VARIABLES
    clock,
    status,         \* the newest AgentIdentity of each agent
    credential,     \* the newest credential of each agent, by rotation
    registering,    \* an agent registered whose credential is still to be set, or None
    assignments,    \* agent_trading_assignments
    evidence,       \* feature_snapshots, by context
    contexts,       \* agent_decision_context_bundles, in order of issue
    claims,         \* committed agent_decision_outcomes
    settlements,    \* committed ACCEPTED and REJECTED events
    lockOf,         \* the advisory lock of each assignment
    call,           \* what each worker is doing
    capsules,       \* decision_capsules
    executed,       \* outcome ids whose capsule reached order_send
    reviews,        \* what the external Supervisor answered, by outcome id
    halted,         \* the kill switch
    replies,        \* history: every verdict that reached an agent
    calls, faults

stores == <<assignments, evidence, contexts, claims, settlements>>
identity == <<status, credential, registering>>
path == <<capsules, executed, reviews, halted>>
vars == <<clock, identity, stores, lockOf, call, path, replies, calls, faults>>

Agents == {d.agent : d \in Decisions} \cup {a.agent : a \in Assignments}
AssignmentIds == {d.assignment : d \in Decisions} \cup {a.id : a \in Assignments}
Idle == [at |-> "idle"]
Off == [at |-> "off"]

Goto(w, record) == call' = [call EXCEPT ![w] = record]

At(w, stage) == call[w].at = stage

\* A 200 carries a verdict.
Heard(w) ==
    replies' = replies \cup {[d |-> c.d, reply |-> c.reply] : c \in {k \in {call[w]} : k.reply.code = 200}}

\* The driver goes on with what the Gateway answered; the HTTP service replies.
Answer(w, reply) ==
    [at |-> "answered", d |-> call[w].d, now |-> call[w].now, reply |-> reply]
------------------------------------------------------------------------------
(* Administration                                                          *)

\* register_identity(): the identity, then, in another transaction, its credential.
RegisterIdentity(a, s) ==
    /\ registering = None
    /\ status[a] # s
    /\ faults < MaxFaults /\ faults' = faults + 1
    /\ status' = [status EXCEPT ![a] = s]
    /\ registering' = a
    /\ UNCHANGED <<clock, credential, stores, lockOf, call, path, replies, calls>>

SetCredential ==
    /\ registering # None
    /\ credential' = [credential EXCEPT ![registering] = @ + 1]
    /\ registering' = None
    /\ UNCHANGED <<clock, status, stores, lockOf, call, path, replies, calls, faults>>

\* register() of an assignment id that is taken changes nothing: the same content
\* is a no-op, another is an AssignmentConflictError.
IssueAssignment(a) ==
    /\ \A b \in assignments : b.id # a.id
    /\ assignments' = assignments \cup {a}
    /\ UNCHANGED <<clock, identity, evidence, contexts, claims, settlements, lockOf, call, path,
                   replies, calls, faults>>

CurrentAssignment(id) ==
    IF \E a \in assignments : a.id = id THEN CHOOSE a \in assignments : a.id = id ELSE None

------------------------------------------------------------------------------
(* The driver: one cycle publishes, asks and submits with the time at      *)
(* which it began                                                          *)

\* main(): the driver starts on a switch that runs and an assignment of its agent.
StartDriver ==
    /\ At(Driver, "off")
    /\ ~halted
    /\ assignments # {}
    /\ Goto(Driver, Idle)
    /\ UNCHANGED <<clock, identity, stores, lockOf, path, replies, calls, faults>>

\* publish_context(): the evidence is recorded first, in a transaction of its own.
RecordEvidence ==
    /\ At(Driver, "idle")
    /\ Len(contexts) < MaxContexts
    /\ \E a \in assignments :
        Goto(Driver, [at |-> "publish", now |-> clock, assignment |-> a.id])
    /\ evidence' = evidence \cup {clock}
    /\ UNCHANGED <<clock, identity, assignments, contexts, claims, settlements, lockOf, path,
                   replies, calls, faults>>

\* issue_context_bundle() refuses a bundle whose evidence is not stored.
PublishContext ==
    /\ At(Driver, "publish")
    /\ call[Driver].now \in evidence
    /\ contexts' = Append(contexts, [assignment |-> call[Driver].assignment,
                                     feature |-> call[Driver].now,
                                     expires |-> call[Driver].now + Validity])
    /\ Goto(Driver, [at |-> "decide", now |-> call[Driver].now, context |-> Len(contexts) + 1])
    /\ UNCHANGED <<clock, identity, assignments, evidence, claims, settlements, lockOf, path,
                   replies, calls, faults>>

\* HttpNeutralAgentClient.decide(): an answer for another context, assignment or
\* agent, or none, ends the process (Crash).
Decide(d) ==
    /\ At(Driver, "decide")
    /\ d.context = call[Driver].context
    /\ d.assignment = contexts[d.context].assignment
    /\ calls < MaxCalls /\ calls' = calls + 1
    /\ Goto(Driver, [at |-> "credential", d |-> d, now |-> call[Driver].now,
                     secret |-> credential[d.agent], active |-> status[d.agent] = "ACTIVE"])
    /\ UNCHANGED <<clock, identity, stores, lockOf, path, replies, faults>>

------------------------------------------------------------------------------
(* submit_trade_proposal() and submit_no_trade()                           *)

\* An HTTP post, or a retry of one; authenticate() has read the identity.
Post(w, d) ==
    /\ w # Driver /\ At(w, "idle")
    /\ calls < MaxCalls /\ calls' = calls + 1
    /\ Goto(w, [at |-> "credential", d |-> d, now |-> clock, secret |-> credential[d.agent],
                active |-> status[d.agent] = "ACTIVE"])
    /\ UNCHANGED <<clock, identity, stores, lockOf, path, replies, faults>>

\* authenticate() reads the credential: 401 for a wrong one or an inactive agent.
Authenticate(w) ==
    LET c == call[w] IN
    /\ At(w, "credential")
    /\ IF c.secret = credential[c.d.agent] /\ c.active
       THEN Goto(w, [at |-> "lock", d |-> c.d, now |-> c.now])
       ELSE Goto(w, Answer(w, [code |-> 401]))
    /\ UNCHANGED <<clock, identity, stores, lockOf, path, replies, calls, faults>>

\* lock_assignment(): pg_advisory_xact_lock
Lock(w) ==
    LET id == call[w].d.assignment IN
    /\ At(w, "lock")
    /\ lockOf[id] = None
    /\ lockOf' = [lockOf EXCEPT ![id] = w]
    /\ Goto(w, [call[w] EXCEPT !.at = "claim"])
    /\ UNCHANGED <<clock, identity, stores, path, replies, calls, faults>>

\* Mutant: a session-level lock, which a rollback does not release.
UnlockSession(w) ==
    lockOf' = [id \in AssignmentIds |->
        IF lockOf[id] = w /\ call[w].at = "commit" THEN None ELSE lockOf[id]]

\* The transaction of w ends, committed or rolled back.
Unlock(w) == lockOf' = [id \in AssignmentIds |-> IF lockOf[id] = w THEN None ELSE lockOf[id]]

InDoubt(id) == \E v \in Workers : At(v, "commit") /\ call[v].d.id = id

\* _build_trade_intent(): of the proposal, its assignment and its context alone.
TradeIntent(d) ==
    IF d.kind = "TRADE_PROPOSAL"
    THEN [proposal |-> d,
          strategy |-> CurrentAssignment(d.assignment).artifact,
          feature |-> contexts[d.context].feature]
    ELSE None

\* The result of a verdict, which a retry is answered with again.
Result(d, reason) ==
    [code |-> 200, reason |-> reason, intent |-> IF reason = None THEN TradeIntent(d) ELSE None]

\* Mutant: the count looks only at claims up to now.
CountClaimedUpTo(d, now) ==
    1 + Cardinality({c \in claims : /\ c.d.assignment = d.assignment
                                    /\ c.at >= now - Hour /\ c.at <= now})

\* count_claimed_since(): every claim of the assignment, whatever its verdict and
\* however late, and the one just made.
CountClaimed(d, now) ==
    1 + Cardinality({c \in claims : c.d.assignment = d.assignment /\ c.at >= now - Hour})

AssignmentScopeReason(d, a, now) ==
    IF a = None THEN "UNKNOWN_ASSIGNMENT"
    ELSE IF a.agent # d.agent THEN "ASSIGNMENT_NOT_OWNED"
    ELSE IF now < a.from \/ now > a.until THEN "ASSIGNMENT_NOT_VALID_AT_TIME"
    ELSE None

ContextReason(d, a, now) ==
    IF d.context \notin DOMAIN contexts THEN "UNKNOWN_CONTEXT"
    ELSE IF contexts[d.context].assignment # a.id THEN "CONTEXT_ASSIGNMENT_MISMATCH"
    ELSE IF now >= contexts[d.context].expires THEN "CONTEXT_EXPIRED"
    ELSE None

\* The checks of a proposal between its scope and its context.
ProposalReason(d, a, now) ==
    IF d.artifact # a.artifact THEN "STRATEGY_ARTIFACT_MISMATCH"
    ELSE IF CountClaimed(d, now) > a.max THEN "RATE_LIMIT_EXCEEDED"
    ELSE IF d.risk < a.minRisk \/ d.risk > a.maxRisk THEN "RISK_FRACTION_OUT_OF_BAND"
    ELSE IF ~d.reasons THEN "MISSING_REASON_CODES"
    ELSE IF a.needsEvidence /\ ~d.cites THEN "MISSING_REQUIRED_EVIDENCE"
    ELSE IF now >= d.expires THEN "PROPOSAL_EXPIRED"
    ELSE None

\* _evaluate_proposal() and _evaluate_no_trade()
Evaluate(d, a, now) ==
    LET scope == AssignmentScopeReason(d, a, now)
        terms == IF d.kind = "TRADE_PROPOSAL" THEN ProposalReason(d, a, now) ELSE None
    IN CASE scope # None -> scope
         [] scope = None /\ terms # None -> terms
         [] OTHER -> ContextReason(d, a, now)

\* Mutant: an identical retry is evaluated again.
ClaimAgain(w) ==
    LET d == call[w].d IN
    /\ At(w, "claim")
    /\ ~InDoubt(d.id)
    /\ Goto(w, [at |-> "commit", d |-> d, now |-> call[w].now,
                reason |-> Evaluate(d, CurrentAssignment(d.assignment), call[w].now)])
    /\ UNCHANGED <<clock, identity, stores, lockOf, path, replies, calls, faults>>

\* Claimed before, for another decision or for this very one.
Conflicts(d) == \E c \in claims : c.d.id = d.id /\ c.d # d
ClaimedAlready(d) == \E c \in claims : c.d = d

\* settlement_for()
SettlementFor(d) == {s \in settlements : s.id = d.id}

\* claim_trade_proposal(), claim_no_trade(): waits for a transaction that has
\* claimed the same id.  Then a different fingerprint under that id is a conflict
\* (409), the same one is answered with its settlement, and a fresh claim is
\* evaluated and settled.
Claim(w) ==
    LET d == call[w].d IN
    /\ At(w, "claim")
    /\ ~InDoubt(d.id)
    /\ \/ /\ ~Conflicts(d) /\ ~ClaimedAlready(d)
          /\ Goto(w, [at |-> "commit", d |-> d, now |-> call[w].now,
                      reason |-> Evaluate(d, CurrentAssignment(d.assignment), call[w].now)])
          /\ UNCHANGED lockOf
       \/ /\ Conflicts(d)
          /\ Goto(w, Answer(w, [code |-> 409]))
          /\ Unlock(w)
       \/ /\ ClaimedAlready(d)
          /\ \E s \in SettlementFor(d) : Goto(w, Answer(w, Result(d, s.reason)))
          /\ Unlock(w)
    /\ UNCHANGED <<clock, identity, stores, path, replies, calls, faults>>

\* append_event(): one event of a type per outcome.
AppendEvent(d, reason) ==
    settlements' = settlements \cup {[id |-> d.id, reason |-> reason]}

\* The claim, RECEIVED and the verdict become visible together.
Commit(w) ==
    LET c == call[w] IN
    /\ At(w, "commit")
    /\ claims' = claims \cup {[d |-> c.d, at |-> c.now]}
    /\ AppendEvent(c.d, c.reason)
    /\ Unlock(w)
    /\ Goto(w, Answer(w, Result(c.d, c.reason)))
    /\ UNCHANGED <<clock, identity, assignments, evidence, contexts, path, replies, calls, faults>>

\* The HTTP reply arrives, or is lost.
Reply(w) ==
    /\ w # Driver /\ At(w, "answered")
    /\ \/ /\ Heard(w)
          /\ UNCHANGED faults
       \/ /\ faults < MaxFaults /\ faults' = faults + 1
          /\ UNCHANGED replies
    /\ Goto(w, Idle)
    /\ UNCHANGED <<clock, identity, stores, lockOf, path, calls>>

------------------------------------------------------------------------------
(* evaluate_agent_trade_intent() and run_once()                            *)

\* The driver's own Gateway call returns; a rejection, or an error, ends the cycle.
Accepted ==
    LET c == call[Driver] IN
    /\ At(Driver, "answered")
    /\ Heard(Driver)
    /\ Goto(Driver, IF c.reply.code = 200 /\ c.reply.reason = None
                    THEN [at |-> "path", d |-> c.d, now |-> c.now, intent |-> c.reply.intent]
                    ELSE Idle)
    /\ UNCHANGED <<clock, identity, stores, lockOf, path, calls, faults>>

\* ReferenceSupervisor.review()
Review(d, intent, now) ==
    [proposal |-> d.id, intent |-> intent, expires |-> now + Validity,
     verdict |-> IF d.reasons /\ d.confident THEN "APPROVE" ELSE "VETO"]

\* evaluate_supervisor_review(): anything but a bound, unexpired review is UNKNOWN.
ReviewVerdict(review, d, intent, now) ==
    IF /\ review # None
       /\ review.proposal = d.id /\ review.intent = intent
       /\ now < review.expires
    THEN review.verdict
    ELSE "UNKNOWN"

Approved(capsule) == capsule.intent # None /\ capsule.risk = "PASS" /\ capsule.policy = "APPROVE"

\* CapsuleStore.seal(): on conflict, do nothing.
Seal(id, capsule) ==
    capsules' = [i \in DOMAIN capsules \cup {id} |->
                    IF i \in DOMAIN capsules THEN capsules[i] ELSE capsule]

\* _evaluate_platform_policy(): the driver says of incidents that there are none.
PolicyVerdict(reconciliation) ==
    IF reconciliation \in {"MISMATCHED", "UNKNOWN"} THEN "HALT" ELSE "APPROVE"

\* The external Supervisor is asked once the Policy Gate approved; what it said is
\* returned, and kept by nobody.
AskSupervisor(c) ==
    reviews' = IF Supervised
               THEN reviews \cup {[id |-> c.d.id, verdict |->
                        ReviewVerdict(Review(c.d, c.intent, c.now), c.d, c.intent, c.now)]}
               ELSE reviews

\* A NO_TRADE is sealed as it is.
NoIntent(c) ==
    /\ c.intent = None
    /\ Seal(c.d.id, [intent |-> None, risk |-> None, policy |-> None])
    /\ UNCHANGED <<halted, reviews>>

\* Risk passes nothing while the switch is halted, and trips it with a HALT.
RiskRefuses(c, risk) ==
    /\ c.intent # None /\ risk # "PASS"
    /\ halted' = (halted \/ risk = "HALT")
    /\ Seal(c.d.id, [intent |-> c.intent, risk |-> risk, policy |-> None])
    /\ UNCHANGED reviews

\* The Policy Gate trips the switch with a HALT too.
RiskPasses(c, reconciliation) ==
    LET policy == PolicyVerdict(reconciliation) IN
    /\ c.intent # None /\ ~halted
    /\ halted' = (policy = "HALT")
    /\ IF policy = "APPROVE" THEN AskSupervisor(c) ELSE UNCHANGED reviews
    /\ Seal(c.d.id, [intent |-> c.intent, risk |-> "PASS", policy |-> policy])

DecisionPath ==
    LET c == call[Driver] IN
    /\ At(Driver, "path")
    /\ \/ NoIntent(c)
       \/ \E risk \in {"BLOCK", "HALT"} : RiskRefuses(c, risk)
       \/ \E r \in {"MATCHED", "MISMATCHED", "UNKNOWN"} : RiskPasses(c, r)
    /\ Goto(Driver, [at |-> "run", id |-> c.d.id])
    /\ UNCHANGED <<clock, identity, stores, lockOf, executed, replies, calls, faults>>

\* run_once() for the capsule just sealed, or already there: an approved one is
\* submitted, unless a gate of the orchestrator refuses it (EntrySubmission).
RunOnce ==
    LET id == call[Driver].id IN
    /\ At(Driver, "run")
    /\ \/ /\ Approved(capsules[id]) /\ ~halted
          /\ executed' = executed \cup {id}
       \/ UNCHANGED executed
    /\ Goto(Driver, Idle)
    /\ UNCHANGED <<clock, identity, stores, lockOf, capsules, reviews, halted, replies, calls, faults>>

------------------------------------------------------------------------------
\* A process dies and is started again; its transaction is rolled back.
Crash(w) ==
    /\ call[w].at \notin {"idle", "off"}
    /\ faults < MaxFaults /\ faults' = faults + 1
    /\ Unlock(w)
    /\ Goto(w, IF w = Driver THEN Off ELSE Idle)
    /\ UNCHANGED <<clock, identity, stores, path, replies, calls>>

Tick ==
    /\ clock < LastTime
    /\ clock' = clock + 1
    /\ UNCHANGED <<identity, stores, lockOf, call, path, replies, calls, faults>>

Init ==
    /\ clock = 0
    /\ status = [a \in Agents |-> "ACTIVE"]
    /\ credential = [a \in Agents |-> 1]
    /\ registering = None
    /\ assignments = {} /\ evidence = {} /\ contexts = <<>>
    /\ claims = {} /\ settlements = {}
    /\ lockOf = [id \in AssignmentIds |-> None]
    /\ call = [w \in Workers |-> IF w = Driver THEN Off ELSE Idle]
    /\ capsules = [i \in {} |-> None]
    /\ executed = {} /\ reviews = {} /\ halted = FALSE
    /\ replies = {}
    /\ calls = 0 /\ faults = 0

Step(w) == Authenticate(w) \/ Lock(w) \/ Claim(w) \/ Commit(w) \/ Reply(w)

DriverStep ==
    StartDriver \/ RecordEvidence \/ PublishContext \/ Accepted \/ DecisionPath \/ RunOnce

Admin ==
    \/ \E a \in Agents : RegisterIdentity(a, "SUSPENDED")
    \/ SetCredential
    \/ \E a \in Assignments : IssueAssignment(a)

Next ==
    \/ Admin
    \/ DriverStep
    \/ \E d \in Decisions : Decide(d)
    \/ \E w \in Workers, d \in Decisions : Post(w, d)
    \/ \E w \in Workers : Step(w) \/ Crash(w)
    \/ Tick

\* A call that has begun is carried on by its process.
Fairness == \A w \in Workers : WF_vars(Step(w))

Spec == Init /\ [][Next]_vars /\ Fairness
------------------------------------------------------------------------------
\* No assignment has more proposals accepted within an hour than it allows: not
\* when two processes submit at once, not when the driver claims with the older
\* time at which its cycle began.
RateLimited ==
    \A a \in assignments, t \in 0..LastTime :
        Cardinality({c \in claims :
            /\ c.d.assignment = a.id /\ c.d.kind = "TRADE_PROPOSAL"
            /\ c.at \in t..(t + Hour)
            /\ [id |-> c.d.id, reason |-> None] \in settlements}) <= a.max

\* An outcome id stands for one decision and one verdict: however often it is
\* submitted, by whichever process and after whichever lost reply or crash, every
\* 200 that reaches an agent carries the same verdict and the same TradeIntent.
OneAnswer ==
    \A r, s \in replies :
        r.d.id = s.d.id => r.d = s.d /\ r.reply = s.reply

\* Every submission ends: no lock and no claim is waited for forever.
EveryCallEnds ==
    \A w \in Workers :
        call[w].at \in {"credential", "lock", "claim", "commit"}
            ~> call[w].at \notin {"credential", "lock", "claim", "commit"}

\* "gate the sealed capsule on a real external-Supervisor review": what a
\* Supervisor was asked about is sent only if it approved.
VetoStopsTheOrder == \A r \in reviews : r.verdict # "APPROVE" => r.id \notin executed
==============================================================================
