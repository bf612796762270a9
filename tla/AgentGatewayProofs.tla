-------------------------- MODULE AgentGatewayProofs --------------------------
(***************************************************************************)
(* Proofs about AgentGateway, for any number of processes, decisions,      *)
(* assignments, calls and faults.                                          *)
(***************************************************************************)
EXTENDS AgentGateway, FiniteSetTheorems, TLAPS

USE ContractAssumption

------------------------------------------------------------------------------
(* The inductive invariant                                                 *)

Contexts == [assignment : AssignmentIds, feature : Nat, expires : Nat]

\* Between authentication and answer a call carries its decision and its time.
Carrying == {"credential", "lock", "claim", "commit", "answered"}

CallOK(c) ==
    /\ c.at \in Carrying => c.d \in Decisions /\ c.now \in Nat
    /\ c.at \in {"lock", "claim"} => c = [at |-> c.at, d |-> c.d, now |-> c.now]
    /\ c.at = "publish" => c.now \in Nat /\ c.assignment \in AssignmentIds
    /\ c.at = "decide" => c.now \in Nat

GatewayTypeOK ==
    /\ clock \in Nat
    /\ assignments \subseteq Assignments
    /\ contexts \in Seq(Contexts)
    /\ claims \subseteq [d : Decisions, at : Nat] /\ IsFiniteSet(claims)
    /\ lockOf \in [AssignmentIds -> Workers \cup {None}]
    /\ call = [w \in Workers |-> call[w]]
    /\ \A w \in Workers : CallOK(call[w])

\* An assignment id stands for one assignment.
AssignmentsAreUnique == \A a, b \in assignments : a.id = b.id => a = b

\* Whoever claims, or is about to commit, holds the lock of its assignment.
LockHeld ==
    \A w \in Workers : call[w].at \in {"claim", "commit"} => lockOf[call[w].d.assignment] = w

\* An outcome id is claimed once, by a row or by one transaction in doubt.
ClaimedOnce ==
    /\ \A c, e \in claims : c.d.id = e.d.id => c = e
    /\ \A w \in Workers : call[w].at = "commit" =>
          /\ \A c \in claims : c.d.id # call[w].d.id
          /\ \A v \in Workers : call[v].at = "commit" /\ call[v].d.id = call[w].d.id => v = w

\* It has one verdict, which is of a claim.
SettledOnce ==
    /\ \A s \in settlements : \E c \in claims : c.d.id = s.id
    /\ \A s, u \in settlements : s.id = u.id => s = u
    /\ \A s \in settlements : s = [id |-> s.id, reason |-> s.reason]

\* What an accepted decision refers to is there.
Grounded(d) ==
    /\ \E a \in assignments : a.id = d.assignment
    /\ d.context \in DOMAIN contexts

AcceptedIsGrounded ==
    /\ \A c \in claims : [id |-> c.d.id, reason |-> None] \in settlements => Grounded(c.d)
    /\ \A w \in Workers : call[w].at = "commit" /\ call[w].reason = None => Grounded(call[w].d)

\* A proposal about to be accepted is within the limit of its assignment.
CommitsAreWithinTheRate ==
    \A w \in Workers :
        /\ call[w].at = "commit" /\ call[w].reason = None
        /\ call[w].d.kind = "TRADE_PROPOSAL"
        => CountClaimed(call[w].d, call[w].now) <= CurrentAssignment(call[w].d.assignment).max

\* What a caller is told is the verdict on record.
Told(d, reply) ==
    \E c \in claims, s \in settlements : c.d = d /\ s.id = d.id /\ reply = Result(d, s.reason)

AnswersAreOnRecord ==
    /\ \A w \in Workers : call[w].at = "answered" /\ call[w].reply.code = 200 =>
          Told(call[w].d, call[w].reply)
    /\ \A r \in replies : Told(r.d, r.reply)

GatewayInv ==
    /\ GatewayTypeOK /\ AssignmentsAreUnique /\ LockHeld /\ ClaimedOnce /\ SettledOnce
    /\ AcceptedIsGrounded /\ CommitsAreWithinTheRate /\ AnswersAreOnRecord

\* As RateLimited, and without the bound on the window's start.
Window(a, t) ==
    {c \in claims :
        /\ c.d.assignment = a.id /\ c.d.kind = "TRADE_PROPOSAL"
        /\ c.at \in t..(t + Hour)
        /\ [id |-> c.d.id, reason |-> None] \in settlements}

WithinTheRate == \A a \in assignments, t \in Nat : Cardinality(Window(a, t)) <= a.max

------------------------------------------------------------------------------
(* Lemmas about the lookups                                                *)

\* The assignment of an id, if there is one.
LEMMA CurrentIsTheOne ==
    ASSUME GatewayInv, NEW a \in assignments
    PROVE  CurrentAssignment(a.id) = a
<1>1. \E b \in assignments : b.id = a.id
  OBVIOUS
<1>2. (CHOOSE b \in assignments : b.id = a.id) = a
  <2>1. PICK b \in assignments : b.id = a.id /\ b = CHOOSE x \in assignments : x.id = a.id
    BY <1>1
  <2>2. QED BY <2>1 DEF GatewayInv, AssignmentsAreUnique
<1>3. QED BY <1>1, <1>2 DEF CurrentAssignment

\* A count is a number.
LEMMA CountIsNat ==
    ASSUME GatewayTypeOK, NEW d, NEW now
    PROVE  CountClaimed(d, now) \in Nat
<1> DEFINE S == {c \in claims : c.d.assignment = d.assignment /\ c.at >= now - Hour}
<1>1. IsFiniteSet(S)
  BY FS_Subset DEF GatewayTypeOK
<1>2. Cardinality(S) \in Nat
  BY <1>1, FS_CardinalityType
<1>3. QED BY <1>2 DEF CountClaimed

\* What an acceptance has checked.
LEMMA AcceptanceChecks ==
    ASSUME GatewayInv, NEW d \in Decisions, NEW now \in Nat,
           Evaluate(d, CurrentAssignment(d.assignment), now) = None
    PROVE  /\ Grounded(d)
           /\ d.kind = "TRADE_PROPOSAL" =>
                CountClaimed(d, now) <= CurrentAssignment(d.assignment).max
<1> DEFINE a == CurrentAssignment(d.assignment)
           scope == AssignmentScopeReason(d, a, now)
           terms == IF d.kind = "TRADE_PROPOSAL" THEN ProposalReason(d, a, now) ELSE None
<1> HIDE DEF a
<1>1. None \notin AgentRejectionReason
  OBVIOUS
<1>2. Evaluate(d, a, now) = None
  BY DEF a
<1>3. scope = None /\ terms = None /\ ContextReason(d, a, now) = None
  BY <1>2 DEF Evaluate
<1>4. a # None
  BY <1>1, <1>3 DEF AssignmentScopeReason, AgentRejectionReason
<1>5. d.context \in DOMAIN contexts
  BY <1>1, <1>3 DEF ContextReason, AgentRejectionReason
<1>6. ASSUME d.kind = "TRADE_PROPOSAL" PROVE ~(CountClaimed(d, now) > a.max)
  <2>1. ProposalReason(d, a, now) = None
    BY <1>3, <1>6
  <2>2. QED BY <1>1, <2>1 DEF ProposalReason, AgentRejectionReason
<1>7. PICK b \in assignments : b.id = d.assignment
  BY <1>4 DEF CurrentAssignment, a
<1>8. a = b /\ b.max \in Nat
  BY <1>7, CurrentIsTheOne DEF a, GatewayInv, GatewayTypeOK, TradingAssignment
<1>9. CountClaimed(d, now) \in Nat
  BY CountIsNat DEF GatewayInv
<1>10. QED BY <1>5, <1>6, <1>7, <1>8, <1>9 DEF Grounded, a

\* New assignments and contexts change nothing of what is grounded.
Extends ==
    /\ \A a \in assignments : a \in assignments'
    /\ \A i \in DOMAIN contexts : i \in DOMAIN contexts' /\ contexts'[i] = contexts[i]

\* A reply that rests on stored rows still does when rows are only added.
LEMMA GroundedStays ==
    ASSUME GatewayInv, GatewayTypeOK', AssignmentsAreUnique', Extends, NEW d, Grounded(d)
    PROVE  /\ Grounded(d)'
           /\ CurrentAssignment(d.assignment)' = CurrentAssignment(d.assignment)
           /\ TradeIntent(d)' = TradeIntent(d)
<1>1. PICK a \in assignments : a.id = d.assignment
  BY DEF Grounded
<1>2. CurrentAssignment(d.assignment) = a
  BY <1>1, CurrentIsTheOne
<1>3. a \in assignments' /\ d.context \in DOMAIN contexts /\ contexts'[d.context] = contexts[d.context]
  BY DEF Extends, Grounded
<1>4. CurrentAssignment(d.assignment)' = a
  <2>1. \E b \in assignments' : b.id = d.assignment
    BY <1>1, <1>3
  <2>2. PICK b \in assignments' : b.id = d.assignment /\ b = CHOOSE x \in assignments' : x.id = d.assignment
    BY <2>1
  <2>3. b = a
    BY <1>1, <1>3, <2>2 DEF AssignmentsAreUnique
  <2>4. QED BY <2>1, <2>2, <2>3 DEF CurrentAssignment
<1>5. Grounded(d)'
  BY <1>1, <1>3 DEF Grounded, Extends
<1>6. QED BY <1>2, <1>3, <1>4, <1>5 DEF TradeIntent

------------------------------------------------------------------------------
(* A worker moves                                                          *)

\* What a worker may become without touching the stores.
MayBecome(w, p) ==
    /\ CallOK(p)
    /\ p.at \in {"claim", "commit"} => lockOf'[p.d.assignment] = w
    /\ p.at = "commit" =>
          /\ \A c \in claims : c.d.id # p.d.id
          /\ \A v \in Workers : v # w /\ call[v].at = "commit" => call[v].d.id # p.d.id
          /\ p.reason = None =>
                /\ Grounded(p.d)
                /\ p.d.kind = "TRADE_PROPOSAL" =>
                      CountClaimed(p.d, p.now) <= CurrentAssignment(p.d.assignment).max
    /\ p.at = "answered" /\ p.reply.code = 200 => Told(p.d, p.reply)

\* Locks of others are left alone.
LocksKept(w) ==
    /\ lockOf' \in [AssignmentIds -> Workers \cup {None}]
    /\ \A v \in Workers, id \in AssignmentIds : v # w /\ lockOf[id] = v => lockOf'[id] = v

\* The assignments of decisions have locks.
LEMMA DecisionsHaveLocks == \A d \in Decisions : d.assignment \in AssignmentIds
BY DEF AssignmentIds

\* Over the same stores the lookups return the same.
LEMMA LookupsAgree ==
    ASSUME UNCHANGED <<assignments, contexts, claims, settlements>>
    PROVE  /\ \A d, now : CountClaimed(d, now)' = CountClaimed(d, now)
           /\ \A id : CurrentAssignment(id)' = CurrentAssignment(id)
           /\ \A d, reply : Told(d, reply)' <=> Told(d, reply)
<1>1. \A d, now : CountClaimed(d, now)' = CountClaimed(d, now)
  BY DEF CountClaimed
<1>2. \A id : CurrentAssignment(id)' = CurrentAssignment(id)
  BY DEF CurrentAssignment
<1>3. \A d : TradeIntent(d)' = TradeIntent(d)
  BY <1>2 DEF TradeIntent
<1>4. \A d, reason : Result(d, reason)' = Result(d, reason)
  BY <1>3 DEF Result
<1>5. \A d, reply : Told(d, reply)' <=> Told(d, reply)
  BY <1>4 DEF Told
<1>6. QED BY <1>1, <1>2, <1>5

\* A step of one worker that leaves the stores alone keeps the invariant.
LEMMA WorkerMoves ==
    ASSUME GatewayInv, NEW w \in Workers, NEW p, Goto(w, p), MayBecome(w, p), LocksKept(w),
           UNCHANGED <<assignments, contexts, claims, settlements>>, clock' \in Nat,
           \A r \in replies' : Told(r.d, r.reply)
    PROVE  GatewayInv'
<1>1. /\ call' = [v \in Workers |-> call'[v]]
      /\ call'[w] = p /\ \A v \in Workers : v # w => call'[v] = call[v]
  BY DEF Goto, GatewayInv, GatewayTypeOK
<1>2. GatewayTypeOK'
  BY <1>1 DEF GatewayInv, GatewayTypeOK, MayBecome, LocksKept
<1>3. AssignmentsAreUnique' /\ SettledOnce'
  BY DEF GatewayInv, AssignmentsAreUnique, SettledOnce
<1>4. LockHeld'
  <2>1. ASSUME NEW v \in Workers, v # w, call[v].at \in {"claim", "commit"}
        PROVE  lockOf'[call[v].d.assignment] = v
    <3>1. call[v].d.assignment \in AssignmentIds /\ lockOf[call[v].d.assignment] = v
      BY <2>1, DecisionsHaveLocks DEF GatewayInv, GatewayTypeOK, CallOK, Carrying, LockHeld
    <3>2. QED BY <2>1, <3>1 DEF LocksKept
  <2>2. QED BY <1>1, <2>1 DEF LockHeld, MayBecome
<1>5. ClaimedOnce'
  BY <1>1 DEF GatewayInv, ClaimedOnce, MayBecome
<1>6. AcceptedIsGrounded'
  BY <1>1 DEF GatewayInv, AcceptedIsGrounded, Grounded, MayBecome
<1>7. CommitsAreWithinTheRate'
  <2>1. ASSUME NEW v \in Workers, NEW c, c = call'[v], c.at = "commit", c.reason = None,
               c.d.kind = "TRADE_PROPOSAL"
        PROVE  CountClaimed(c.d, c.now) <= CurrentAssignment(c.d.assignment).max
    BY <1>1, <2>1 DEF GatewayInv, CommitsAreWithinTheRate, MayBecome
  <2>2. ASSUME NEW v \in Workers, NEW c, c = call'[v], c.at = "commit", c.reason = None,
               c.d.kind = "TRADE_PROPOSAL"
        PROVE  CountClaimed(c.d, c.now)' <= CurrentAssignment(c.d.assignment)'.max
    BY <2>1, <2>2, LookupsAgree
  <2>3. QED BY <2>2 DEF CommitsAreWithinTheRate
<1>8. AnswersAreOnRecord'
  <2>1. ASSUME NEW v \in Workers, NEW c, c = call'[v], c.at = "answered", c.reply.code = 200
        PROVE  Told(c.d, c.reply)'
    <3>1. Told(c.d, c.reply)
      BY <1>1, <2>1 DEF GatewayInv, AnswersAreOnRecord, MayBecome
    <3>2. QED BY <3>1, LookupsAgree
  <2>2. ASSUME NEW r \in replies' PROVE Told(r.d, r.reply)'
    BY LookupsAgree
  <2>3. QED BY <2>1, <2>2 DEF AnswersAreOnRecord
<1>9. QED BY <1>2, <1>3, <1>4, <1>5, <1>6, <1>7, <1>8 DEF GatewayInv

\* With the locks untouched.
LEMMA NoLockMoves ==
    ASSUME GatewayInv, lockOf' = lockOf, NEW w \in Workers
    PROVE  LocksKept(w)
BY DEF GatewayInv, GatewayTypeOK, LocksKept

\* The end of a transaction releases the worker's own locks only.
LEMMA UnlockKeeps ==
    ASSUME GatewayInv, NEW w \in Workers, Unlock(w)
    PROVE  LocksKept(w)
BY DEF GatewayInv, GatewayTypeOK, Unlock, LocksKept

\* What has been heard before is still on record.
LEMMA HeardBefore ==
    ASSUME GatewayInv, replies' = replies
    PROVE  \A r \in replies' : Told(r.d, r.reply)
BY DEF GatewayInv, AnswersAreOnRecord

\* A step after which the worker neither claims nor has an answer to give.
LEMMA PlainMoves ==
    ASSUME GatewayInv, NEW w \in Workers, NEW p, Goto(w, p), CallOK(p),
           p.at \notin {"claim", "commit", "answered"},
           LocksKept(w), UNCHANGED <<assignments, contexts, claims, settlements>>, clock' \in Nat,
           \A r \in replies' : Told(r.d, r.reply)
    PROVE  GatewayInv'
BY WorkerMoves DEF MayBecome

------------------------------------------------------------------------------
(* The driver, and the parts of a call outside its transaction             *)

\* What the driver of the embedded agent does outside the gateway stores nothing.
LEMMA DriverMoves ==
    ASSUME GatewayInv, StartDriver \/ RecordEvidence \/ DecisionPath \/ RunOnce
    PROVE  GatewayInv'
<1>1. /\ UNCHANGED <<clock, assignments, contexts, claims, settlements, lockOf, replies>>
      /\ clock' \in Nat
  BY DEF StartDriver, RecordEvidence, DecisionPath, RunOnce, stores, GatewayInv, GatewayTypeOK
<1>2. LocksKept(Driver) /\ \A r \in replies' : Told(r.d, r.reply)
  BY <1>1, NoLockMoves, HeardBefore
<1>3. CASE StartDriver \/ RunOnce
  <2>1. Goto(Driver, Idle)
    BY <1>3 DEF StartDriver, RunOnce
  <2>2. CallOK(Idle) /\ Idle.at \notin {"claim", "commit", "answered"}
    BY DEF CallOK, Idle, Carrying
  <2>3. QED BY <1>1, <1>2, <2>1, <2>2, PlainMoves
<1>4. CASE RecordEvidence
  <2>1. PICK a \in assignments : Goto(Driver, [at |-> "publish", now |-> clock, assignment |-> a.id])
    BY <1>4 DEF RecordEvidence
  <2>2. clock \in Nat /\ a.id \in AssignmentIds
    BY DEF GatewayInv, GatewayTypeOK, AssignmentIds
  <2>3. CallOK([at |-> "publish", now |-> clock, assignment |-> a.id])
    BY <2>2 DEF CallOK, Carrying
  <2>4. QED BY <1>1, <1>2, <2>1, <2>3, PlainMoves
<1>5. CASE DecisionPath
  <2> DEFINE p == [at |-> "run", id |-> call[Driver].d.id]
  <2>1. Goto(Driver, p)
    BY <1>5 DEF DecisionPath
  <2>2. CallOK(p) /\ p.at \notin {"claim", "commit", "answered"}
    BY DEF CallOK, Carrying
  <2> HIDE DEF p
  <2>3. QED BY <1>1, <1>2, <2>1, <2>2, PlainMoves
<1>6. QED BY <1>3, <1>4, <1>5

\* A request that arrives puts a call where nothing has been established.
LEMMA BeginsACall ==
    ASSUME GatewayInv, NEW d \in Decisions,
           Decide(d) \/ \E w \in Workers : Post(w, d)
    PROVE  GatewayInv'
<1>1. ASSUME NEW w \in Workers, NEW now \in Nat, NEW secret, NEW active,
             Goto(w, [at |-> "credential", d |-> d, now |-> now, secret |-> secret, active |-> active]),
             UNCHANGED <<clock, stores, lockOf, replies>>
      PROVE  GatewayInv'
  <2> DEFINE p == [at |-> "credential", d |-> d, now |-> now, secret |-> secret, active |-> active]
  <2>1. CallOK(p) /\ p.at \notin {"claim", "commit", "answered"}
    BY DEF CallOK, Carrying
  <2>2. LocksKept(w) /\ (\A r \in replies' : Told(r.d, r.reply)) /\ clock' \in Nat
    BY <1>1, NoLockMoves, HeardBefore DEF GatewayInv, GatewayTypeOK
  <2> HIDE DEF p
  <2>3. QED BY <1>1, <2>1, <2>2, PlainMoves DEF stores, p
<1>2. ASSUME NEW w \in Workers, Post(w, d) PROVE GatewayInv'
  <2>1. clock \in Nat
    BY DEF GatewayInv, GatewayTypeOK
  <2>2. QED BY <1>1, <1>2, <2>1 DEF Post
<1>3. ASSUME Decide(d) PROVE GatewayInv'
  <2>1. call[Driver].now \in Nat
    BY <1>3 DEF Decide, At, GatewayInv, GatewayTypeOK, CallOK
  <2>2. QED BY <1>1, <1>3, <2>1 DEF Decide
<1>4. QED BY <1>2, <1>3

\* A refusal carries no verdict.
LEMMA AuthenticateOK ==
    ASSUME GatewayInv, NEW w \in Workers, Authenticate(w)
    PROVE  GatewayInv'
<1> DEFINE c == call[w]
           l == [at |-> "lock", d |-> c.d, now |-> c.now]
           a == Answer(w, [code |-> 401])
<1>1. c.at = "credential" /\ (Goto(w, l) \/ Goto(w, a))
  BY DEF Authenticate, At
<1>2. c.d \in Decisions /\ c.now \in Nat
  BY <1>1 DEF GatewayInv, GatewayTypeOK, CallOK, Carrying
<1>3. /\ UNCHANGED <<clock, assignments, contexts, claims, settlements, lockOf, replies>>
      /\ clock' \in Nat
  BY DEF Authenticate, stores, GatewayInv, GatewayTypeOK
<1>4. LocksKept(w) /\ \A r \in replies' : Told(r.d, r.reply)
  BY <1>3, NoLockMoves, HeardBefore
<1>5. MayBecome(w, l)
  BY <1>2 DEF MayBecome, CallOK, Carrying
<1>6. MayBecome(w, a)
  BY <1>2 DEF MayBecome, CallOK, Carrying, Answer
<1> HIDE DEF l, a
<1>7. QED BY <1>1, <1>3, <1>4, <1>5, <1>6, WorkerMoves

\* What is heard is what was answered.
LEMMA HeardIsTold ==
    ASSUME GatewayInv, NEW w \in Workers, At(w, "answered"), Heard(w)
    PROVE  \A r \in replies' : Told(r.d, r.reply)
<1>1. ASSUME NEW r \in replies', r \notin replies
      PROVE  r.d = call[w].d /\ r.reply = call[w].reply /\ call[w].reply.code = 200
  BY <1>1 DEF Heard
<1>2. QED BY <1>1 DEF At, GatewayInv, AnswersAreOnRecord

\* The answer of a call is heard, and it is the one that the stores hold.
LEMMA ReplyOK ==
    ASSUME GatewayInv, NEW w \in Workers, Reply(w)
    PROVE  GatewayInv'
<1>1. /\ UNCHANGED <<clock, assignments, contexts, claims, settlements, lockOf>>
      /\ clock' \in Nat /\ Goto(w, Idle) /\ At(w, "answered")
  BY DEF Reply, stores, GatewayInv, GatewayTypeOK
<1>2. \A r \in replies' : Told(r.d, r.reply)
  BY <1>1, HeardIsTold, HeardBefore DEF Reply
<1>3. CallOK(Idle) /\ Idle.at \notin {"claim", "commit", "answered"}
  BY DEF CallOK, Idle, Carrying
<1>4. QED BY <1>1, <1>2, <1>3, NoLockMoves, PlainMoves

\* So is the answer that the driver hears, which then takes it on or drops it.
LEMMA AcceptedOK ==
    ASSUME GatewayInv, Accepted
    PROVE  GatewayInv'
<1> DEFINE c == call[Driver]
           n == [at |-> "path", d |-> c.d, now |-> c.now, intent |-> c.reply.intent]
<1>1. /\ UNCHANGED <<clock, assignments, contexts, claims, settlements, lockOf>>
      /\ clock' \in Nat /\ At(Driver, "answered") /\ Heard(Driver)
      /\ Goto(Driver, n) \/ Goto(Driver, Idle)
  BY DEF Accepted, stores, GatewayInv, GatewayTypeOK
<1>2. \A r \in replies' : Told(r.d, r.reply)
  BY <1>1, HeardIsTold
<1>3. /\ CallOK(Idle) /\ Idle.at \notin {"claim", "commit", "answered"}
      /\ CallOK(n) /\ n.at \notin {"claim", "commit", "answered"}
  BY DEF CallOK, Idle, Carrying
<1> HIDE DEF n
<1>4. QED BY <1>1, <1>2, <1>3, NoLockMoves, PlainMoves

------------------------------------------------------------------------------
(* The transaction                                                         *)

\* The lock was free, so nobody else claims for this assignment.
LEMMA LockOK ==
    ASSUME GatewayInv, NEW w \in Workers, Lock(w)
    PROVE  GatewayInv'
<1> DEFINE d == call[w].d
           p == [call[w] EXCEPT !.at = "claim"]
<1>1. /\ call[w].at = "lock" /\ lockOf[d.assignment] = None
      /\ lockOf' = [lockOf EXCEPT ![d.assignment] = w] /\ Goto(w, p)
      /\ UNCHANGED <<clock, assignments, contexts, claims, settlements, replies>>
  BY DEF Lock, At, stores
<1>2. /\ d \in Decisions /\ call[w].now \in Nat /\ clock' \in Nat
      /\ call[w] = [at |-> "lock", d |-> d, now |-> call[w].now]
  BY <1>1 DEF GatewayInv, GatewayTypeOK, CallOK, Carrying
<1>3. p = [at |-> "claim", d |-> d, now |-> call[w].now]
  BY <1>2
<1>4. LocksKept(w) /\ lockOf'[d.assignment] = w
  BY <1>1, <1>2, DecisionsHaveLocks DEF LocksKept, GatewayInv, GatewayTypeOK
<1>5. MayBecome(w, p)
  BY <1>2, <1>3, <1>4 DEF MayBecome, CallOK, Carrying
<1>6. \A r \in replies' : Told(r.d, r.reply)
  BY <1>1, HeardBefore
<1> HIDE DEF p
<1>7. QED BY <1>1, <1>2, <1>4, <1>5, <1>6, WorkerMoves

\* A retry is answered with the verdict on record, a fresh claim evaluated.
LEMMA ClaimOK ==
    ASSUME GatewayInv, NEW w \in Workers, Claim(w)
    PROVE  GatewayInv'
<1> DEFINE d == call[w].d
           now == call[w].now
           a == CurrentAssignment(d.assignment)
           p == [at |-> "commit", d |-> d, now |-> now, reason |-> Evaluate(d, a, now)]
           q == Answer(w, [code |-> 409])
<1>1. /\ call[w].at = "claim" /\ ~InDoubt(d.id)
      /\ UNCHANGED <<clock, assignments, contexts, claims, settlements, replies>>
  BY DEF Claim, At, stores
<1>2. /\ d \in Decisions /\ now \in Nat /\ clock' \in Nat
      /\ lockOf[d.assignment] = w
  BY <1>1 DEF GatewayInv, GatewayTypeOK, CallOK, Carrying, LockHeld
<1>3. \A r \in replies' : Told(r.d, r.reply)
  BY <1>1, HeardBefore
<1>4. CASE ~Conflicts(d) /\ ~ClaimedAlready(d) /\ Goto(w, p) /\ lockOf' = lockOf
  <2>1. \A c \in claims : c.d.id # d.id
    BY <1>4 DEF Conflicts, ClaimedAlready
  <2>2. \A v \in Workers : v # w /\ call[v].at = "commit" => call[v].d.id # d.id
    BY <1>1 DEF InDoubt, At
  <2>3. Evaluate(d, a, now) = None =>
            /\ Grounded(d)
            /\ d.kind = "TRADE_PROPOSAL" => CountClaimed(d, now) <= a.max
    BY <1>2, AcceptanceChecks
  <2>4. CallOK(p)
    BY <1>2 DEF CallOK, Carrying
  <2>5. MayBecome(w, p)
    BY <1>2, <1>4, <2>1, <2>2, <2>3, <2>4 DEF MayBecome
  <2> HIDE DEF p
  <2>6. QED BY <1>1, <1>2, <1>3, <1>4, <2>5, NoLockMoves, WorkerMoves
<1>5. CASE Goto(w, q) /\ Unlock(w)
  <2>1. MayBecome(w, q)
    BY <1>2 DEF MayBecome, CallOK, Carrying, Answer
  <2> HIDE DEF q
  <2>2. QED BY <1>1, <1>2, <1>3, <1>5, <2>1, UnlockKeeps, WorkerMoves
<1>6. ASSUME ClaimedAlready(d), NEW s \in SettlementFor(d), Goto(w, Answer(w, Result(d, s.reason))), Unlock(w)
      PROVE  GatewayInv'
  <2> DEFINE r == Answer(w, Result(d, s.reason))
  <2>1. Told(d, Result(d, s.reason))
    BY <1>6 DEF Told, ClaimedAlready, SettlementFor
  <2>2. MayBecome(w, r)
    BY <1>2, <2>1 DEF MayBecome, CallOK, Carrying, Answer
  <2> HIDE DEF r
  <2>3. QED BY <1>1, <1>2, <1>3, <1>6, <2>2, UnlockKeeps, WorkerMoves DEF r
<1>7. QED
  <2> HIDE DEF p, q
  <2> QED BY <1>4, <1>5, <1>6 DEF Claim, p, q

\* A process that dies gives its lock back and leaves no claim.
LEMMA CrashOK ==
    ASSUME GatewayInv, NEW w \in Workers, Crash(w)
    PROVE  GatewayInv'
<1> DEFINE p == IF w = Driver THEN Off ELSE Idle
<1>1. /\ Goto(w, p) /\ Unlock(w)
      /\ UNCHANGED <<clock, assignments, contexts, claims, settlements, replies>> /\ clock' \in Nat
  BY DEF Crash, stores, GatewayInv, GatewayTypeOK
<1>2. CallOK(p) /\ p.at \notin {"claim", "commit", "answered"}
  BY DEF CallOK, Idle, Off, Carrying
<1> HIDE DEF p
<1>3. QED BY <1>1, <1>2, UnlockKeeps, HeardBefore, PlainMoves

\* The claim and its verdict appear together; whoever else is about to commit does
\* so for another assignment, so that what it counted still stands.
LEMMA CommitOK ==
    ASSUME GatewayInv, NEW w \in Workers, Commit(w)
    PROVE  GatewayInv'
<1> DEFINE d == call[w].d
           n == [d |-> d, at |-> call[w].now]
           z == [id |-> d.id, reason |-> call[w].reason]
           p == Answer(w, Result(d, call[w].reason))
<1>1. /\ call[w].at = "commit" /\ claims' = claims \cup {n} /\ settlements' = settlements \cup {z}
      /\ Unlock(w) /\ Goto(w, p)
      /\ UNCHANGED <<clock, assignments, contexts, replies>>
  BY DEF Commit, At, AppendEvent
<1>2. /\ d \in Decisions /\ call[w].now \in Nat /\ lockOf[d.assignment] = w
      /\ n \in [d : Decisions, at : Nat] /\ n.d = d /\ z.id = d.id
  BY <1>1 DEF GatewayInv, GatewayTypeOK, CallOK, Carrying, LockHeld
<1>3. LocksKept(w)
  BY <1>1, UnlockKeeps
<1>4. /\ p.at = "answered" /\ p.d = d /\ p.now = call[w].now /\ p.reply = Result(d, call[w].reason)
      /\ CallOK(p)
  BY <1>2 DEF Answer, CallOK, Carrying
<1>5. /\ \A c \in claims : c.d.id # d.id
      /\ \A v \in Workers : v # w /\ call[v].at = "commit" => call[v].d.id # d.id
      /\ \A s \in settlements : s.id # d.id
  BY <1>1 DEF GatewayInv, ClaimedOnce, SettledOnce
<1> HIDE DEF n, z, p
<1>6. /\ call' = [v \in Workers |-> call'[v]]
      /\ call'[w] = p /\ \A v \in Workers : v # w => call'[v] = call[v]
  BY <1>1 DEF Goto, GatewayInv, GatewayTypeOK
<1>7. GatewayTypeOK'
  <2>1. IsFiniteSet(claims')
    BY <1>1, FS_AddElement DEF GatewayInv, GatewayTypeOK
  <2>2. QED BY <1>1, <1>2, <1>3, <1>4, <1>6, <2>1 DEF GatewayInv, GatewayTypeOK, LocksKept
<1>8. AssignmentsAreUnique'
  BY <1>1 DEF GatewayInv, AssignmentsAreUnique
<1>9. LockHeld'
  <2>1. ASSUME NEW v \in Workers, v # w, call[v].at \in {"claim", "commit"}
        PROVE  lockOf'[call[v].d.assignment] = v
    <3>1. call[v].d.assignment \in AssignmentIds /\ lockOf[call[v].d.assignment] = v
      BY <2>1, DecisionsHaveLocks DEF GatewayInv, GatewayTypeOK, CallOK, Carrying, LockHeld
    <3>2. QED BY <1>3, <2>1, <3>1 DEF LocksKept
  <2>2. QED BY <1>4, <1>6, <2>1 DEF LockHeld
<1>10. ClaimedOnce'
  BY <1>1, <1>2, <1>4, <1>5, <1>6 DEF GatewayInv, ClaimedOnce
<1>11. SettledOnce'
  <2>1. z = [id |-> z.id, reason |-> z.reason]
    BY DEF z
  <2>2. n \in claims'
    BY <1>1
  <2>3. \A s \in settlements' : s \in settlements \/ s = z
    BY <1>1
  <2>4. \A s \in settlements' : \E c \in claims' : c.d.id = s.id
    BY <1>1, <1>2, <2>2, <2>3 DEF GatewayInv, SettledOnce
  <2>5. \A s, u \in settlements' : s.id = u.id => s = u
    BY <1>2, <1>5, <2>3 DEF GatewayInv, SettledOnce
  <2>6. QED BY <2>1, <2>3, <2>4, <2>5 DEF GatewayInv, SettledOnce
<1>12. AcceptedIsGrounded'
  <2>1. \A x : Grounded(x)' <=> Grounded(x)
    BY <1>1 DEF Grounded
  <2>2. ASSUME NEW c \in claims, [id |-> c.d.id, reason |-> None] \in settlements' PROVE Grounded(c.d)
    BY <1>1, <1>2, <1>5, <2>2 DEF GatewayInv, AcceptedIsGrounded
  <2>3. ASSUME [id |-> d.id, reason |-> None] \in settlements' PROVE Grounded(d)
    <3>1. [id |-> d.id, reason |-> None] = z
      BY <1>1, <1>5, <2>3
    <3>2. call[w].reason = None
      BY <3>1 DEF z
    <3>3. QED BY <1>1, <3>2 DEF GatewayInv, AcceptedIsGrounded
  <2>4. \A c \in claims' : [id |-> c.d.id, reason |-> None] \in settlements' => Grounded(c.d)
    BY <1>1, <1>2, <2>2, <2>3
  <2>5. \A v \in Workers : call'[v].at = "commit" /\ call'[v].reason = None => Grounded(call[v].d) /\ call'[v] = call[v]
    BY <1>4, <1>6 DEF GatewayInv, AcceptedIsGrounded
  <2>6. QED BY <2>1, <2>4, <2>5 DEF AcceptedIsGrounded
<1>13. CommitsAreWithinTheRate'
  <2>1. ASSUME NEW v \in Workers, NEW c, c = call'[v], c.at = "commit", c.reason = None,
               c.d.kind = "TRADE_PROPOSAL"
        PROVE  CountClaimed(c.d, c.now)' <= CurrentAssignment(c.d.assignment)'.max
    <3>1. v # w /\ c = call[v]
      BY <1>4, <1>6, <2>1
    <3>2. CountClaimed(c.d, c.now) <= CurrentAssignment(c.d.assignment).max
      BY <2>1, <3>1 DEF GatewayInv, CommitsAreWithinTheRate
    <3>3. n.d.assignment # c.d.assignment
      BY <1>1, <1>2, <2>1, <3>1 DEF GatewayInv, LockHeld
    <3>4. CountClaimed(c.d, c.now)' = CountClaimed(c.d, c.now)
      BY <1>1, <3>3 DEF CountClaimed
    <3>5. CurrentAssignment(c.d.assignment)' = CurrentAssignment(c.d.assignment)
      BY <1>1 DEF CurrentAssignment
    <3>6. QED BY <3>2, <3>4, <3>5
  <2>2. QED BY <2>1 DEF CommitsAreWithinTheRate
<1>14. AnswersAreOnRecord'
  <2>1. \A x, reason : Result(x, reason)' = Result(x, reason)
    BY <1>1 DEF Result, TradeIntent, CurrentAssignment
  <2>2. \A x, reply : Told(x, reply) => Told(x, reply)'
    BY <1>1, <2>1 DEF Told
  <2>3. ASSUME NEW x, x = p.d, NEW reply, reply = p.reply PROVE Told(x, reply)'
    <3>1. n \in claims' /\ z \in settlements' /\ n.d = x /\ z.id = x.id /\ z.reason = call[w].reason
      BY <1>1, <1>2, <1>4, <2>3 DEF z
    <3>2. reply = Result(x, z.reason)
      BY <1>4, <2>3, <3>1
    <3>3. QED BY <2>1, <3>1, <3>2 DEF Told
  <2>4. ASSUME NEW v \in Workers, NEW c, c = call'[v], c.at = "answered", c.reply.code = 200
        PROVE  Told(c.d, c.reply)'
    BY <1>6, <2>2, <2>3, <2>4 DEF GatewayInv, AnswersAreOnRecord
  <2>5. \A r \in replies' : Told(r.d, r.reply)'
    BY <1>1, <2>2 DEF GatewayInv, AnswersAreOnRecord
  <2>6. QED BY <2>4, <2>5 DEF AnswersAreOnRecord
<1>15. QED BY <1>7, <1>8, <1>9, <1>10, <1>11, <1>12, <1>13, <1>14 DEF GatewayInv

------------------------------------------------------------------------------
(* New assignments, new contexts, and the steps that touch neither a call  *)
(* nor a store                                                             *)

\* New assignments and contexts leave every verdict, and every count, as it was.
LEMMA StoresGrow ==
    ASSUME GatewayInv, GatewayTypeOK', AssignmentsAreUnique', Extends,
           UNCHANGED <<claims, settlements, lockOf, replies>>,
           \A v \in Workers : call'[v] = call[v] \/ call'[v].at = "decide"
    PROVE  GatewayInv'
<1>1. LockHeld' /\ ClaimedOnce' /\ SettledOnce'
  BY DEF GatewayInv, LockHeld, ClaimedOnce, SettledOnce
<1>2. AcceptedIsGrounded'
  <2>1. \A d : Grounded(d) => Grounded(d)'
    BY GroundedStays
  <2>2. QED BY <2>1 DEF GatewayInv, AcceptedIsGrounded
<1>3. CommitsAreWithinTheRate'
  <2>1. ASSUME NEW v \in Workers, NEW c, c = call'[v], c.at = "commit", c.reason = None,
               c.d.kind = "TRADE_PROPOSAL"
        PROVE  CountClaimed(c.d, c.now)' <= CurrentAssignment(c.d.assignment)'.max
    <3>1. c = call[v]
      BY <2>1
    <3>2. CountClaimed(c.d, c.now) <= CurrentAssignment(c.d.assignment).max /\ Grounded(c.d)
      BY <2>1, <3>1 DEF GatewayInv, CommitsAreWithinTheRate, AcceptedIsGrounded
    <3>3. CountClaimed(c.d, c.now)' = CountClaimed(c.d, c.now)
      BY DEF CountClaimed
    <3>4. CurrentAssignment(c.d.assignment)' = CurrentAssignment(c.d.assignment)
      BY <3>2, GroundedStays
    <3>5. QED BY <3>2, <3>3, <3>4
  <2>2. QED BY <2>1 DEF CommitsAreWithinTheRate
<1>4. AnswersAreOnRecord'
  <2>1. ASSUME NEW d, NEW reply, Told(d, reply) PROVE Told(d, reply)'
    <3>1. PICK c \in claims, s \in settlements : c.d = d /\ s.id = d.id /\ reply = Result(d, s.reason)
      BY <2>1 DEF Told
    <3>2. s.reason = None => Grounded(d)
      <4>1. s = [id |-> s.id, reason |-> s.reason]
        BY DEF GatewayInv, SettledOnce
      <4>2. QED BY <3>1, <4>1 DEF GatewayInv, AcceptedIsGrounded
    <3>3. Result(d, s.reason)' = Result(d, s.reason)
      <4>1. CASE s.reason = None
        BY <3>2, <4>1, GroundedStays DEF Result
      <4>2. CASE s.reason # None
        BY <4>2 DEF Result
      <4>3. QED BY <4>1, <4>2
    <3>4. QED BY <3>1, <3>3 DEF Told
  <2>2. ASSUME NEW v \in Workers, NEW c, c = call'[v], c.at = "answered", c.reply.code = 200
        PROVE  Told(c.d, c.reply)'
    BY <2>1, <2>2 DEF GatewayInv, AnswersAreOnRecord
  <2>3. \A r \in replies' : Told(r.d, r.reply)'
    BY <2>1 DEF GatewayInv, AnswersAreOnRecord
  <2>4. QED BY <2>2, <2>3 DEF AnswersAreOnRecord
<1>5. QED BY <1>1, <1>2, <1>3, <1>4 DEF GatewayInv

\* register() of a new assignment.
LEMMA IssueAssignmentOK ==
    ASSUME GatewayInv, NEW a \in Assignments, IssueAssignment(a)
    PROVE  GatewayInv'
<1>1. /\ \A b \in assignments : b.id # a.id
      /\ assignments' = assignments \cup {a}
      /\ UNCHANGED <<clock, contexts, claims, settlements, lockOf, call, replies>>
  BY DEF IssueAssignment
<1>2. GatewayTypeOK' /\ AssignmentsAreUnique' /\ Extends
  BY <1>1 DEF GatewayInv, GatewayTypeOK, AssignmentsAreUnique, Extends
<1>3. QED BY <1>1, <1>2, StoresGrow

\* issue_context_bundle()
LEMMA PublishContextOK ==
    ASSUME GatewayInv, PublishContext
    PROVE  GatewayInv'
<1> DEFINE now == call[Driver].now
           b == [assignment |-> call[Driver].assignment, feature |-> now, expires |-> now + Validity]
           p == [at |-> "decide", now |-> now, context |-> Len(contexts) + 1]
<1>1. /\ call[Driver].at = "publish" /\ contexts' = Append(contexts, b) /\ Goto(Driver, p)
      /\ UNCHANGED <<clock, assignments, claims, settlements, lockOf, replies>>
  BY DEF PublishContext, At
<1>2. now \in Nat /\ b \in Contexts /\ contexts \in Seq(Contexts)
  BY <1>1 DEF GatewayInv, GatewayTypeOK, CallOK, Contexts
<1>3. CallOK(p) /\ p.at = "decide"
  BY <1>2 DEF CallOK, Carrying
<1> HIDE DEF b, p
<1>4. /\ call' = [v \in Workers |-> call'[v]]
      /\ call'[Driver] = p /\ \A v \in Workers : v # Driver => call'[v] = call[v]
  BY <1>1 DEF Goto, GatewayInv, GatewayTypeOK
<1>5. contexts' \in Seq(Contexts) /\ \A i \in DOMAIN contexts : i \in DOMAIN contexts' /\ contexts'[i] = contexts[i]
  BY <1>1, <1>2
<1>6. GatewayTypeOK'
  BY <1>1, <1>3, <1>4, <1>5 DEF GatewayInv, GatewayTypeOK
<1>7. AssignmentsAreUnique' /\ Extends
  BY <1>1, <1>5 DEF GatewayInv, AssignmentsAreUnique, Extends
<1>8. QED BY <1>1, <1>3, <1>4, <1>6, <1>7, StoresGrow

\* The registry, the clock, and a stuttering step.
LEMMA ElsewhereOK ==
    ASSUME GatewayInv,
           \/ UNCHANGED vars \/ Tick \/ SetCredential
           \/ \E a \in Agents : RegisterIdentity(a, "SUSPENDED")
    PROVE  GatewayInv'
<1>1. /\ clock' \in Nat
      /\ UNCHANGED <<assignments, contexts, claims, settlements, lockOf, call, replies>>
  BY DEF vars, stores, Tick, SetCredential, RegisterIdentity, GatewayInv, GatewayTypeOK
<1>2. GatewayTypeOK' /\ AssignmentsAreUnique' /\ Extends
  BY <1>1 DEF GatewayInv, GatewayTypeOK, AssignmentsAreUnique, Extends
<1>3. QED BY <1>1, <1>2, StoresGrow

------------------------------------------------------------------------------
(* The invariant holds                                                     *)

\* No call, no claim, no verdict at first.
LEMMA InitOK == Init => GatewayInv
<1> SUFFICES ASSUME Init PROVE GatewayInv
  OBVIOUS
<1>1. \A w \in Workers : call[w] = IF w = Driver THEN Off ELSE Idle
  BY DEF Init
<1>2. \A w \in Workers : CallOK(call[w]) /\ call[w].at \notin Carrying
  BY <1>1 DEF CallOK, Off, Idle, Carrying
<1>3. GatewayTypeOK
  <2>1. claims = {} /\ IsFiniteSet(claims)
    BY FS_EmptySet DEF Init
  <2>2. contexts \in Seq(Contexts)
    BY DEF Init
  <2>3. call = [w \in Workers |-> call[w]]
    BY DEF Init
  <2>4. QED BY <1>2, <2>1, <2>2, <2>3 DEF Init, GatewayTypeOK
<1>4. QED
  BY <1>2, <1>3 DEF Init, GatewayInv, AssignmentsAreUnique, LockHeld, ClaimedOnce, SettledOnce,
     AcceptedIsGrounded, CommitsAreWithinTheRate, AnswersAreOnRecord, Carrying

\* Every step of any process keeps it.
LEMMA NextOK == GatewayInv /\ [Next]_vars => GatewayInv'
<1> SUFFICES ASSUME GatewayInv, [Next]_vars PROVE GatewayInv'
  OBVIOUS
<1>1. CASE UNCHANGED vars \/ Tick
  BY <1>1, ElsewhereOK
<1>2. CASE Admin
  BY <1>2, ElsewhereOK, IssueAssignmentOK DEF Admin
<1>3. CASE DriverStep
  BY <1>3, DriverMoves, PublishContextOK, AcceptedOK DEF DriverStep
<1>4. CASE \E d \in Decisions : Decide(d)
  BY <1>4, BeginsACall
<1>5. CASE \E w \in Workers, d \in Decisions : Post(w, d)
  BY <1>5, BeginsACall
<1>6. ASSUME NEW w \in Workers, Step(w) \/ Crash(w) PROVE GatewayInv'
  BY <1>6, AuthenticateOK, LockOK, ClaimOK, CommitOK, ReplyOK, CrashOK DEF Step
<1>7. QED BY <1>1, <1>2, <1>3, <1>4, <1>5, <1>6 DEF Next

\* The locks, claims, verdicts and answers of the Agent Gateway agree at all times.
THEOREM GatewaySafe == Spec => []GatewayInv
BY InitOK, NextOK, PTL DEF Spec

\* An outcome id has one decision, one verdict and one TradeIntent: every 200 that
\* reaches an agent for it is the same, whatever was retried, lost or restarted.
THEOREM EveryRetryHearsTheSame == Spec => []OneAnswer
<1>1. GatewayInv => OneAnswer
  <2> SUFFICES ASSUME GatewayInv, NEW r \in replies, NEW s \in replies, r.d.id = s.d.id
               PROVE  r.d = s.d /\ r.reply = s.reply
    BY DEF OneAnswer
  <2>1. Told(r.d, r.reply) /\ Told(s.d, s.reply)
    BY DEF GatewayInv, AnswersAreOnRecord
  <2>2. PICK c \in claims, u \in settlements : c.d = r.d /\ u.id = r.d.id /\ r.reply = Result(r.d, u.reason)
    BY <2>1 DEF Told
  <2>3. PICK e \in claims, x \in settlements : e.d = s.d /\ x.id = s.d.id /\ s.reply = Result(s.d, x.reason)
    BY <2>1 DEF Told
  <2>4. c = e /\ u = x
    BY <2>2, <2>3 DEF GatewayInv, ClaimedOnce, SettledOnce
  <2>5. QED BY <2>2, <2>3, <2>4
<1>2. QED BY <1>1, GatewaySafe, PTL

------------------------------------------------------------------------------
(* The rate limit                                                          *)

\* The commit of an accepted proposal: what the window held was counted under the
\* lock, whichever of the claims bear an earlier and whichever a later time.
LEMMA CommitIsWithinTheRate ==
    ASSUME GatewayInv, WithinTheRate, NEW w \in Workers, Commit(w)
    PROVE  WithinTheRate'
<1> DEFINE d == call[w].d
           now == call[w].now
           n == [d |-> d, at |-> now]
           z == [id |-> d.id, reason |-> call[w].reason]
<1>1. /\ call[w].at = "commit" /\ claims' = claims \cup {n} /\ settlements' = settlements \cup {z}
      /\ assignments' = assignments
  BY DEF Commit, At, AppendEvent
<1>2. d \in Decisions /\ now \in Nat /\ n.d = d /\ n.at = now
  BY <1>1 DEF GatewayInv, GatewayTypeOK, CallOK, Carrying
<1>3. /\ \A c \in claims : c.d.id # d.id
      /\ \A s \in settlements : s.id # d.id
  BY <1>1 DEF GatewayInv, ClaimedOnce, SettledOnce
<1>4. ASSUME NEW c \in claims
      PROVE  [id |-> c.d.id, reason |-> None] \in settlements' <=> [id |-> c.d.id, reason |-> None] \in settlements
  <2>1. [id |-> c.d.id, reason |-> None] # z
    BY <1>3
  <2>2. QED BY <1>1, <2>1
<1> SUFFICES ASSUME NEW a \in assignments, NEW t \in Nat PROVE Cardinality(Window(a, t)') <= a.max
  BY <1>1 DEF WithinTheRate
<1>5. /\ Cardinality(Window(a, t)) <= a.max
      /\ a.max \in Nat /\ CurrentAssignment(a.id) = a
  BY CurrentIsTheOne DEF WithinTheRate, GatewayInv, GatewayTypeOK, TradingAssignment
<1>6. \A c \in Window(a, t)' : c \in Window(a, t) \/ c = n
  BY <1>1, <1>4 DEF Window
<1>7. \A c \in Window(a, t) : c \in Window(a, t)'
  BY <1>1, <1>4 DEF Window
<1>8. CASE n \notin Window(a, t)'
  <2>1. Window(a, t)' = Window(a, t)
    BY <1>6, <1>7, <1>8
  <2>2. QED BY <1>5, <2>1
<1>9. CASE n \in Window(a, t)'
  <2> DEFINE S == {c \in claims : c.d.assignment = d.assignment /\ c.at >= now - Hour}
  <2>1. /\ d.assignment = a.id /\ d.kind = "TRADE_PROPOSAL" /\ now \in t..(t + Hour)
        /\ [id |-> d.id, reason |-> None] \in settlements'
    BY <1>2, <1>9 DEF Window
  <2>2. call[w].reason = None
    <3>1. [id |-> d.id, reason |-> None] = z
      BY <1>1, <1>3, <2>1
    <3>2. QED BY <3>1
  <2>3. 1 + Cardinality(S) <= a.max
    BY <1>1, <1>5, <2>1, <2>2 DEF GatewayInv, CommitsAreWithinTheRate, CountClaimed
  <2>4. IsFiniteSet(S) /\ n \notin S
    BY <1>2, <1>3, FS_Subset DEF GatewayInv, GatewayTypeOK
  <2>5. Window(a, t)' \subseteq S \cup {n}
    <3>1. ASSUME NEW c \in Window(a, t) PROVE c \in S
      <4>1. c \in claims /\ c.at \in Nat /\ c.d.assignment = d.assignment /\ c.at \in t..(t + Hour)
        BY <2>1 DEF Window, GatewayInv, GatewayTypeOK
      <4>2. c.at >= now - Hour
        BY <1>2, <2>1, <4>1
      <4>3. QED BY <4>1, <4>2
    <3>2. QED BY <1>6, <3>1
  <2> HIDE DEF S
  <2>6. /\ IsFiniteSet(S \cup {n}) /\ Cardinality(S \cup {n}) = Cardinality(S) + 1
        /\ Cardinality(S) \in Nat
    BY <2>4, FS_AddElement, FS_CardinalityType
  <2>7. /\ Cardinality(Window(a, t)') <= Cardinality(S \cup {n})
        /\ Cardinality(Window(a, t)') \in Nat
    BY <2>5, <2>6, FS_Subset, FS_CardinalityType
  <2>8. QED BY <1>5, <2>3, <2>6, <2>7
<1>10. QED BY <1>8, <1>9

\* A new assignment has nothing accepted under it.
LEMMA IssueIsWithinTheRate ==
    ASSUME GatewayInv, WithinTheRate, NEW a \in Assignments, IssueAssignment(a)
    PROVE  WithinTheRate'
<1>1. /\ \A b \in assignments : b.id # a.id
      /\ assignments' = assignments \cup {a}
      /\ claims' = claims /\ settlements' = settlements
  BY DEF IssueAssignment
<1>2. \A b, t : Window(b, t)' = Window(b, t)
  BY <1>1 DEF Window
<1>3. ASSUME NEW t \in Nat PROVE Cardinality(Window(a, t)) <= a.max
  <2>1. Window(a, t) = {}
    BY <1>1 DEF Window, GatewayInv, AcceptedIsGrounded, Grounded
  <2>2. a.max \in Nat
    BY DEF TradingAssignment
  <2>3. QED BY <2>1, <2>2, FS_EmptySet
<1>4. QED BY <1>1, <1>2, <1>3 DEF WithinTheRate

\* No other step claims, settles or issues.
LEMMA RateElsewhere ==
    ASSUME WithinTheRate, UNCHANGED <<assignments, claims, settlements>>
    PROVE  WithinTheRate'
<1>1. \A b, t : Window(b, t)' = Window(b, t)
  BY DEF Window
<1>2. QED BY <1>1 DEF WithinTheRate

\* The rate limit is inductive over the invariant.
LEMMA RateNextOK == GatewayInv /\ WithinTheRate /\ [Next]_vars => WithinTheRate'
<1> SUFFICES ASSUME GatewayInv, WithinTheRate, [Next]_vars PROVE WithinTheRate'
  OBVIOUS
<1>1. CASE UNCHANGED vars \/ Tick
  BY <1>1, RateElsewhere DEF vars, stores, Tick
<1>2. CASE Admin
  BY <1>2, IssueIsWithinTheRate, RateElsewhere DEF Admin, RegisterIdentity, SetCredential, stores
<1>3. CASE DriverStep
  BY <1>3, RateElsewhere DEF DriverStep, StartDriver, RecordEvidence, PublishContext, Accepted,
     DecisionPath, RunOnce, stores
<1>4. CASE \E d \in Decisions : Decide(d)
  BY <1>4, RateElsewhere DEF Decide, stores
<1>5. CASE \E w \in Workers, d \in Decisions : Post(w, d)
  BY <1>5, RateElsewhere DEF Post, stores
<1>6. ASSUME NEW w \in Workers, Step(w) \/ Crash(w) PROVE WithinTheRate'
  <2>1. CASE Commit(w)
    BY <2>1, CommitIsWithinTheRate
  <2>2. CASE Authenticate(w) \/ Lock(w) \/ Claim(w) \/ Reply(w) \/ Crash(w)
    BY <2>2, RateElsewhere DEF Authenticate, Lock, Claim, Reply, Crash, stores
  <2>3. QED BY <1>6, <2>1, <2>2 DEF Step
<1>7. QED BY <1>1, <1>2, <1>3, <1>4, <1>5, <1>6 DEF Next

\* No assignment has more proposals accepted within any hour than it allows, with
\* any number of processes submitting at once and the driver claiming with the time
\* at which its cycle began.
THEOREM AcceptancesAreWithinTheRate == Spec => []RateLimited
<1>1. Init => WithinTheRate
  BY DEF Init, WithinTheRate
<1>2. WithinTheRate => RateLimited
  <2>1. 0..LastTime \subseteq Nat
    OBVIOUS
  <2>2. QED BY <2>1 DEF WithinTheRate, RateLimited, Window
<1>3. QED BY <1>1, <1>2, RateNextOK, GatewaySafe, PTL DEF Spec
=============================================================================
