-------------------------- MODULE OneShotSubmission --------------------------
(***************************************************************************)
(* What the entry path promises, whatever its workers, stores and broker   *)
(* do: a permit is spent on one request, a request is paid for by one      *)
(* permit, and a paid request is sent once (the owner's one-shot canary    *)
(* authorisation, application/execution.py _attempt_real_entry_submission).*)
(***************************************************************************)
EXTENDS Naturals

CONSTANTS Permits, Requests, None

VARIABLES spent,  \* permit -> the request it was spent on, or None
          sent    \* request -> how many times its order was sent

Init ==
    /\ spent = [p \in Permits |-> None]
    /\ sent = [r \in Requests |-> 0]

Spend(p, r) ==
    /\ spent[p] = None
    /\ \A q \in Permits : spent[q] # r
    /\ spent' = [spent EXCEPT ![p] = r]
    /\ UNCHANGED sent

Send(r) ==
    /\ \E p \in Permits : spent[p] = r
    /\ sent[r] = 0
    /\ sent' = [sent EXCEPT ![r] = 1]
    /\ UNCHANGED spent

Next ==
    \/ \E p \in Permits, r \in Requests : Spend(p, r)
    \/ \E r \in Requests : Send(r)

Spec == Init /\ [][Next]_<<spent, sent>>

==============================================================================
