----------------------------- MODULE PromptLife -----------------------------
(***************************************************************************)
(* What the delivery of prompts promises their owners, without its queues, *)
(* threads and gate: a prompt is typed at most once and never after its    *)
(* outcome, has one outcome for good, was typed when that is Ok and was    *)
(* withdrawn and not typed when that is Cancelled; and in quiet, while     *)
(* somebody holds the prompts back, nothing is typed, nor ever what was    *)
(* withdrawn untyped in it.  PromptDelivery implements it.                 *)
(***************************************************************************)
EXTENDS Naturals

CONSTANTS
    Prompts,
    Results, \* what an owner may be told
    Idle     \* not told yet

VARIABLES
    sent,      \* the prompts that were handed to the delivery
    typed,     \* how many times each was typed in the agent's pane
    outcome,   \* what its owner was told
    withdrawn, \* the prompts their owners do not want any more
    quiet,     \* whether prompts are held back
    barred     \* withdrawn untyped in quiet

vars == <<sent, typed, outcome, withdrawn, quiet, barred>>

Init ==
    /\ sent = {} /\ withdrawn = {} /\ barred = {}
    /\ typed = [p \in Prompts |-> 0]
    /\ outcome = [p \in Prompts |-> Idle]
    /\ quiet = FALSE

Send(p) ==
    /\ p \notin sent
    /\ sent' = sent \cup {p}
    /\ UNCHANGED <<typed, outcome, withdrawn, quiet, barred>>

\* A prompt that cannot be accepted is told so at once.
Refuse(p) ==
    /\ p \notin sent
    /\ sent' = sent \cup {p}
    /\ outcome' \in {[outcome EXCEPT ![p] = r] : r \in Results \ {"Ok", "Cancelled"}}
    /\ UNCHANGED <<typed, withdrawn, quiet, barred>>

Deliver(p) ==
    /\ p \in sent \ barred /\ ~quiet
    /\ outcome[p] = Idle /\ typed[p] = 0
    /\ typed' = [typed EXCEPT ![p] = 1]
    /\ UNCHANGED <<sent, outcome, withdrawn, quiet, barred>>

\* What the owner of p may be told.
MayBeTold(p) ==
    {r \in Results : /\ r = "Ok" => typed[p] = 1
                     /\ r = "Cancelled" => p \in withdrawn /\ typed[p] = 0}

Settle(p) ==
    /\ p \in sent /\ outcome[p] = Idle
    /\ \E r \in MayBeTold(p) : outcome' = [outcome EXCEPT ![p] = r]
    /\ UNCHANGED <<sent, typed, withdrawn, quiet, barred>>

\* The end of a thread closes what it held.
Lose(gone) ==
    /\ \A p \in gone : p \in sent /\ outcome[p] = Idle
    /\ outcome' = [p \in Prompts |-> IF p \in gone THEN "Closed" ELSE outcome[p]]
    /\ UNCHANGED <<sent, typed, withdrawn, quiet, barred>>

Withdraw(p) ==
    /\ p \in sent
    /\ withdrawn' = withdrawn \cup {p}
    /\ barred' = IF quiet /\ typed[p] = 0 THEN barred \cup {p} ELSE barred
    /\ UNCHANGED <<sent, typed, outcome, quiet>>

HoldBack ==
    /\ quiet' \in BOOLEAN
    /\ UNCHANGED <<sent, typed, outcome, withdrawn, barred>>

Next ==
    \/ \E p \in Prompts : Send(p) \/ Refuse(p) \/ Deliver(p) \/ Settle(p) \/ Withdraw(p)
    \/ \E gone \in SUBSET Prompts : Lose(gone)
    \/ HoldBack

Spec == Init /\ [][Next]_vars
=============================================================================
