-------------------------- MODULE EditorialContract --------------------------
(***************************************************************************)
(* What the moderation of posts and comments promises, whoever does it and *)
(* however often a step is repeated: content becomes readable, rejected or *)
(* queued for review only on the strength of a ruling that has already     *)
(* been logged; a person rules only on content the classifier has held;    *)
(* and once content has left the gate it never goes back behind it.        *)
(* ModerationPipeline is shown to implement this specification.            *)
(***************************************************************************)
EXTENDS ModerationPolicy

CONSTANT Content     \* post and comment ids

VARIABLES
    gateOff,         \* MODERATION_DISABLED=1: content is published unmoderated
    status,          \* status of each content row, "absent" before its INSERT
    rulings          \* verdicts in the content's moderation_decisions rows

vars == <<gateOff, status, rulings>>

Init ==
    /\ gateOff \in BOOLEAN
    /\ status = [c \in Content |-> "absent"]
    /\ rulings = [c \in Content |-> {}]

Submit(c) ==
    /\ status[c] = "absent"
    /\ status' = [status EXCEPT ![c] = "pending_ai"]
    /\ UNCHANGED <<gateOff, rulings>>

\* The classifier, or the handler of a job that failed for good, logs a verdict.
RuleByAi(c) ==
    /\ status[c] # "absent"
    /\ \E v \in AiVerdict :
          rulings' = [rulings EXCEPT ![c] = @ \union {v}]
    /\ UNCHANGED <<gateOff, status>>

RuleByHuman(c) ==
    /\ "hold_for_review" \in rulings[c]
    /\ \E v \in HumanVerdict :
          rulings' = [rulings EXCEPT ![c] = @ \union {v}]
    /\ UNCHANGED <<gateOff, status>>

\* The status follows a logged ruling; review is entered from pending_ai only.
Enact(c) ==
    /\ status[c] # "absent"
    /\ \E v \in rulings[c] :
          /\ v = "hold_for_review" => status[c] = "pending_ai"
          /\ status' = [status EXCEPT ![c] = VerdictToStatus(v)]
    /\ UNCHANGED <<gateOff, rulings>>

Bypass(c) ==
    /\ gateOff
    /\ status[c] = "pending_ai"
    /\ status' = [status EXCEPT ![c] = "published"]
    /\ UNCHANGED <<gateOff, rulings>>

\* Only content that was once made public can be withdrawn.
Withdraw(c) ==
    /\ status[c] \notin {"absent", "pending_ai", "pending_review"}
    /\ gateOff \/ \E v \in rulings[c] : VerdictToStatus(v) = "published"
    /\ status' = [status EXCEPT ![c] = "withdrawn"]
    /\ UNCHANGED <<gateOff, rulings>>

Next ==
    \E c \in Content :
        \/ Submit(c)
        \/ RuleByAi(c)
        \/ RuleByHuman(c)
        \/ Enact(c)
        \/ Bypass(c)
        \/ Withdraw(c)

Spec == Init /\ [][Next]_vars
===============================================================================
