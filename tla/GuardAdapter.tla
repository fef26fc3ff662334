----------------------------- MODULE GuardAdapter -----------------------------
(***************************************************************************)
(* OllamaModerationProvider.classify(): a guard model names hazard codes,  *)
(* which become scores, and an auxiliary model then adds the three axes    *)
(* the guard does not know.  The second request may fail or answer         *)
(* nonsense without harm to what the first one found.  Scores are in       *)
(* hundredths; an axis without a score is absent from the function.        *)
(***************************************************************************)
EXTENDS ModerationPolicy, FiniteSets, Functions, SequencesExt

CONSTANTS
    GuardCodes,      \* the codes the guard model may name, unknown ones too
    MaxCodes,        \* how many it names at most (bounds its answers)
    AuxNumbers       \* numbers the auxiliary model may answer, in hundredths

S4Score == 100
UnsafeScore == 90
NoiseFloor == 5

ASSUME GuardAssumption ==
    /\ MaxCodes \in Nat
    /\ AuxNumbers \subseteq Int
    /\ AutoRejectMin <= UnsafeScore     \* 0.85 and 0.9 in the code

VARIABLES
    auxEnabled,  \* OLLAMA_AUX_MODEL is not 'none'
    asking,      \* which of its two answers classify() is waiting for
    codes,       \* the codes the guard named, in the order of its answer
    scores,      \* the scores found so far
    outcome      \* what classify() returned

guardVars == <<auxEnabled, asking, codes, scores, outcome>>

AuxAxes == {"spam", "misinfo", "off_topic"}

\* S_CODE_MAP.  S6 is left out on purpose, and an unknown code has no axis.
AxesOf(code) ==
    CASE code \in {"S1", "S9"}       -> {"violence"}
      [] code \in {"S2", "S4", "S8"} -> {"illegal"}
      [] code = "S3"                 -> {"illegal", "sexual"}
      [] code \in {"S5", "S7"}       -> {"harassment"}
      [] code = "S10"                -> {"hate"}
      [] code = "S11"                -> {"self_harm"}
      [] code = "S12"                -> {"sexual"}
      [] code = "S13"                -> {"misinfo"}
      [] OTHER                       -> {}

ScoreOf(code) == IF code = "S4" THEN S4Score ELSE UnsafeScore

\* An axis that several codes map to takes the highest of their scores.
ScoresOf(named) ==
    [axis \in UNION {AxesOf(c) : c \in named} |->
        IF \E c \in named : axis \in AxesOf(c) /\ ScoreOf(c) = S4Score
        THEN S4Score ELSE UnsafeScore]

Clamp(x) == IF x < 0 THEN 0 ELSE IF x > 100 THEN 100 ELSE x

\* Mutant: the second pass returns its own scores.
OverlaidAlone(found, aux) == [axis \in AuxAxes |-> Clamp(aux[axis])]

\* The auxiliary scores replace those of their axes, the guard's misinfo too.
Overlaid(found, aux) ==
    [axis \in DOMAIN found \union AuxAxes |->
        IF axis \in AuxAxes THEN Clamp(aux[axis]) ELSE found[axis]]

filterScores(found) ==
    Restrict(found, {axis \in DOMAIN found : found[axis] >= NoiseFloor})

\* The provider's own suggestion; the policy's thresholds are not asked.
computeVerdict(found) ==
    CASE \E axis \in DOMAIN found : found[axis] >= 85 -> "auto_reject"
      [] \A axis \in DOMAIN found : found[axis] < 25  -> "auto_publish"
      [] OTHER                                       -> "hold_for_review"

NoScores == [axis \in {} |-> 0]

Pending == [result |-> "pending", scores |-> NoScores, verdict |-> "hold_for_review"]

Result(found) ==
    [result |-> "classified",
     scores |-> filterScores(found),
     verdict |-> computeVerdict(filterScores(found))]

-------------------------------------------------------------------------------
GuardInit ==
    /\ auxEnabled \in BOOLEAN
    /\ asking = "guard"
    /\ codes = <<>>
    /\ scores = NoScores
    /\ outcome = Pending

\* Unreachable, an error status or the deadline: the job's attempt fails.
GuardFails ==
    /\ asking = "guard"
    /\ asking' = "nothing"
    /\ outcome' = [Pending EXCEPT !.result = "thrown"]
    /\ UNCHANGED <<auxEnabled, codes, scores>>

\* Neither "safe" nor "unsafe" on the first line.
GuardMalformed ==
    /\ asking = "guard"
    /\ asking' = "nothing"
    /\ outcome' = [Pending EXCEPT !.result = "classified"]
    /\ UNCHANGED <<auxEnabled, codes, scores>>

\* "safe" is the answer without codes; "unsafe" may come without any, too.
GuardAnswers(answer) ==
    /\ asking = "guard"
    /\ codes' = answer
    /\ scores' = ScoresOf(ToSet(answer))
    /\ asking' = IF auxEnabled THEN "aux" ELSE "nothing"
    /\ outcome' = IF auxEnabled THEN outcome ELSE Result(scores')
    /\ UNCHANGED auxEnabled

\* A number that is missing from the answer, or no number, counts as 0.
AuxAnswers(aux) ==
    /\ asking = "aux"
    /\ asking' = "nothing"
    /\ scores' = Overlaid(scores, aux)
    /\ outcome' = Result(scores')
    /\ UNCHANGED <<auxEnabled, codes>>

\* The request failed, timed out, or its answer is no JSON.
AuxFails ==
    /\ asking = "aux"
    /\ asking' = "nothing"
    /\ outcome' = Result(scores)
    /\ UNCHANGED <<auxEnabled, codes, scores>>

GuardNext ==
    \/ GuardFails
    \/ GuardMalformed
    \/ \E answer \in BoundedSeq(GuardCodes, MaxCodes) : GuardAnswers(answer)
    \/ \E aux \in [AuxAxes -> AuxNumbers] : AuxAnswers(aux)
    \/ AuxFails

GuardSpec == GuardInit /\ [][GuardNext]_guardVars

-------------------------------------------------------------------------------
(***************************************************************************)
(* Properties.                                                             *)
(***************************************************************************)

\* Types.
GuardTypeOK ==
    /\ auxEnabled \in BOOLEAN
    /\ asking \in {"guard", "aux", "nothing"}
    /\ codes \in BoundedSeq(GuardCodes, MaxCodes)
    /\ \A axis \in DOMAIN scores : scores[axis] \in 0 .. 100
    /\ outcome.result \in {"pending", "classified", "thrown"}
    /\ outcome.verdict \in AiVerdict
    /\ \A axis \in DOMAIN outcome.scores : outcome.scores[axis] \in NoiseFloor .. 100

\* What the guard model found stands: whatever the auxiliary model answers or
\* fails to answer, content with a code the adapter knows is rejected, by the
\* provider's suggestion and by the policy alike, and whoever the author is.
\* S13 alone is not covered: its axis is the auxiliary model's too.
UnsafeIsRejected ==
    /\ outcome.result = "classified"
    /\ \E c \in ToSet(codes) : AxesOf(c) \ AuxAxes # {}
    => /\ outcome.verdict = "auto_reject"
       /\ Decide({outcome.scores[axis] : axis \in DOMAIN outcome.scores},
                 TrustedReputation) = "auto_reject"
===============================================================================
