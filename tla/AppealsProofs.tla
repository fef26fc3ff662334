----------------------------- MODULE AppealsProofs -----------------------------
(***************************************************************************)
(* Proofs about Appeals, for any content, any finite number of open pages  *)
(* and any number of resolve requests and appeals.                         *)
(*                                                                         *)
(* What the properties say of an appeal, a credit or a notice was decided  *)
(* some writes earlier by the request that left it.  RequestInv therefore  *)
(* follows a resolve request from its audit row on: the verdict is logged, *)
(* then the content is shown.  How often a content is credited depends on  *)
(* all requests together: CreditInv counts, with the credits given, those  *)
(* that requests past their UPDATE owe and those that may still come: from *)
(* every request while the content can pass the check, and only from those *)
(* that have passed it once the content is accepted.                       *)
(***************************************************************************)
EXTENDS Appeals, FiniteSetTheorems, TLAPS

\* The request holds a verdict to publish, and has published.
Upholding(m) ==
    \/ resolving[m].step \in {"check", "write", "credit"}
    \/ resolving[m].step \in {"mark", "notify"} /\ resolving[m].resolution = "upheld"
Published(m) ==
    \/ resolving[m].step = "credit"
    \/ resolving[m].step \in {"mark", "notify"} /\ resolving[m].resolution = "upheld"

RequestInv(m) ==
    /\ Upholding(m) => "human_publish" \in rulings[TargetOf(m)]
    /\ Published(m) => TargetOf(m) \in shown

\* The requests that are past their check, and past their UPDATE, of content t.
Writing(t) == {m \in Moderators : resolving[m].step = "write" /\ TargetOf(m) = t}
Crediting(t) == {m \in Moderators : resolving[m].step = "credit" /\ TargetOf(m) = t}

\* The requests that may come to credit content t before it is taken down again.
Outstanding(t) ==
    IF status[t] \in Accepted THEN Cardinality(Writing(t))
                              ELSE Cardinality(Moderators)

CreditInv ==
    \A t \in Content :
        IF t \in shown
        THEN credits[t] + Cardinality(Crediting(t)) + Outstanding(t)
                <= Cardinality(Moderators) * (1 + overturns[t])
        ELSE credits[t] = 0

\* UpheldIsPublished, one appeal at a time: what the author may have read, and
\* what it promises.
Claimed(a) ==
    \/ appeals[a].resolution = "upheld"
    \/ <<a, "upheld">> \in notices
    \/ a \in credited
Kept(a) ==
    /\ appeals[a].target \in shown
    /\ "human_publish" \in rulings[appeals[a].target]
ClaimInv == \A a \in DOMAIN appeals : Claimed(a) => Kept(a)

\* TypeOK, and what it leaves open about the variables.
TypeInv ==
    /\ TypeOK
    /\ ~gateOff
    /\ resolving \in
          [Moderators -> [step : ResolveStep, appeal : Nat,
                          resolution : Resolution \union {None}]]

IInv ==
    /\ TypeInv
    /\ \A m \in Moderators : RequestInv(m)
    /\ CreditInv
    /\ ClaimInv
    /\ StatusIsRuled
    /\ DuplicatesBounded

-------------------------------------------------------------------------------
(***************************************************************************)
(* What the steps do to the variables.                                     *)
(***************************************************************************)

\* The contract's copies of the policy are those of this module.
LEMMA SamePolicy ==
    /\ Pipeline!AiVerdict = AiVerdict
    /\ Pipeline!HumanVerdict = HumanVerdict
    /\ \A v : Pipeline!VerdictToStatus(v) = VerdictToStatus(v)
  BY DEF Pipeline!AiVerdict, AiVerdict, Pipeline!HumanVerdict, HumanVerdict,
     Pipeline!VerdictToStatus, VerdictToStatus

LEMMA VerdictStatus ==
    /\ \A v : VerdictToStatus(v) \in ContentStatus
    /\ VerdictToStatus("human_publish") = "published"
    /\ AiVerdict \subseteq Verdict /\ HumanVerdict \subseteq Verdict
  BY DEF VerdictToStatus, ContentStatus, Verdict, AiVerdict, HumanVerdict

\* Where content goes in a step of the pipeline: behind the gate, away with its
\* author, or where a logged verdict sends it.
LEMMA PipelineEffect ==
    ASSUME TypeInv, PipelineStep
    PROVE  /\ gateOff' = gateOff
           /\ status' \in [Content -> ContentStatus \union {"absent"}]
           /\ rulings' \in [Content -> SUBSET Verdict]
           /\ \A t \in Content :
                 /\ rulings[t] \subseteq rulings'[t]
                 /\ \/ status'[t] \in {status[t], "pending_ai", "withdrawn"}
                    \/ \E v \in rulings[t] : status'[t] = VerdictToStatus(v)
  <1>1. /\ status \in [Content -> ContentStatus \union {"absent"}]
        /\ rulings \in [Content -> SUBSET Verdict]
    BY DEF TypeInv, TypeOK
  <1>2. PICK t \in Content :
            \/ Pipeline!Submit(t) \/ Pipeline!RuleByAi(t) \/ Pipeline!RuleByHuman(t)
            \/ Pipeline!Enact(t) \/ Pipeline!Withdraw(t)
    BY DEF PipelineStep
  <1>3. CASE Pipeline!Submit(t) \/ Pipeline!Withdraw(t)
    BY <1>1, <1>3 DEF Pipeline!Submit, Pipeline!Withdraw, ContentStatus
  <1>4. CASE Pipeline!RuleByAi(t) \/ Pipeline!RuleByHuman(t)
    <2>1. PICK v \in Verdict : rulings' = [rulings EXCEPT ![t] = @ \union {v}]
      BY <1>4, SamePolicy, VerdictStatus DEF Pipeline!RuleByAi, Pipeline!RuleByHuman
    <2>2. UNCHANGED <<gateOff, status>>
      BY <1>4 DEF Pipeline!RuleByAi, Pipeline!RuleByHuman
    <2>3. QED  BY <1>1, <2>1, <2>2
  <1>5. CASE Pipeline!Enact(t)
    <2>1. PICK v \in rulings[t] : status' = [status EXCEPT ![t] = VerdictToStatus(v)]
      BY <1>5, SamePolicy DEF Pipeline!Enact
    <2>2. UNCHANGED <<gateOff, rulings>>
      BY <1>5 DEF Pipeline!Enact
    <2>3. QED  BY <1>1, <2>1, <2>2, VerdictStatus
  <1>6. QED  BY <1>2, <1>3, <1>4, <1>5

\* A row is appended, or one row's resolution is written.
LEMMA InsertEffect ==
    ASSUME TypeInv, NEW tab \in Tabs, SubmitInsert(tab)
    PROVE  /\ filing[tab] \in Content
           /\ appeals' \in Seq(AppealType)
           /\ Len(appeals) \in Nat
           /\ DOMAIN appeals = 1 .. Len(appeals)
           /\ DOMAIN appeals' = 1 .. Len(appeals) + 1
           /\ \A a \in DOMAIN appeals : appeals'[a] = appeals[a]
           /\ appeals'[Len(appeals) + 1].target = filing[tab]
           /\ appeals'[Len(appeals) + 1].resolution = None
  <1> DEFINE row == [target |-> filing[tab], resolution |-> None]
  <1>1. appeals' = Append(appeals, row) /\ appeals \in Seq(AppealType)
    BY DEF SubmitInsert, TypeInv, TypeOK
  <1>2. filing[tab] \in Content
    BY DEF SubmitInsert, TypeInv, TypeOK
  <1>3. /\ row \in AppealType
        /\ row.target = filing[tab] /\ row.resolution = None
    BY <1>2 DEF AppealType
  <1> HIDE DEF row
  <1>4. QED  BY <1>1, <1>2, <1>3

LEMMA MarkEffect ==
    ASSUME TypeInv, NEW m \in Moderators, Mark(m)
    PROVE  /\ resolving[m].appeal \in DOMAIN appeals
           /\ resolving[m].resolution \in Resolution
           /\ appeals' \in Seq(AppealType)
           /\ DOMAIN appeals' = DOMAIN appeals
           /\ \A a \in DOMAIN appeals :
                 /\ appeals'[a].target = appeals[a].target
                 /\ appeals'[a].resolution =
                       IF a = resolving[m].appeal THEN resolving[m].resolution
                       ELSE appeals[a].resolution
  <1> DEFINE b == resolving[m].appeal
             r == resolving[m].resolution
             row == [appeals[b] EXCEPT !.resolution = r]
  <1>1. appeals \in Seq(AppealType) /\ DOMAIN appeals = 1 .. Len(appeals)
    BY DEF TypeInv, TypeOK
  <1>2. b \in DOMAIN appeals /\ r \in Resolution
    BY DEF Mark, TypeInv, TypeOK, NoResolving
  <1>3. appeals[b] \in AppealType
    BY <1>1, <1>2
  <1>4. /\ row \in AppealType
        /\ row.target = appeals[b].target /\ row.resolution = r
    BY <1>2, <1>3 DEF AppealType
  <1>5. appeals' = [appeals EXCEPT ![b] = row]
    BY DEF Mark
  <1> HIDE DEF row, b, r
  <1>6. QED  BY <1>1, <1>2, <1>4, <1>5 DEF b, r

\* What resolve requests are made of.
LEMMA ResolvingFields ==
    ASSUME TypeInv, NEW m \in Moderators, resolving[m].step # "idle"
    PROVE  /\ resolving[m].appeal \in DOMAIN appeals
           /\ resolving[m].resolution \in Resolution
           /\ TargetOf(m) \in Content
  <1>1. /\ resolving[m].appeal \in DOMAIN appeals
        /\ resolving[m].resolution \in Resolution
    BY DEF TypeInv, TypeOK, NoResolving
  <1>2. appeals[resolving[m].appeal] \in AppealType
    BY <1>1 DEF TypeInv, TypeOK
  <1>3. QED  BY <1>1, <1>2 DEF TargetOf, AppealType

\* Nothing is forgotten: neither an appeal, nor a verdict, nor that content was
\* shown.
Grows ==
    /\ DOMAIN appeals \subseteq DOMAIN appeals'
    /\ \A a \in DOMAIN appeals : appeals'[a].target = appeals[a].target
    /\ \A t \in Content : rulings[t] \subseteq rulings'[t]
    /\ shown \subseteq shown'

\* The step of a resolve request.
LEMMA GotoEffect ==
    ASSUME TypeInv, NEW m \in Moderators, NEW s \in ResolveStep \ {"idle"},
           resolving[m].step # "idle",
           resolving' = [resolving EXCEPT ![m].step = s]
    PROVE  /\ resolving'[m].step = s
           /\ resolving'[m].appeal = resolving[m].appeal
           /\ resolving'[m].resolution = resolving[m].resolution
           /\ resolving'[m] \in [step : ResolveStep \ {"idle"},
                                 appeal : DOMAIN appeals, resolution : Resolution]
           /\ resolving'[m] \in [step : ResolveStep, appeal : Nat,
                                 resolution : Resolution \union {None}]
           /\ \A n \in Moderators \ {m} : resolving'[n] = resolving[n]
           /\ resolving' \in [Moderators -> [step : ResolveStep, appeal : Nat,
                                resolution : Resolution \union {None}]]
  <1>1. resolving[m] \in [step : ResolveStep \ {"idle"},
                          appeal : DOMAIN appeals, resolution : Resolution]
    BY DEF TypeInv, TypeOK, NoResolving
  <1>2. resolving[m] \in [step : ResolveStep, appeal : Nat,
                          resolution : Resolution \union {None}]
    BY DEF TypeInv
  <1>3. resolving' = [resolving EXCEPT ![m] = [resolving[m] EXCEPT !.step = s]]
    OBVIOUS
  <1>4. /\ resolving'[m] = [resolving[m] EXCEPT !.step = s]
        /\ \A n \in Moderators \ {m} : resolving'[n] = resolving[n]
    BY <1>3 DEF TypeInv
  <1>5. /\ resolving'[m] \in [step : ResolveStep \ {"idle"},
                              appeal : DOMAIN appeals, resolution : Resolution]
        /\ resolving'[m].step = s
        /\ resolving'[m].appeal = resolving[m].appeal
        /\ resolving'[m].resolution = resolving[m].resolution
    BY <1>1, <1>4
  <1>6. resolving'[m] \in [step : ResolveStep, appeal : Nat,
                           resolution : Resolution \union {None}]
    BY <1>2, <1>4
  <1>7. QED  BY <1>3, <1>4, <1>5, <1>6 DEF TypeInv

LEMMA FinishEffect ==
    ASSUME TypeInv, NEW m \in Moderators,
           resolving' = [resolving EXCEPT ![m] = NoResolving]
    PROVE  /\ resolving'[m] = NoResolving /\ resolving'[m].step = "idle"
           /\ \A n \in Moderators \ {m} : resolving'[n] = resolving[n]
           /\ resolving' \in [Moderators -> [step : ResolveStep, appeal : Nat,
                                resolution : Resolution \union {None}]]
  BY DEF TypeInv, NoResolving, ResolveStep

LEMMA FetchEffect ==
    ASSUME TypeInv, NEW m \in Moderators, NEW a \in DOMAIN appeals,
           NEW r \in Resolution, Fetch(m, a, r)
    PROVE  /\ resolving'[m].step = "audit"
           /\ resolving'[m] \in [step : ResolveStep \ {"idle"},
                                 appeal : DOMAIN appeals, resolution : Resolution]
           /\ \A n \in Moderators \ {m} : resolving'[n] = resolving[n]
           /\ resolving' \in [Moderators -> [step : ResolveStep, appeal : Nat,
                                resolution : Resolution \union {None}]]
  <1> DEFINE f == [step |-> "audit", appeal |-> a, resolution |-> r]
  <1>1. a \in Nat
    BY DEF TypeInv, TypeOK
  <1>2. /\ f.step = "audit"
        /\ f \in [step : ResolveStep \ {"idle"}, appeal : DOMAIN appeals,
                  resolution : Resolution]
        /\ f \in [step : ResolveStep, appeal : Nat,
                  resolution : Resolution \union {None}]
    BY <1>1 DEF ResolveStep
  <1>3. resolving' = [resolving EXCEPT ![m] = f]
    BY DEF Fetch
  <1> HIDE DEF f
  <1>4. QED  BY <1>2, <1>3 DEF TypeInv

-------------------------------------------------------------------------------
(***************************************************************************)
(* Types, and what only grows.                                             *)
(***************************************************************************)

LEMMA InitTypes == Init => TypeInv
  <1> SUFFICES ASSUME Init PROVE TypeInv
    OBVIOUS
  <1>1. status \in [Content -> ContentStatus \union {"absent"}]
            /\ rulings \in [Content -> SUBSET Verdict]
    BY DEF Init, Pipeline!Init
  <1>2. /\ resolving = [m \in Moderators |-> NoResolving]
        /\ resolving \in [Moderators -> [step : ResolveStep, appeal : Nat,
                             resolution : Resolution \union {None}]]
        /\ \A m \in Moderators : resolving[m] = NoResolving
    BY DEF Init, NoResolving, ResolveStep
  <1>3. \A m \in Moderators : resolving[m].step = "idle"
    BY <1>2 DEF NoResolving
  <1>4. appeals \in Seq(AppealType)
    BY DEF Init
  <1>5. overturns \in [Content -> 0 .. MaxOverturns] /\ credits \in [Content -> Nat]
    BY AppealsAssumption DEF Init
  <1>6. QED  BY <1>1, <1>2, <1>3, <1>4, <1>5 DEF Init, TypeInv, TypeOK

\* The part of the types a resolve request can disturb.
LEMMA RequestTypes ==
    ASSUME TypeInv, NEW m \in Moderators,
           DOMAIN appeals \subseteq DOMAIN appeals',
           \A n \in Moderators \ {m} : resolving'[n] = resolving[n],
           \/ resolving'[m] = NoResolving
           \/ resolving'[m] \in [step : ResolveStep \ {"idle"},
                                 appeal : DOMAIN appeals, resolution : Resolution],
           resolving'[m].step \in {"check", "write", "credit"} =>
              resolving'[m].resolution = "upheld"
    PROVE  \A n \in Moderators :
              /\ \/ resolving'[n] = NoResolving
                 \/ resolving'[n] \in [step : ResolveStep \ {"idle"},
                                       appeal : DOMAIN appeals',
                                       resolution : Resolution]
              /\ resolving'[n].step \in {"check", "write", "credit"} =>
                    resolving'[n].resolution = "upheld"
  <1>1. [step : ResolveStep \ {"idle"}, appeal : DOMAIN appeals,
         resolution : Resolution] \subseteq
           [step : ResolveStep \ {"idle"}, appeal : DOMAIN appeals',
            resolution : Resolution]
    OBVIOUS
  <1>2. \A n \in Moderators :
            /\ \/ resolving[n] = NoResolving
               \/ resolving[n] \in [step : ResolveStep \ {"idle"},
                                    appeal : DOMAIN appeals, resolution : Resolution]
            /\ resolving[n].step \in {"check", "write", "credit"} =>
                  resolving[n].resolution = "upheld"
    BY DEF TypeInv, TypeOK
  <1>3. QED  BY <1>1, <1>2

LEMMA SubmitTypes ==
    ASSUME TypeInv, NEW tab \in Tabs, FilingStepOf(tab)
    PROVE  TypeInv' /\ Grows
  <1>1. CASE \E t \in Content : SubmitCheck(tab, t)
    BY <1>1 DEF SubmitCheck, contentVars, creditVars, TypeInv, TypeOK, Grows
  <1>2. CASE SubmitFails(tab)
    BY <1>2 DEF SubmitFails, contentVars, creditVars, TypeInv, TypeOK, Grows
  <1>3. CASE SubmitInsert(tab)
    <2>1. UNCHANGED <<gateOff, status, rulings, shown, overturns, offered,
                      resolving, creditVars, notices>>
      BY <1>3 DEF SubmitInsert, contentVars, creditVars
    <2>2. filing' \in [Tabs -> Content \union {None}]
      BY <1>3 DEF SubmitInsert, TypeInv, TypeOK
    <2>3. appeals' \in Seq(AppealType) /\ DOMAIN appeals \subseteq DOMAIN appeals'
      BY <1>3, InsertEffect
    <2>4. \A m \in Moderators :
              \/ resolving[m] = NoResolving
              \/ resolving[m] \in [step : ResolveStep \ {"idle"},
                                   appeal : DOMAIN appeals', resolution : Resolution]
      <3>1. \A m \in Moderators :
                \/ resolving[m] = NoResolving
                \/ resolving[m] \in [step : ResolveStep \ {"idle"},
                                     appeal : DOMAIN appeals, resolution : Resolution]
        BY DEF TypeInv, TypeOK
      <3>2. QED  BY <2>3, <3>1
    <2>5. /\ credited \subseteq DOMAIN appeals'
          /\ notices \subseteq (DOMAIN appeals') \X Resolution
      BY <2>3 DEF TypeInv, TypeOK
    <2>6. Grows
      BY <1>3, <2>1, InsertEffect DEF Grows
    <2>7. QED  BY <2>1, <2>2, <2>3, <2>4, <2>5, <2>6 DEF creditVars, TypeInv, TypeOK
  <1>4. QED  BY <1>1, <1>2, <1>3 DEF FilingStepOf

\* The types of the requests to resolve, for one of them after a step.
ResolvingTypes ==
    /\ resolving \in [Moderators -> [step : ResolveStep, appeal : Nat,
                                     resolution : Resolution \union {None}]]
    /\ \A n \in Moderators :
          /\ \/ resolving[n] = NoResolving
             \/ resolving[n] \in [step : ResolveStep \ {"idle"},
                                  appeal : DOMAIN appeals, resolution : Resolution]
          /\ resolving[n].step \in {"check", "write", "credit"} =>
                resolving[n].resolution = "upheld"

LEMMA GotoTypes ==
    ASSUME TypeInv, NEW m \in Moderators, NEW s \in ResolveStep \ {"idle"},
           resolving[m].step # "idle",
           resolving' = [resolving EXCEPT ![m].step = s],
           DOMAIN appeals \subseteq DOMAIN appeals',
           s \in {"check", "write", "credit"} => resolving[m].resolution = "upheld"
    PROVE  ResolvingTypes'
  <1>1. /\ resolving'[m] \in [step : ResolveStep \ {"idle"},
                              appeal : DOMAIN appeals, resolution : Resolution]
        /\ resolving'[m].step = s
        /\ resolving'[m].resolution = resolving[m].resolution
        /\ \A n \in Moderators \ {m} : resolving'[n] = resolving[n]
        /\ resolving' \in [Moderators -> [step : ResolveStep, appeal : Nat,
                             resolution : Resolution \union {None}]]
    BY GotoEffect
  <1>2. resolving'[m].step \in {"check", "write", "credit"} =>
           resolving'[m].resolution = "upheld"
    BY <1>1
  <1>3. QED  BY <1>1, <1>2, RequestTypes DEF ResolvingTypes

LEMMA FinishTypes ==
    ASSUME TypeInv, NEW m \in Moderators,
           resolving' = [resolving EXCEPT ![m] = NoResolving],
           DOMAIN appeals \subseteq DOMAIN appeals'
    PROVE  ResolvingTypes'
  <1>1. /\ resolving'[m] = NoResolving /\ resolving'[m].step = "idle"
        /\ \A n \in Moderators \ {m} : resolving'[n] = resolving[n]
        /\ resolving' \in [Moderators -> [step : ResolveStep, appeal : Nat,
                             resolution : Resolution \union {None}]]
    BY FinishEffect
  <1>2. QED  BY <1>1, RequestTypes DEF ResolvingTypes

LEMMA ResolveTypes ==
    ASSUME TypeInv, NEW m \in Moderators, ResolveStepOf(m)
    PROVE  TypeInv' /\ Grows
  <1> USE DEF contentVars, creditVars
  <1>1. CASE \E a \in DOMAIN appeals, r \in Resolution : Fetch(m, a, r)
    <2>1. PICK a \in DOMAIN appeals, r \in Resolution : Fetch(m, a, r)
      BY <1>1
    <2>2. UNCHANGED <<contentVars, appeals, offered, filing, creditVars, notices>>
      BY <2>1 DEF Fetch
    <2>3. ResolvingTypes'
      BY <2>1, <2>2, FetchEffect, RequestTypes DEF ResolvingTypes
    <2>4. QED  BY <2>2, <2>3 DEF ResolvingTypes, TypeInv, TypeOK, Grows
  <1>2. CASE Audit(m)
    <2> DEFINE v == IF resolving[m].resolution = "upheld"
                    THEN "human_publish" ELSE "human_reject"
               s == IF resolving[m].resolution = "upheld" THEN "check" ELSE "mark"
    <2>1. /\ resolving[m].step = "audit"
          /\ rulings' = [rulings EXCEPT ![TargetOf(m)] = @ \union {v}]
          /\ resolving' = [resolving EXCEPT ![m].step = s]
          /\ UNCHANGED <<gateOff, status, shown, overturns, appeals,
                         offered, filing, creditVars, notices>>
      BY <1>2 DEF Audit
    <2>2. v \in Verdict /\ s \in {"check", "mark"}
            /\ (s = "check" => resolving[m].resolution = "upheld")
      BY DEF Verdict, HumanVerdict
    <2> HIDE DEF v, s
    <2>3. /\ rulings' \in [Content -> SUBSET Verdict]
          /\ \A t \in Content : rulings[t] \subseteq rulings'[t]
      BY <2>1, <2>2 DEF TypeInv, TypeOK
    <2>4. s \in ResolveStep \ {"idle"}
      BY <2>2 DEF ResolveStep
    <2>5. ResolvingTypes'
      BY <2>1, <2>2, <2>4, GotoTypes
    <2>6. QED
      BY <2>1, <2>3, <2>5 DEF ResolvingTypes, TypeInv, TypeOK, Grows
  <1>3. CASE PublishCheck(m) \/ PublishWrite(m)
    <2>1. PICK s \in {"write", "credit"} :
              /\ resolving' = [resolving EXCEPT ![m].step = s]
              /\ resolving[m].step \in {"check", "write"}
      BY <1>3 DEF PublishCheck, PublishWrite
    <2>2. s \in ResolveStep \ {"idle"}
      BY DEF ResolveStep
    <2>3. resolving[m].resolution = "upheld"
      BY <2>1 DEF TypeInv, TypeOK
    <2>4. /\ UNCHANGED <<gateOff, rulings, overturns, appeals, offered, filing,
                         creditVars, notices>>
          /\ status' \in [Content -> ContentStatus \union {"absent"}]
          /\ shown' \subseteq Content /\ shown \subseteq shown'
      BY <1>3, <2>1, ResolvingFields
         DEF PublishCheck, PublishWrite, TypeInv, TypeOK, ContentStatus
    <2>5. ResolvingTypes'
      BY <2>1, <2>2, <2>3, <2>4, GotoTypes
    <2>6. QED
      BY <2>4, <2>5 DEF ResolvingTypes, TypeInv, TypeOK, Grows
  <1>4. CASE Credit(m)
    <2>1. /\ resolving' = [resolving EXCEPT ![m].step = "mark"]
          /\ resolving[m].step = "credit"
          /\ credits' = [credits EXCEPT ![TargetOf(m)] = @ + 1]
          /\ credited' = credited \union {resolving[m].appeal}
          /\ UNCHANGED <<contentVars, appeals, offered, filing, notices>>
      BY <1>4 DEF Credit
    <2>2. "mark" \in ResolveStep \ {"idle"}
      BY DEF ResolveStep
    <2>3. credits' \in [Content -> Nat] /\ credited' \subseteq DOMAIN appeals
      BY <2>1, ResolvingFields DEF TypeInv, TypeOK
    <2>4. /\ UNCHANGED <<contentVars, appeals, offered, filing, notices>>
          /\ DOMAIN appeals' = DOMAIN appeals
      BY <2>1
    <2>5. ResolvingTypes'
      BY <2>1, <2>2, <2>4, GotoTypes
    <2>6. QED
      BY <2>3, <2>4, <2>5 DEF ResolvingTypes, TypeInv, TypeOK, Grows
  <1>5. CASE Mark(m)
    <2>1. /\ resolving' = [resolving EXCEPT ![m].step = "notify"]
          /\ resolving[m].step = "mark"
          /\ UNCHANGED <<contentVars, offered, filing, creditVars, notices>>
      BY <1>5 DEF Mark
    <2>2. "notify" \in ResolveStep \ {"idle"}
      BY DEF ResolveStep
    <2>3. /\ appeals' \in Seq(AppealType)
          /\ DOMAIN appeals' = DOMAIN appeals
          /\ \A a \in DOMAIN appeals : appeals'[a].target = appeals[a].target
      BY <1>5, MarkEffect
    <2>4. ResolvingTypes'
      BY <2>1, <2>2, <2>3, GotoTypes
    <2>5. QED
      BY <2>1, <2>3, <2>4 DEF ResolvingTypes, TypeInv, TypeOK, Grows
  <1>6. CASE Notify(m)
    <2>1. /\ resolving' = [resolving EXCEPT ![m] = NoResolving]
          /\ resolving[m].step = "notify"
          /\ notices' = notices \union
                {<<resolving[m].appeal, resolving[m].resolution>>}
          /\ UNCHANGED <<contentVars, appeals, offered, filing, creditVars>>
      BY <1>6 DEF Notify
    <2>2. notices' \subseteq (DOMAIN appeals) \X Resolution
      BY <2>1, ResolvingFields DEF TypeInv, TypeOK
    <2>3. ResolvingTypes'
      BY <2>1, FinishTypes
    <2>4. QED
      BY <2>1, <2>2, <2>3 DEF ResolvingTypes, TypeInv, TypeOK, Grows
  <1>7. CASE ResolveFails(m)
    <2>1. /\ resolving' = [resolving EXCEPT ![m] = NoResolving]
          /\ UNCHANGED <<contentVars, appeals, offered, filing, creditVars, notices>>
      BY <1>7 DEF ResolveFails
    <2>2. ResolvingTypes'
      BY <2>1, FinishTypes
    <2>3. QED
      BY <2>1, <2>2 DEF ResolvingTypes, TypeInv, TypeOK, Grows
  <1>8. QED
    BY <1>1, <1>2, <1>3, <1>4, <1>5, <1>6, <1>7 DEF ResolveStepOf

LEMMA NextTypes == TypeInv /\ [Next]_vars => TypeInv' /\ Grows
  <1> SUFFICES ASSUME TypeInv, [Next]_vars PROVE TypeInv' /\ Grows
    OBVIOUS
  <1>1. CASE PipelineStep
    <2>1. UNCHANGED <<appeals, offered, filing, resolving, creditVars, notices>>
      BY <1>1 DEF PipelineStep
    <2>2. /\ shown' = shown \union {t \in Content : status'[t] = "published"}
          /\ CountOverturns
      BY <1>1 DEF PipelineStep
    <2>3. /\ shown' \subseteq Content /\ shown \subseteq shown'
          /\ overturns' \in [Content -> 0 .. MaxOverturns]
      BY <2>2 DEF CountOverturns, TypeInv, TypeOK
    <2>4. QED
      BY <1>1, <2>1, <2>3, PipelineEffect DEF creditVars, TypeInv, TypeOK, Grows
  <1>2. CASE \E t \in Content : OfferForm(t)
    BY <1>2 DEF OfferForm, contentVars, creditVars, TypeInv, TypeOK, Grows
  <1>3. CASE \E tab \in Tabs : FilingStepOf(tab)
    BY <1>3, SubmitTypes
  <1>4. CASE \E m \in Moderators : ResolveStepOf(m)
    BY <1>4, ResolveTypes
  <1>5. CASE UNCHANGED vars
    BY <1>5 DEF vars, contentVars, creditVars, TypeInv, TypeOK, Grows
  <1>6. QED  BY <1>1, <1>2, <1>3, <1>4, <1>5 DEF Next

-------------------------------------------------------------------------------
(***************************************************************************)
(* The invariant.                                                          *)
(***************************************************************************)

\* What the other requests know is not lost.
LEMMA OthersKeep ==
    ASSUME IInv, Grows, NEW n \in Moderators, resolving'[n] = resolving[n]
    PROVE  RequestInv(n)'
  <1>1. CASE resolving[n].step = "idle"
    BY <1>1 DEF RequestInv, Upholding, Published
  <1>2. CASE resolving[n].step # "idle"
    <2>1. resolving[n].appeal \in DOMAIN appeals /\ TargetOf(n) \in Content
      BY <1>2, ResolvingFields DEF IInv
    <2>2. TargetOf(n)' = TargetOf(n)
      BY <2>1 DEF TargetOf, Grows
    <2>3. RequestInv(n)
      BY DEF IInv
    <2>4. QED
      BY <2>1, <2>2, <2>3 DEF RequestInv, Upholding, Published, Grows
  <1>3. QED  BY <1>1, <1>2

\* What has been promised is kept, if what is new is.
LEMMA ClaimsKeep ==
    ASSUME IInv, Grows,
           \A a \in DOMAIN appeals' :
              Claimed(a)' => a \in DOMAIN appeals /\ (Claimed(a) \/ Kept(a))
    PROVE  ClaimInv'
  <1>1. \A a \in DOMAIN appeals : appeals[a].target \in Content
    <2>1. \A a \in DOMAIN appeals : appeals[a] \in AppealType
      BY DEF IInv, TypeInv, TypeOK
    <2>2. QED  BY <2>1 DEF AppealType
  <1>2. ASSUME NEW a \in DOMAIN appeals', Claimed(a)' PROVE Kept(a)'
    <2>1. a \in DOMAIN appeals /\ (Claimed(a) \/ Kept(a))
      BY <1>2
    <2>2. Kept(a)
      BY <2>1 DEF IInv, ClaimInv
    <2>3. QED  BY <1>1, <2>1, <2>2 DEF Kept, Grows
  <1>3. QED  BY <1>2 DEF ClaimInv

LEMMA InitIInv == Init => IInv
  <1> SUFFICES ASSUME Init PROVE IInv
    OBVIOUS
  <1>1. TypeInv
    BY InitTypes
  <1>2. \A m \in Moderators : RequestInv(m)
    BY DEF Init, NoResolving, RequestInv, Upholding, Published
  <1>3. CreditInv /\ ClaimInv
    BY DEF Init, CreditInv, ClaimInv
  <1>4. StatusIsRuled
    BY DEF Init, Pipeline!Init, StatusIsRuled
  <1>5. DuplicatesBounded
    <2>1. \A t \in Content : OpenAppeals(t) = {}
      BY DEF Init, OpenAppeals
    <2>2. \A t \in Content : {tab \in Tabs : filing[tab] = t} = {}
      BY AppealsAssumption DEF Init
    <2>3. Cardinality(Tabs) \in Nat /\ Cardinality({}) = 0
      BY AppealsAssumption, FS_CardinalityType, FS_EmptySet
    <2>4. QED  BY <2>1, <2>2, <2>3 DEF DuplicatesBounded
  <1>6. QED  BY <1>1, <1>2, <1>3, <1>4, <1>5 DEF IInv

LEMMA PipelineInv ==
    ASSUME IInv, Grows, PipelineStep
    PROVE  /\ \A m \in Moderators : RequestInv(m)'
           /\ ClaimInv' /\ StatusIsRuled'
  <1>1. /\ UNCHANGED <<appeals, resolving, creditVars, notices>>
        /\ shown' = shown \union {t \in Content : status'[t] = "published"}
    BY DEF PipelineStep
  <1>2. \A m \in Moderators : RequestInv(m)'
    BY <1>1, OthersKeep
  <1>3. \A a \in DOMAIN appeals' :
            Claimed(a)' => a \in DOMAIN appeals /\ Claimed(a)
    BY <1>1 DEF creditVars, Claimed
  <1>4. ClaimInv'
    BY <1>3, ClaimsKeep
  <1>5. StatusIsRuled'
    BY PipelineEffect DEF IInv, StatusIsRuled
  <1>6. QED  BY <1>2, <1>4, <1>5

LEMMA SubmitInv ==
    ASSUME IInv, Grows,
           \/ \E t \in Content : OfferForm(t)
           \/ \E tab \in Tabs : FilingStepOf(tab)
    PROVE  /\ \A m \in Moderators : RequestInv(m)'
           /\ ClaimInv' /\ StatusIsRuled'
  <1>1. UNCHANGED <<contentVars, resolving, creditVars, notices>>
    BY DEF OfferForm, FilingStepOf, SubmitCheck, SubmitInsert, SubmitFails
  <1>2. \A m \in Moderators : RequestInv(m)'
    BY <1>1, OthersKeep
  <1>3. StatusIsRuled'
    BY <1>1 DEF IInv, StatusIsRuled, contentVars
  <1>4. \A a \in DOMAIN appeals' :
            Claimed(a)' => a \in DOMAIN appeals /\ Claimed(a)
    <2>1. CASE appeals' = appeals
      BY <1>1, <2>1 DEF creditVars, Claimed
    <2>2. ASSUME NEW tab \in Tabs, SubmitInsert(tab)
          PROVE  \A a \in DOMAIN appeals' :
                    Claimed(a)' => a \in DOMAIN appeals /\ Claimed(a)
      <3>1. /\ DOMAIN appeals = 1 .. Len(appeals)
            /\ DOMAIN appeals' = 1 .. Len(appeals) + 1
            /\ Len(appeals) \in Nat
            /\ \A a \in DOMAIN appeals : appeals'[a] = appeals[a]
            /\ appeals'[Len(appeals) + 1].resolution = None
        BY <2>2, InsertEffect DEF IInv
      <3>2. /\ notices \subseteq (DOMAIN appeals) \X Resolution
            /\ credited \subseteq DOMAIN appeals
        BY DEF IInv, TypeInv, TypeOK
      <3>3. ASSUME NEW a \in DOMAIN appeals', a \notin DOMAIN appeals
            PROVE  ~Claimed(a)'
        <4>1. appeals'[a].resolution = None
          BY <3>1, <3>3
        <4>2. QED  BY <1>1, <3>2, <3>3, <4>1 DEF creditVars, Claimed, None
      <3>4. QED  BY <1>1, <3>1, <3>3 DEF creditVars, Claimed
    <2>3. QED
      BY <2>1, <2>2 DEF OfferForm, FilingStepOf, SubmitCheck, SubmitFails
  <1>5. QED  BY <1>2, <1>3, <1>4, ClaimsKeep

\* A resolve request audits, publishes, credits, closes the appeal and tells.
LEMMA ResolveInv ==
    ASSUME IInv, Grows, NEW m \in Moderators, ResolveStepOf(m)
    PROVE  /\ \A n \in Moderators : RequestInv(n)'
           /\ ClaimInv' /\ StatusIsRuled'
  <1> USE DEF contentVars, creditVars
  <1>1. TypeInv /\ RequestInv(m) /\ ClaimInv /\ StatusIsRuled
    BY DEF IInv
  <1>2. ASSUME NEW n \in Moderators \ {m} PROVE RequestInv(n)'
    <2>1. resolving'[n] = resolving[n]
      BY <1>1
         DEF ResolveStepOf, Fetch, Audit, PublishCheck, PublishWrite, Credit, Mark,
             Notify, ResolveFails, TypeInv
    <2>2. QED  BY <2>1, OthersKeep
  <1>3. ASSUME resolving[m].step # "idle"
        PROVE  /\ resolving[m].appeal \in DOMAIN appeals
               /\ resolving[m].resolution \in Resolution
               /\ TargetOf(m) \in Content
               /\ appeals[resolving[m].appeal].target = TargetOf(m)
    BY <1>1, <1>3, ResolvingFields DEF TargetOf
  <1>4. ASSUME UNCHANGED <<appeals, creditVars, notices>> PROVE ClaimInv'
    <2>1. \A a \in DOMAIN appeals' :
              Claimed(a)' => a \in DOMAIN appeals /\ (Claimed(a) \/ Kept(a))
      BY <1>4 DEF Claimed
    <2>2. QED  BY <2>1, ClaimsKeep
  <1>5. ASSUME UNCHANGED status PROVE StatusIsRuled'
    BY <1>1, <1>5 DEF StatusIsRuled, Grows
  <1>6. CASE \/ \E a \in DOMAIN appeals, r \in Resolution : Fetch(m, a, r)
             \/ ResolveFails(m)
    <2>1. resolving'[m].step \in {"idle", "audit"}
      BY <1>1, <1>6, FetchEffect, FinishEffect DEF ResolveFails
    <2>2. RequestInv(m)'
      BY <2>1 DEF RequestInv, Upholding, Published
    <2>3. UNCHANGED <<contentVars, appeals, creditVars, notices>>
      BY <1>6 DEF Fetch, ResolveFails
    <2>4. QED  BY <1>2, <1>4, <1>5, <2>2, <2>3
  <1>7. CASE Audit(m)
    <2> DEFINE v == IF resolving[m].resolution = "upheld"
                    THEN "human_publish" ELSE "human_reject"
               s == IF resolving[m].resolution = "upheld" THEN "check" ELSE "mark"
    <2>1. /\ resolving[m].step = "audit"
          /\ rulings' = [rulings EXCEPT ![TargetOf(m)] = @ \union {v}]
          /\ resolving' = [resolving EXCEPT ![m].step = s]
          /\ UNCHANGED <<gateOff, status, shown, overturns, appeals,
                         offered, filing, creditVars, notices>>
      BY <1>7 DEF Audit
    <2>2. /\ s \in {"check", "mark"}
          /\ s = "check" => v = "human_publish"
          /\ s = "mark" => resolving[m].resolution # "upheld"
      OBVIOUS
    <2> HIDE DEF v, s
    <2>3. s \in ResolveStep \ {"idle"}
      BY <2>2 DEF ResolveStep
    <2>4. /\ resolving'[m].step = s
          /\ resolving'[m].appeal = resolving[m].appeal
          /\ resolving'[m].resolution = resolving[m].resolution
      BY <1>1, <2>1, <2>3, GotoEffect
    <2>5. v \in rulings'[TargetOf(m)]
      BY <1>1, <1>3, <2>1 DEF TypeInv, TypeOK
    <2>6. TargetOf(m)' = TargetOf(m)
      BY <2>1, <2>4 DEF TargetOf
    <2>7. RequestInv(m)'
      BY <2>2, <2>4, <2>5, <2>6 DEF RequestInv, Upholding, Published
    <2>8. QED  BY <1>2, <1>4, <1>5, <2>1, <2>7
  <1>8. CASE PublishCheck(m)
    <2>1. /\ resolving[m].step = "check"
          /\ "published" \in Allowed(KindOf[TargetOf(m)], status[TargetOf(m)])
          /\ resolving' = [resolving EXCEPT ![m].step = "write"]
          /\ UNCHANGED <<contentVars, appeals, offered, filing, creditVars, notices>>
      BY <1>8 DEF PublishCheck
    <2>2. "write" \in ResolveStep \ {"idle"}
      BY DEF ResolveStep
    <2>3. /\ resolving'[m].step = "write"
          /\ resolving'[m].appeal = resolving[m].appeal
      BY <1>1, <2>1, <2>2, GotoEffect
    <2>4. TargetOf(m)' = TargetOf(m)
      BY <2>1, <2>3 DEF TargetOf
    <2>5. RequestInv(m)'
      BY <1>1, <2>1, <2>3, <2>4 DEF RequestInv, Upholding, Published
    <2>6. QED  BY <1>2, <1>4, <1>5, <2>1, <2>5
  <1>9. CASE PublishWrite(m)
    <2>1. /\ resolving[m].step = "write"
          /\ status' = [status EXCEPT ![TargetOf(m)] = "published"]
          /\ shown' = shown \union {TargetOf(m)}
          /\ resolving' = [resolving EXCEPT ![m].step = "credit"]
          /\ UNCHANGED <<gateOff, rulings, overturns, appeals, offered, filing,
                         creditVars, notices>>
      BY <1>9 DEF PublishWrite
    <2>2. "credit" \in ResolveStep \ {"idle"}
      BY DEF ResolveStep
    <2>3. /\ resolving'[m].step = "credit"
          /\ resolving'[m].appeal = resolving[m].appeal
      BY <1>1, <2>1, <2>2, GotoEffect
    <2>4. TargetOf(m)' = TargetOf(m)
      BY <2>1, <2>3 DEF TargetOf
    <2>5. RequestInv(m)'
      BY <1>1, <2>1, <2>3, <2>4 DEF RequestInv, Upholding, Published
    <2>6. "human_publish" \in rulings[TargetOf(m)]
      BY <1>1, <2>1 DEF RequestInv, Upholding
    <2>7. status \in [Content -> ContentStatus \union {"absent"}]
              /\ shown \subseteq Content
      BY <1>1 DEF TypeInv, TypeOK
    <2>8. StatusIsRuled'
      BY <1>1, <2>1, <2>6, <2>7, VerdictStatus DEF StatusIsRuled
    <2>9. QED  BY <1>2, <1>4, <2>1, <2>5, <2>8
  <1>10. CASE Credit(m)
    <2>1. /\ resolving[m].step = "credit"
          /\ credits' = [credits EXCEPT ![TargetOf(m)] = @ + 1]
          /\ credited' = credited \union {resolving[m].appeal}
          /\ resolving' = [resolving EXCEPT ![m].step = "mark"]
          /\ UNCHANGED <<contentVars, appeals, offered, filing, notices>>
      BY <1>10 DEF Credit
    <2>2. "mark" \in ResolveStep \ {"idle"}
      BY DEF ResolveStep
    <2>3. /\ resolving'[m].step = "mark"
          /\ resolving'[m].appeal = resolving[m].appeal
          /\ resolving'[m].resolution = resolving[m].resolution
      BY <1>1, <2>1, <2>2, GotoEffect
    <2>4. TargetOf(m)' = TargetOf(m)
      BY <2>1, <2>3 DEF TargetOf
    <2>5. TargetOf(m) \in shown /\ "human_publish" \in rulings[TargetOf(m)]
      BY <1>1, <2>1 DEF RequestInv, Upholding, Published
    <2>6. RequestInv(m)'
      BY <2>1, <2>3, <2>4, <2>5 DEF RequestInv, Upholding, Published
    <2>7. \A a \in DOMAIN appeals' :
              Claimed(a)' => a \in DOMAIN appeals /\ (Claimed(a) \/ Kept(a))
      <3>1. Kept(resolving[m].appeal)
        BY <1>3, <2>1, <2>5 DEF Kept
      <3>2. QED  BY <2>1, <3>1 DEF Claimed
    <2>8. QED  BY <1>2, <1>5, <2>1, <2>6, <2>7, ClaimsKeep
  <1>11. CASE Mark(m)
    <2>1. /\ resolving[m].step = "mark"
          /\ resolving' = [resolving EXCEPT ![m].step = "notify"]
          /\ UNCHANGED <<contentVars, offered, filing, creditVars, notices>>
      BY <1>11 DEF Mark
    <2>2. "notify" \in ResolveStep \ {"idle"}
      BY DEF ResolveStep
    <2>3. /\ resolving'[m].step = "notify"
          /\ resolving'[m].appeal = resolving[m].appeal
          /\ resolving'[m].resolution = resolving[m].resolution
      BY <1>1, <2>1, <2>2, GotoEffect
    <2>4. /\ DOMAIN appeals' = DOMAIN appeals
          /\ \A a \in DOMAIN appeals :
                /\ appeals'[a].target = appeals[a].target
                /\ appeals'[a].resolution =
                      IF a = resolving[m].appeal THEN resolving[m].resolution
                      ELSE appeals[a].resolution
      BY <1>1, <1>11, MarkEffect
    <2>5. TargetOf(m)' = TargetOf(m)
      BY <1>3, <2>1, <2>3, <2>4 DEF TargetOf
    <2>6. RequestInv(m)'
      BY <1>1, <2>1, <2>3, <2>5 DEF RequestInv, Upholding, Published
    <2>7. ASSUME resolving[m].resolution = "upheld" PROVE Kept(resolving[m].appeal)
      BY <1>1, <1>3, <2>1, <2>7 DEF RequestInv, Upholding, Published, Kept
    <2>8. \A a \in DOMAIN appeals' :
              Claimed(a)' => a \in DOMAIN appeals /\ (Claimed(a) \/ Kept(a))
      BY <2>1, <2>4, <2>7 DEF Claimed
    <2>9. QED  BY <1>2, <1>5, <2>1, <2>6, <2>8, ClaimsKeep
  <1>12. CASE Notify(m)
    <2>1. /\ resolving[m].step = "notify"
          /\ notices' = notices \union
                {<<resolving[m].appeal, resolving[m].resolution>>}
          /\ resolving' = [resolving EXCEPT ![m] = NoResolving]
          /\ UNCHANGED <<contentVars, appeals, offered, filing, creditVars>>
      BY <1>12 DEF Notify
    <2>2. resolving'[m].step = "idle"
      BY <1>1, <2>1, FinishEffect
    <2>3. RequestInv(m)'
      BY <2>2 DEF RequestInv, Upholding, Published
    <2>4. ASSUME resolving[m].resolution = "upheld" PROVE Kept(resolving[m].appeal)
      BY <1>1, <1>3, <2>1, <2>4 DEF RequestInv, Upholding, Published, Kept
    <2>5. \A a \in DOMAIN appeals' :
              Claimed(a)' => a \in DOMAIN appeals /\ (Claimed(a) \/ Kept(a))
      BY <2>1, <2>4 DEF Claimed
    <2>6. QED  BY <1>2, <1>5, <2>1, <2>3, <2>5, ClaimsKeep
  <1>13. QED
    BY <1>6, <1>7, <1>8, <1>9, <1>10, <1>11, <1>12 DEF ResolveStepOf

-------------------------------------------------------------------------------
(***************************************************************************)
(* Counting the open appeals.                                              *)
(***************************************************************************)

\* The tabs that are about to insert an appeal for t.
Filing(t) == {tab \in Tabs : filing[tab] = t}

LEMMA Counted ==
    ASSUME TypeInv, NEW t
    PROVE  /\ IsFiniteSet(OpenAppeals(t)) /\ IsFiniteSet(Filing(t))
           /\ Cardinality(OpenAppeals(t)) \in Nat
           /\ Cardinality(Filing(t)) \in Nat
           /\ Cardinality(Filing(t)) <= Cardinality(Tabs)
           /\ Cardinality(Tabs) \in Nat
  <1>1. IsFiniteSet(DOMAIN appeals)
    <2>1. DOMAIN appeals = 1 .. Len(appeals) /\ Len(appeals) \in Nat
      BY DEF TypeInv, TypeOK
    <2>2. QED  BY <2>1, FS_Interval
  <1>2. /\ OpenAppeals(t) \in SUBSET DOMAIN appeals
        /\ Filing(t) \in SUBSET Tabs
    BY DEF OpenAppeals, Filing
  <1>3. IsFiniteSet(OpenAppeals(t))
    BY <1>1, <1>2, FS_Subset
  <1>4. IsFiniteSet(Filing(t)) /\ Cardinality(Filing(t)) <= Cardinality(Tabs)
    BY <1>2, AppealsAssumption, FS_Subset
  <1>5. QED  BY <1>3, <1>4, AppealsAssumption, FS_CardinalityType

\* A step that neither files an appeal nor starts to cannot raise the count.
LEMMA FewerDuplicates ==
    ASSUME TypeInv, TypeInv', DuplicatesBounded, NEW t \in Content,
           OpenAppeals(t)' \subseteq OpenAppeals(t),
           Filing(t)' \subseteq Filing(t)
    PROVE  Cardinality(OpenAppeals(t)') + Cardinality(Filing(t)') <= Cardinality(Tabs)
  <1>1. /\ IsFiniteSet(OpenAppeals(t)) /\ IsFiniteSet(Filing(t))
        /\ Cardinality(OpenAppeals(t)) \in Nat /\ Cardinality(Filing(t)) \in Nat
        /\ Cardinality(Tabs) \in Nat
    BY Counted
  <1>2. /\ IsFiniteSet(OpenAppeals(t)') /\ IsFiniteSet(Filing(t)')
        /\ Cardinality(OpenAppeals(t)') <= Cardinality(OpenAppeals(t))
        /\ Cardinality(Filing(t)') <= Cardinality(Filing(t))
    BY <1>1, FS_Subset
  <1>3. Cardinality(OpenAppeals(t)') \in Nat /\ Cardinality(Filing(t)') \in Nat
    BY <1>2, FS_CardinalityType
  <1>4. Cardinality(OpenAppeals(t)) + Cardinality(Filing(t)) <= Cardinality(Tabs)
    BY DEF DuplicatesBounded, Filing
  <1>5. QED  BY <1>1, <1>2, <1>3, <1>4

LEMMA NextDuplicates ==
    ASSUME TypeInv, TypeInv', DuplicatesBounded, [Next]_vars
    PROVE  DuplicatesBounded'
  <1> SUFFICES ASSUME NEW t \in Content
               PROVE  Cardinality(OpenAppeals(t)') + Cardinality(Filing(t)')
                          <= Cardinality(Tabs)
    BY DEF DuplicatesBounded, Filing
  <1>1. /\ Cardinality(OpenAppeals(t)) \in Nat /\ IsFiniteSet(OpenAppeals(t))
        /\ Cardinality(Filing(t)) \in Nat /\ IsFiniteSet(Filing(t))
        /\ Cardinality(Tabs) \in Nat
        /\ Cardinality(OpenAppeals(t)) + Cardinality(Filing(t)) <= Cardinality(Tabs)
    BY Counted DEF DuplicatesBounded, Filing
  <1>2. CASE UNCHANGED appeals /\ UNCHANGED filing
    <2>1. OpenAppeals(t)' = OpenAppeals(t) /\ Filing(t)' = Filing(t)
      BY <1>2 DEF OpenAppeals, Open, Filing
    <2>2. QED  BY <1>1, <2>1
  <1>3. ASSUME NEW tab \in Tabs, NEW u \in Content, SubmitCheck(tab, u)
        PROVE  Cardinality(OpenAppeals(t)') + Cardinality(Filing(t)')
                   <= Cardinality(Tabs)
    <2>1. /\ filing[tab] = None /\ OpenAppeals(u) = {}
          /\ filing' = [filing EXCEPT ![tab] = u] /\ appeals' = appeals
      BY <1>3 DEF SubmitCheck
    <2>2. OpenAppeals(t)' = OpenAppeals(t)
      BY <2>1 DEF OpenAppeals, Open
    <2>3. CASE t = u
      <3>1. Cardinality(OpenAppeals(t)') = 0
        BY <2>1, <2>2, <2>3, FS_EmptySet
      <3>2. Cardinality(Filing(t)') \in Nat
                /\ Cardinality(Filing(t)') <= Cardinality(Tabs)
        <4>1. Filing(t)' \in SUBSET Tabs
          BY DEF Filing
        <4>2. QED  BY <4>1, AppealsAssumption, FS_Subset, FS_CardinalityType
      <3>3. QED  BY <1>1, <3>1, <3>2
    <2>4. CASE t # u
      <3>1. Filing(t)' \subseteq Filing(t)
        BY <2>1, <2>4 DEF Filing, TypeInv, TypeOK
      <3>2. QED  BY <2>2, <3>1, FewerDuplicates
    <2>5. QED  BY <2>3, <2>4
  <1>4. ASSUME NEW tab \in Tabs, SubmitInsert(tab)
        PROVE  Cardinality(OpenAppeals(t)') + Cardinality(Filing(t)')
                   <= Cardinality(Tabs)
    <2> DEFINE new == Len(appeals) + 1
    <2>1. /\ DOMAIN appeals = 1 .. Len(appeals)
          /\ DOMAIN appeals' = 1 .. Len(appeals) + 1
          /\ Len(appeals) \in Nat
          /\ \A a \in DOMAIN appeals : appeals'[a] = appeals[a]
          /\ appeals'[Len(appeals) + 1].target = filing[tab]
          /\ appeals'[Len(appeals) + 1].resolution = None
      BY <1>4, InsertEffect
    <2>2. /\ filing[tab] # None /\ filing' = [filing EXCEPT ![tab] = None]
          /\ filing \in [Tabs -> Content \union {None}]
      BY <1>4 DEF SubmitInsert, TypeInv, TypeOK
    <2>3. new \notin DOMAIN appeals /\ DOMAIN appeals' = DOMAIN appeals \union {new}
      BY <2>1
    <2>4. CASE filing[tab] = t
      <3>1. OpenAppeals(t)' = OpenAppeals(t) \union {new}
        BY <2>1, <2>3, <2>4 DEF OpenAppeals, Open
      <3>2. Filing(t)' = Filing(t) \ {tab} /\ tab \in Filing(t)
        BY <2>2, <2>4 DEF Filing
      <3>3. Cardinality(OpenAppeals(t)') <= Cardinality(OpenAppeals(t)) + 1
                /\ Cardinality(OpenAppeals(t)') \in Nat
        <4> HIDE DEF new
        <4>1. Cardinality(OpenAppeals(t) \union {new})
                  = IF new \in OpenAppeals(t) THEN Cardinality(OpenAppeals(t))
                    ELSE Cardinality(OpenAppeals(t)) + 1
          BY <1>1, FS_AddElement
        <4>2. QED  BY <1>1, <3>1, <4>1
      <3>4. Cardinality(Filing(t)') = Cardinality(Filing(t)) - 1
        BY <1>1, <3>2, FS_RemoveElement
      <3>5. QED  BY <1>1, <3>3, <3>4
    <2>5. CASE filing[tab] # t
      <3>1. OpenAppeals(t)' \subseteq OpenAppeals(t)
        BY <2>1, <2>3, <2>5 DEF OpenAppeals, Open
      <3>2. Filing(t)' \subseteq Filing(t)
        BY <2>2, AppealsAssumption DEF Filing
      <3>3. QED  BY <3>1, <3>2, FewerDuplicates
    <2>6. QED  BY <2>4, <2>5
  <1>5. ASSUME NEW tab \in Tabs, SubmitFails(tab)
        PROVE  Cardinality(OpenAppeals(t)') + Cardinality(Filing(t)')
                   <= Cardinality(Tabs)
    <2>1. OpenAppeals(t)' \subseteq OpenAppeals(t)
      BY <1>5 DEF SubmitFails, OpenAppeals, Open
    <2>2. Filing(t)' \subseteq Filing(t)
      BY <1>5, AppealsAssumption DEF SubmitFails, Filing, TypeInv, TypeOK
    <2>3. QED  BY <2>1, <2>2, FewerDuplicates
  <1>6. ASSUME NEW m \in Moderators, Mark(m)
        PROVE  Cardinality(OpenAppeals(t)') + Cardinality(Filing(t)')
                   <= Cardinality(Tabs)
    <2>1. /\ DOMAIN appeals' = DOMAIN appeals
          /\ resolving[m].resolution \in Resolution
          /\ \A a \in DOMAIN appeals :
                /\ appeals'[a].target = appeals[a].target
                /\ appeals'[a].resolution =
                      IF a = resolving[m].appeal THEN resolving[m].resolution
                      ELSE appeals[a].resolution
      BY <1>6, MarkEffect
    <2>2. None \notin Resolution
      BY DEF None, Resolution
    <2>3. OpenAppeals(t)' \subseteq OpenAppeals(t)
      BY <2>1, <2>2 DEF OpenAppeals, Open
    <2>4. Filing(t)' \subseteq Filing(t)
      BY <1>6 DEF Mark, Filing
    <2>5. QED  BY <2>3, <2>4, FewerDuplicates
  <1>7. ASSUME NEW m \in Moderators, ResolveStepOf(m), ~Mark(m)
        PROVE  UNCHANGED appeals /\ UNCHANGED filing
    BY <1>7
       DEF ResolveStepOf, Fetch, Audit, PublishCheck, PublishWrite, Credit, Notify,
           ResolveFails
  <1>8. CASE PipelineStep \/ \E u \in Content : OfferForm(u)
    BY <1>2, <1>8 DEF PipelineStep, OfferForm
  <1>9. CASE UNCHANGED vars
    BY <1>2, <1>9 DEF vars
  <1>10. QED
    BY <1>2, <1>3, <1>4, <1>5, <1>6, <1>7, <1>8, <1>9 DEF Next, FilingStepOf

-------------------------------------------------------------------------------
(***************************************************************************)
(* Counting the credits.                                                   *)
(***************************************************************************)

LEMMA RequestCounts ==
    ASSUME NEW t
    PROVE  /\ IsFiniteSet(Writing(t)) /\ IsFiniteSet(Crediting(t))
           /\ Cardinality(Writing(t)) \in Nat /\ Cardinality(Crediting(t)) \in Nat
           /\ Cardinality(Writing(t)) <= Cardinality(Moderators)
           /\ Cardinality(Moderators) \in Nat
           /\ Outstanding(t) \in Nat /\ Outstanding(t) <= Cardinality(Moderators)
  <1>1. /\ Writing(t) \in SUBSET Moderators /\ Crediting(t) \in SUBSET Moderators
        /\ IsFiniteSet(Moderators)
    BY AppealsAssumption DEF Writing, Crediting
  <1>2. /\ IsFiniteSet(Writing(t)) /\ Cardinality(Writing(t)) <= Cardinality(Moderators)
        /\ IsFiniteSet(Crediting(t))
    BY <1>1, FS_Subset
  <1>3. /\ Cardinality(Writing(t)) \in Nat /\ Cardinality(Crediting(t)) \in Nat
        /\ Cardinality(Moderators) \in Nat
    BY <1>1, <1>2, FS_CardinalityType
  <1>4. QED  BY <1>2, <1>3 DEF Outstanding

\* One more overturning makes room for one more credit of every request.
LEMMA RoomGrows ==
    ASSUME NEW k \in Nat, NEW n \in Nat
    PROVE  /\ k * (1 + n) \in Nat
           /\ k <= k * (1 + n)
           /\ k * (1 + (n + 1)) = k * (1 + n) + k
  <1>1. k * n \in Nat /\ 0 <= k * n
    OBVIOUS
  <1>2. k * (1 + n) = k + k * n
    OBVIOUS
  <1>3. k * (1 + (n + 1)) = k + k * n + k
    OBVIOUS
  <1>4. QED  BY <1>1, <1>2, <1>3

\* What is credited is within the bound, whatever is still outstanding.
LEMMA CreditsWithinBound == TypeInv /\ CreditInv => CreditsBounded
  <1> SUFFICES ASSUME TypeInv, CreditInv, NEW t \in Content
               PROVE  credits[t] <= Cardinality(Moderators) * (1 + overturns[t])
    BY DEF CreditsBounded
  <1>1. credits[t] \in Nat /\ overturns[t] \in Nat
    BY DEF TypeInv, TypeOK
  <1> DEFINE room == Cardinality(Moderators) * (1 + overturns[t])
  <1>2. room \in Nat
    BY <1>1, RequestCounts, RoomGrows
  <1>3. \/ credits[t] = 0
        \/ credits[t] + Cardinality(Crediting(t)) + Outstanding(t) <= room
    BY DEF CreditInv
  <1>4. Cardinality(Crediting(t)) \in Nat /\ Outstanding(t) \in Nat
    BY RequestCounts
  <1> HIDE DEF room
  <1>5. credits[t] <= room
    BY <1>1, <1>2, <1>3, <1>4
  <1>6. QED  BY <1>5 DEF room

\* A request keeps its content.
LEMMA SameTarget ==
    ASSUME TypeInv, Grows, NEW m \in Moderators, resolving[m].step # "idle",
           resolving'[m].appeal = resolving[m].appeal
    PROVE  TargetOf(m)' = TargetOf(m)
  BY ResolvingFields DEF TargetOf, Grows

\* A step after which no more requests are past their check, or past their
\* UPDATE, than before.
LEMMA NoMoreRequests ==
    ASSUME TypeInv, CreditInv, NEW t \in Content,
           status'[t] = status[t], credits'[t] = credits[t],
           overturns' = overturns, t \in shown' <=> t \in shown,
           Crediting(t)' \subseteq Crediting(t),
           status[t] \in Accepted => Writing(t)' \subseteq Writing(t)
    PROVE  IF t \in shown'
           THEN credits'[t] + Cardinality(Crediting(t)') + Outstanding(t)'
                   <= Cardinality(Moderators) * (1 + overturns'[t])
           ELSE credits'[t] = 0
  <1>1. /\ IsFiniteSet(Writing(t)) /\ IsFiniteSet(Crediting(t))
        /\ Cardinality(Crediting(t)) \in Nat /\ Outstanding(t) \in Nat
    BY RequestCounts
  <1>2. /\ IsFiniteSet(Crediting(t)')
        /\ Cardinality(Crediting(t)') <= Cardinality(Crediting(t))
    BY <1>1, FS_Subset
  <1>3. Cardinality(Crediting(t)') \in Nat
    BY <1>2, FS_CardinalityType
  <1>4. Outstanding(t)' \in Nat /\ Outstanding(t)' <= Outstanding(t)
    <2>1. CASE status[t] \in Accepted
      <3>1. IsFiniteSet(Writing(t)') /\ Cardinality(Writing(t)') <= Cardinality(Writing(t))
        BY <1>1, <2>1, FS_Subset
      <3>2. Cardinality(Writing(t)') \in Nat
        BY <3>1, FS_CardinalityType
      <3>3. QED  BY <2>1, <3>1, <3>2 DEF Outstanding
    <2>2. CASE status[t] \notin Accepted
      <3>1. Cardinality(Moderators) \in Nat
        BY RequestCounts
      <3>2. QED  BY <2>2, <3>1 DEF Outstanding
    <2>3. QED  BY <2>1, <2>2
  <1>5. credits[t] \in Nat /\ overturns[t] \in Nat
    BY DEF TypeInv, TypeOK
  <1> DEFINE room == Cardinality(Moderators) * (1 + overturns[t])
  <1>6. room \in Nat
    BY <1>5, RequestCounts, RoomGrows
  <1>7. IF t \in shown
        THEN credits[t] + Cardinality(Crediting(t)) + Outstanding(t) <= room
        ELSE credits[t] = 0
    BY DEF CreditInv
  <1> HIDE DEF room
  <1>8. IF t \in shown
        THEN credits[t] + Cardinality(Crediting(t)') + Outstanding(t)' <= room
        ELSE credits[t] = 0
    BY <1>1, <1>2, <1>3, <1>4, <1>5, <1>6, <1>7
  <1>9. QED  BY <1>8 DEF room

\* Nobody is owed a credit for content that was never shown.
LEMMA HiddenOwesNothing ==
    ASSUME IInv, NEW t \in Content \ shown
    PROVE  credits[t] = 0 /\ Crediting(t) = {} /\ Cardinality(Crediting(t)) = 0
  <1>1. Crediting(t) = {}
    BY DEF IInv, RequestInv, Published, Crediting
  <1>2. QED  BY <1>1, FS_EmptySet DEF IInv, CreditInv

\* Where a request is about to credit an author, the bound is not reached.
LEMMA CreditHasRoom ==
    ASSUME IInv, NEW m \in Moderators, resolving[m].step = "credit"
    PROVE  credits[TargetOf(m)] < Cardinality(Moderators) * (1 + overturns[TargetOf(m)])
  <1> DEFINE t == TargetOf(m)
  <1>1. t \in Content
    BY ResolvingFields DEF IInv
  <1>2. t \in shown
    BY DEF IInv, RequestInv, Published
  <1>3. credits[t] \in Nat /\ overturns[t] \in Nat
    BY <1>1 DEF IInv, TypeInv, TypeOK
  <1>4. credits[t] + Cardinality(Crediting(t)) + Outstanding(t)
            <= Cardinality(Moderators) * (1 + overturns[t])
    BY <1>1, <1>2 DEF IInv, CreditInv
  <1>5. /\ IsFiniteSet(Crediting(t))
        /\ Cardinality(Crediting(t)) \in Nat /\ Outstanding(t) \in Nat
    BY RequestCounts
  <1>6. Cardinality(Crediting(t)) # 0
    <2>1. m \in Crediting(t)
      BY DEF Crediting
    <2>2. QED  BY <1>5, <2>1, FS_EmptySet
  <1> DEFINE room == Cardinality(Moderators) * (1 + overturns[t])
  <1>7. room \in Nat
    BY <1>3, RequestCounts, RoomGrows
  <1>8. credits[t] + Cardinality(Crediting(t)) + Outstanding(t) <= room
    BY <1>4
  <1> HIDE DEF room
  <1>9. credits[t] < room
    BY <1>3, <1>5, <1>6, <1>7, <1>8
  <1>10. QED  BY <1>9 DEF room

LEMMA PipelineCredits ==
    ASSUME IInv, PipelineStep
    PROVE  CreditInv'
  <1> SUFFICES ASSUME NEW t \in Content
               PROVE  IF t \in shown'
                      THEN credits'[t] + Cardinality(Crediting(t)') + Outstanding(t)'
                              <= Cardinality(Moderators) * (1 + overturns'[t])
                      ELSE credits'[t] = 0
    BY DEF CreditInv
  <1> DEFINE K == Cardinality(Moderators)
             owed == Cardinality(Crediting(t))
             written == Cardinality(Writing(t))
  <1>1. /\ UNCHANGED <<appeals, resolving, credits>>
        /\ shown' = shown \union {u \in Content : status'[u] = "published"}
        /\ overturns'[t] = IF status[t] \in Accepted /\ status'[t] \notin Accepted
                           THEN overturns[t] + 1 ELSE overturns[t]
    BY DEF PipelineStep, CountOverturns, creditVars
  <1>2. Crediting(t)' = Crediting(t) /\ Writing(t)' = Writing(t)
    BY <1>1 DEF Crediting, Writing, TargetOf
  <1>3. /\ Outstanding(t) = IF status[t] \in Accepted THEN written ELSE K
        /\ Outstanding(t)' = IF status'[t] \in Accepted THEN written ELSE K
    BY <1>2 DEF Outstanding
  <1>4. /\ credits[t] \in Nat /\ overturns[t] \in Nat
        /\ K \in Nat /\ owed \in Nat /\ written \in Nat /\ written <= K
    BY RequestCounts DEF IInv, TypeInv, TypeOK
  <1>5. CASE t \in shown
    <2>1. t \in shown' /\ credits[t] + owed + Outstanding(t) <= K * (1 + overturns[t])
      BY <1>1, <1>5 DEF IInv, CreditInv
    <2>2. /\ K * (1 + overturns[t]) \in Nat
          /\ K * (1 + (overturns[t] + 1)) = K * (1 + overturns[t]) + K
      BY <1>4, RoomGrows
    <2> HIDE DEF K, owed, written
    <2>3. credits[t] + owed + Outstanding(t)' <= K * (1 + overturns'[t])
      <3>1. CASE status[t] \in Accepted /\ status'[t] \notin Accepted
        <4> DEFINE room == K * (1 + overturns[t])
        <4>1. K * (1 + overturns'[t]) = room + K
          BY <1>1, <2>2, <3>1
        <4>2. room \in Nat /\ credits[t] + owed + written <= room
          BY <1>3, <2>1, <2>2, <3>1
        <4>3. Outstanding(t)' = K
          BY <1>3, <3>1
        <4> HIDE DEF room
        <4>4. credits[t] + owed + K <= room + K
          BY <1>4, <4>2
        <4>5. QED  BY <4>1, <4>3, <4>4
      <3>2. CASE ~(status[t] \in Accepted /\ status'[t] \notin Accepted)
        <4> DEFINE room == K * (1 + overturns[t])
        <4>1. overturns'[t] = overturns[t]
          BY <1>1, <3>2
        <4>2. room \in Nat /\ credits[t] + owed + Outstanding(t) <= room
          BY <2>1, <2>2
        <4>3. Outstanding(t)' <= Outstanding(t)
          BY <1>3, <1>4, <3>2
        <4>4. Outstanding(t) \in Nat /\ Outstanding(t)' \in Nat
          BY <1>3, <1>4
        <4> HIDE DEF room
        <4>5. credits[t] + owed + Outstanding(t)' <= room
          BY <1>4, <4>2, <4>3, <4>4
        <4>6. QED  BY <4>1, <4>5 DEF room
      <3>3. QED  BY <3>1, <3>2
    <2>4. QED  BY <1>1, <1>2, <2>1, <2>3 DEF owed, K
  <1>6. CASE t \notin shown
    <2>1. credits[t] = 0 /\ owed = 0
      BY <1>6, HiddenOwesNothing
    <2>2. CASE t \notin shown'
      BY <1>1, <2>1, <2>2
    <2>3. CASE t \in shown'
      <3>1. status'[t] = "published" /\ overturns'[t] \in Nat
        BY <1>1, <1>4, <1>6, <2>3
      <3>2. Outstanding(t)' = written
        BY <1>3, <3>1 DEF Accepted
      <3> DEFINE room == K * (1 + overturns'[t])
      <3>3. room \in Nat /\ K <= room
        BY <1>4, <3>1, RoomGrows
      <3> HIDE DEF room
      <3>4. credits[t] + owed + Outstanding(t)' <= room
        BY <1>4, <2>1, <3>2, <3>3
      <3>5. QED  BY <1>1, <1>2, <2>3, <3>4 DEF room
    <2>4. QED  BY <2>2, <2>3
  <1>7. QED  BY <1>5, <1>6

LEMMA ResolveCredits ==
    ASSUME IInv, Grows, NEW m \in Moderators, ResolveStepOf(m)
    PROVE  CreditInv'
  <1> SUFFICES ASSUME NEW t \in Content
               PROVE  IF t \in shown'
                      THEN credits'[t] + Cardinality(Crediting(t)') + Outstanding(t)'
                              <= Cardinality(Moderators) * (1 + overturns'[t])
                      ELSE credits'[t] = 0
    BY DEF CreditInv
  <1> USE DEF contentVars, creditVars
  <1>1. TypeInv /\ CreditInv
    BY DEF IInv
  <1>2. ASSUME NEW n \in Moderators \ {m}
        PROVE  /\ resolving'[n] = resolving[n]
               /\ resolving[n].step # "idle" => TargetOf(n)' = TargetOf(n)
    <2>1. resolving'[n] = resolving[n]
      BY <1>1
         DEF ResolveStepOf, Fetch, Audit, PublishCheck, PublishWrite, Credit, Mark,
             Notify, ResolveFails, TypeInv
    <2>2. QED  BY <1>1, <2>1, SameTarget
  \* Request m is in neither group after the step, and the others stay.
  <1>3. ASSUME resolving'[m].step \notin {"write", "credit"}
        PROVE  /\ Crediting(t)' \subseteq Crediting(t)
               /\ Writing(t)' \subseteq Writing(t)
    BY <1>2, <1>3 DEF Crediting, Writing
  <1>4. CASE \/ \E a \in DOMAIN appeals, r \in Resolution : Fetch(m, a, r)
             \/ ResolveFails(m) \/ Audit(m) \/ Mark(m) \/ Notify(m)
    <2>1. UNCHANGED <<status, shown, overturns, credits>>
      BY <1>4 DEF Fetch, ResolveFails, Audit, Mark, Notify
    <2>2. resolving'[m].step \notin {"write", "credit"}
      BY <1>1, <1>4
         DEF Fetch, ResolveFails, Audit, Mark, Notify, NoResolving, TypeInv
    <2>3. QED  BY <1>1, <1>3, <2>1, <2>2, NoMoreRequests
  <1>5. CASE PublishCheck(m)
    <2>1. /\ resolving[m].step = "check"
          /\ "published" \in Allowed(KindOf[TargetOf(m)], status[TargetOf(m)])
          /\ resolving' = [resolving EXCEPT ![m].step = "write"]
          /\ UNCHANGED <<contentVars, appeals, creditVars>>
      BY <1>5 DEF PublishCheck
    <2>2. "write" \in ResolveStep \ {"idle"}
      BY DEF ResolveStep
    <2>3. resolving'[m].step = "write" /\ resolving'[m].appeal = resolving[m].appeal
      BY <1>1, <2>1, <2>2, GotoEffect
    <2>4. status[TargetOf(m)] \notin Accepted
      BY <2>1 DEF Accepted, Allowed, PostTransitions, CommentTransitions
    <2>5. TargetOf(m)' = TargetOf(m)
      BY <2>1, <2>3 DEF TargetOf
    <2>6. /\ Crediting(t)' \subseteq Crediting(t)
          /\ status[t] \in Accepted => Writing(t)' \subseteq Writing(t)
      BY <1>2, <2>3, <2>4, <2>5 DEF Crediting, Writing
    <2>7. QED  BY <1>1, <2>1, <2>6, NoMoreRequests
  <1>6. CASE PublishWrite(m) \/ Credit(m)
    <2> DEFINE c == TargetOf(m)
    <2>1. PICK s \in {"credit", "mark"} :
              /\ resolving' = [resolving EXCEPT ![m].step = s]
              /\ s = "credit" <=> PublishWrite(m)
              /\ resolving[m].step = IF s = "credit" THEN "write" ELSE "credit"
              /\ UNCHANGED <<appeals, overturns>>
      BY <1>6 DEF PublishWrite, Credit
    <2>2. s \in ResolveStep \ {"idle"}
      BY DEF ResolveStep
    <2>3. /\ resolving'[m].step = s /\ resolving'[m].appeal = resolving[m].appeal
          /\ c \in Content
      BY <1>1, <2>1, <2>2, GotoEffect, ResolvingFields
    <2>4. TargetOf(m)' = c
      BY <2>1, <2>3 DEF TargetOf
    <2>5. CASE t # c
      <3>1. /\ Crediting(t)' \subseteq Crediting(t)
            /\ Writing(t)' \subseteq Writing(t)
        BY <1>2, <2>3, <2>4, <2>5 DEF Crediting, Writing
      <3>2. /\ status'[t] = status[t] /\ credits'[t] = credits[t]
            /\ t \in shown' <=> t \in shown
        BY <1>1, <1>6, <2>5 DEF PublishWrite, Credit, TypeInv, TypeOK
      <3>3. QED  BY <1>1, <2>1, <3>1, <3>2, NoMoreRequests
    <2> DEFINE room == Cardinality(Moderators) * (1 + overturns[t])
    <2>6. /\ credits[t] \in Nat /\ room \in Nat /\ Cardinality(Moderators) <= room
          /\ credits \in [Content -> Nat]
          /\ status \in [Content -> ContentStatus \union {"absent"}]
      <3>1. credits[t] \in Nat /\ overturns[t] \in Nat
        BY <1>1 DEF TypeInv, TypeOK
      <3>2. QED  BY <1>1, <3>1, RequestCounts, RoomGrows DEF TypeInv, TypeOK
    <2>7. t \in shown =>
             credits[t] + Cardinality(Crediting(t)) + Outstanding(t) <= room
      BY <1>1 DEF CreditInv
    <2>8. /\ IsFiniteSet(Writing(t)) /\ IsFiniteSet(Crediting(t))
          /\ Cardinality(Writing(t)) \in Nat /\ Cardinality(Crediting(t)) \in Nat
          /\ Cardinality(Writing(t)) <= Cardinality(Moderators)
          /\ Outstanding(t) \in Nat /\ Cardinality(Writing(t)) <= Outstanding(t)
      BY RequestCounts DEF Outstanding
    <2>9. CASE t = c /\ PublishWrite(m)
      <3>1. /\ s = "credit"
            /\ status' = [status EXCEPT ![t] = "published"]
            /\ shown' = shown \union {t}
            /\ UNCHANGED credits
        BY <2>1, <2>9 DEF PublishWrite
      <3>2. /\ m \in Writing(t) /\ Writing(t)' = Writing(t) \ {m}
            /\ m \notin Crediting(t) /\ Crediting(t)' = Crediting(t) \union {m}
        <4>1. /\ resolving[m].step = "write" /\ resolving'[m].step = "credit"
              /\ TargetOf(m) = t /\ TargetOf(m)' = t
          BY <2>1, <2>3, <2>4, <2>9, <3>1
        <4>2. QED  BY <1>2, <4>1 DEF Crediting, Writing
      <3>3. /\ Cardinality(Writing(t)') = Cardinality(Writing(t)) - 1
            /\ Cardinality(Crediting(t)') = Cardinality(Crediting(t)) + 1
        <4>1. Cardinality(Writing(t) \ {m}) = Cardinality(Writing(t)) - 1
          BY <2>8, <3>2, FS_RemoveElement
        <4>2. Cardinality(Crediting(t) \union {m}) = Cardinality(Crediting(t)) + 1
          BY <2>8, <3>2, FS_AddElement
        <4>3. QED  BY <3>2, <4>1, <4>2
      <3>4. Outstanding(t)' = Cardinality(Writing(t)')
        BY <2>6, <3>1 DEF Outstanding, Accepted
      <3>5. t \notin shown => credits[t] = 0 /\ Cardinality(Crediting(t)) = 0
        BY HiddenOwesNothing
      <3> HIDE DEF room
      <3>6. credits[t] + Cardinality(Crediting(t)') + Outstanding(t)' <= room
        BY <2>6, <2>7, <2>8, <3>3, <3>4, <3>5, RequestCounts
      <3>7. QED  BY <2>1, <3>1, <3>6 DEF room
    <2>10. CASE t = c /\ Credit(m)
      <3>1. /\ s = "mark"
            /\ UNCHANGED <<status, shown>>
            /\ credits' = [credits EXCEPT ![t] = @ + 1]
        BY <2>1, <2>10 DEF Credit, PublishWrite
      <3>2. /\ m \in Crediting(t) /\ Crediting(t)' = Crediting(t) \ {m}
            /\ Writing(t)' = Writing(t)
        BY <1>2, <2>1, <2>3, <2>4, <2>10, <3>1 DEF Crediting, Writing
      <3>3. Cardinality(Crediting(t)') = Cardinality(Crediting(t)) - 1
        BY <2>8, <3>2, FS_RemoveElement
      <3>4. Outstanding(t)' = Outstanding(t)
        BY <3>1, <3>2 DEF Outstanding
      <3>5. t \in shown /\ t \in shown' /\ credits'[t] = credits[t] + 1
        BY <2>6, <3>1, <3>2, HiddenOwesNothing
      <3> HIDE DEF room
      <3>6. credits'[t] + Cardinality(Crediting(t)') + Outstanding(t)' <= room
        BY <2>6, <2>7, <2>8, <3>3, <3>4, <3>5
      <3>7. QED  BY <2>1, <3>5, <3>6 DEF room
    <2>11. QED  BY <1>6, <2>5, <2>9, <2>10
  <1>7. QED  BY <1>4, <1>5, <1>6 DEF ResolveStepOf

LEMMA NextCredits ==
    ASSUME IInv, Grows, [Next]_vars
    PROVE  CreditInv'
  <1>1. TypeInv /\ CreditInv
    BY DEF IInv
  <1>2. CASE \/ \E t \in Content : OfferForm(t)
             \/ \E tab \in Tabs : FilingStepOf(tab)
             \/ UNCHANGED vars
    <2>1. UNCHANGED <<contentVars, resolving, creditVars>>
      BY <1>2
         DEF OfferForm, FilingStepOf, SubmitCheck, SubmitInsert, SubmitFails, vars
    <2>2. \A m \in Moderators :
             resolving[m].step # "idle" => TargetOf(m)' = TargetOf(m)
      BY <1>1, <2>1, SameTarget
    <2>3. \A t \in Content : Crediting(t)' = Crediting(t) /\ Writing(t)' = Writing(t)
      BY <2>1, <2>2 DEF Crediting, Writing
    <2>4. QED
      BY <1>1, <2>1, <2>3, NoMoreRequests DEF CreditInv, contentVars, creditVars
  <1>3. QED
    BY <1>2, PipelineCredits, ResolveCredits DEF Next

LEMMA NextIInv == IInv /\ [Next]_vars => IInv'
  <1> SUFFICES ASSUME IInv, [Next]_vars PROVE IInv'
    OBVIOUS
  <1>1. /\ TypeInv /\ TypeInv' /\ Grows
        /\ DuplicatesBounded' /\ CreditInv'
    BY NextTypes, NextDuplicates, NextCredits DEF IInv
  <1>2. /\ \A m \in Moderators : RequestInv(m)'
        /\ ClaimInv' /\ StatusIsRuled'
    <2>1. CASE PipelineStep
      BY <1>1, <2>1, PipelineInv
    <2>2. CASE \/ \E t \in Content : OfferForm(t)
               \/ \E tab \in Tabs : FilingStepOf(tab)
      BY <1>1, <2>2, SubmitInv
    <2>3. CASE \E m \in Moderators : ResolveStepOf(m)
      BY <1>1, <2>3, ResolveInv
    <2>4. CASE UNCHANGED vars
      BY <2>4
         DEF vars, contentVars, creditVars, IInv, RequestInv, Upholding, Published,
             TargetOf, ClaimInv, Claimed, Kept, StatusIsRuled
    <2>5. QED  BY <2>1, <2>2, <2>3, <2>4 DEF Next
  <1>3. QED  BY <1>1, <1>2 DEF IInv

\* IInv is an invariant of every instance of Appeals.
THEOREM Invariance == Spec => []IInv
  BY InitIInv, NextIInv, PTL DEF Spec

-------------------------------------------------------------------------------
(***************************************************************************)
(* What it means for authors and moderators.                               *)
(***************************************************************************)

\* The variables keep their types, and a resolve request in flight has an
\* appeal that exists.
THEOREM TypeCorrect == Spec => []TypeOK
  <1>1. IInv => TypeOK
    BY DEF IInv, TypeInv
  <1>2. QED  BY <1>1, Invariance, PTL

LEMMA InvUpheld == IInv => UpheldIsPublished
  BY DEF IInv, ClaimInv, Claimed, Kept, UpheldIsPublished

\* resolveAppealAction marks an appeal upheld, notifies its author and credits
\* them only after the verdict was logged and the content was public again,
\* whatever else happens to the appeal and the content at the time.
THEOREM UpholdingPublishes == Spec => []UpheldIsPublished
  BY Invariance, InvUpheld, PTL

\* Appeals keep the promise of the pipeline: a status is preceded by its verdict
\* in the audit log.
THEOREM AuditLogFirst == Spec => []StatusIsRuled
  <1>1. IInv => StatusIsRuled
    BY DEF IInv
  <1>2. QED  BY <1>1, Invariance, PTL

\* However many tabs race past the check of submitAppealAction, the open
\* appeals for a content never outnumber them.
THEOREM TabsBoundDuplicates == Spec => []DuplicatesBounded
  <1>1. IInv => DuplicatesBounded
    BY DEF IInv
  <1>2. QED  BY <1>1, Invariance, PTL

\* recordEvent() is reached no more often than there are requests in flight for
\* each time the content waits to be published on appeal, whatever the schedule.
THEOREM CreditsAreBounded == Spec => []CreditsBounded
  <1>1. IInv => CreditsBounded
    BY CreditsWithinBound DEF IInv
  <1>2. QED  BY <1>1, Invariance, PTL
===============================================================================
