---------------------------- MODULE ServicesProofs ----------------------------
(***************************************************************************)
(* Proofs about the services whose proofs are short: the rate limiter, the *)
(* translation cache, the thread of comments, the form of a new post, the  *)
(* guard adapter, the progress of a group, feed and hub, and the paged     *)
(* listings.  Each has a section of its own, with the invariant it needs.  *)
(***************************************************************************)
EXTENDS MCServices, CommunityAgentProofs, NotificationsProofs, NaturalsInduction

-------------------------------------------------------------------------------
(***************************************************************************)
(* McpServer.  Two signals may destroy the plugins side by side, each from *)
(* a list of its own.  TodoInv relates the two lists: what either has left *)
(* is the beginning of the records, backwards, and everything after it is  *)
(* gone, whichever of them destroyed it.  StartInv says how far the start  *)
(* has come when it ends, so that an init() never meets a plugin that the  *)
(* bus knows already.                                                      *)
(***************************************************************************)

\* The registry's map: a plugin has one record, or none.
RecordInv ==
    /\ \A i, j \in DOMAIN records : records[i] = records[j] => i = j
    /\ \A p \in Plugins :
          plugin[p] = "unknown" <=> \A i \in DOMAIN records : records[i] # p

StartInv ==
    /\ phase = "load" =>
          /\ \A p \in Plugins : plugin[p] \in {"unknown", "registered"}
          /\ \A h \in HookName : handlers[h] = <<>>
    /\ phase = "init" =>
          \A i \in DOMAIN records :
             plugin[records[i]] \in
                (IF i <= cursor THEN {"initialised", "failed"} ELSE {"registered"})
    /\ phase \in {"load", "init"} =>
          \A s \in Signals : shutdown[s] = [step |-> "none", todo |-> <<>>]

\* What a signal has left to destroy: the first records, backwards.
TodoInv(s) ==
    LET left == Len(shutdown[s].todo)
    IN  /\ left <= Len(records)
        /\ \A i \in 1..left : shutdown[s].todo[i] = records[left + 1 - i]
        /\ shutdown[s].step # "none" =>
              \A i \in DOMAIN records : i > left => plugin[records[i]] = "destroyed"
        /\ shutdown[s].step = "awaiting" => left > 0

McpInv ==
    /\ McpTypeOK
    /\ RecordInv
    /\ StartInv
    /\ \A s \in Signals : TodoInv(s)
    /\ PluginsAreOrderly

-------------------------------------------------------------------------------
(***************************************************************************)
(* Taking an element off a list that has each once.                        *)
(***************************************************************************)

LEMMA FirstNaturals ==
    ASSUME NEW n \in Nat
    PROVE  IsFiniteSet(1..n) /\ Cardinality(1..n) = n
  <1>1. IsFiniteSet(1..n) /\ Cardinality(1..n) = IF 1 > n THEN 0 ELSE n - 1 + 1
    BY FS_Interval
  <1>2. QED  BY <1>1

\* The places that stay can be numbered in their order.
LEMMA PlacesInOrder ==
    ASSUME NEW S, NEW list \in Seq(S), IsInjective(list), NEW e
    PROVE  /\ Cardinality(PlacesBut(list, e)) \in Nat
           /\ Cardinality(PlacesBut(list, e)) =
                 IF \E i \in DOMAIN list : list[i] = e
                 THEN Len(list) - 1 ELSE Len(list)
           /\ \E f \in [1..Cardinality(PlacesBut(list, e)) -> PlacesBut(list, e)] :
                 Increasing(f)
  <1> DEFINE n == Len(list)
             kept == PlacesBut(list, e)
             Numbered == \E f \in [1..Cardinality(kept) -> kept] : Increasing(f)
  <1>1. n \in Nat /\ DOMAIN list = 1..n
    OBVIOUS
  <1>2. IsFiniteSet(1..n) /\ Cardinality(1..n) = n
    BY <1>1, FirstNaturals
  <1> HIDE DEF n
  <1>3. ASSUME \A i \in DOMAIN list : list[i] # e
        PROVE  Cardinality(kept) = n /\ Numbered
    <2>1. kept = 1..n
      BY <1>1, <1>3 DEF PlacesBut
    <2> DEFINE f == [i \in 1..n |-> i]
    <2>2. f \in [1..n -> kept] /\ Increasing(f)
      BY <2>1 DEF Increasing
    <2>3. QED  BY <1>1, <1>2, <2>1, <2>2
  <1>4. ASSUME NEW k \in DOMAIN list, list[k] = e
        PROVE  n - 1 \in Nat /\ Cardinality(kept) = n - 1 /\ Numbered
    <2>1. k \in 1..n /\ n - 1 \in Nat
      BY <1>1
    <2>2. kept = (1..n) \ {k}
      BY <1>1, <1>4 DEF IsInjective, PlacesBut
    <2>3. Cardinality(kept) = n - 1
      BY <1>2, <2>1, <2>2, FS_RemoveElement
    <2> DEFINE f == [i \in 1..n - 1 |-> IF i < k THEN i ELSE i + 1]
    <2>4. f \in [1..n - 1 -> kept]
      <3>1. \A i \in 1..n - 1 : (IF i < k THEN i ELSE i + 1) \in (1..n) \ {k}
        BY <1>1, <2>1
      <3>2. QED  BY <2>2, <3>1
    <2>5. Increasing(f)
      BY <1>1, <2>1 DEF Increasing
    <2> HIDE DEF f
    <2>6. QED  BY <2>1, <2>3, <2>4, <2>5
  <1>5. QED
    <2>1. CASE \A i \in DOMAIN list : list[i] # e
      BY <1>1, <1>3, <2>1 DEF n
    <2>2. CASE ~\A i \in DOMAIN list : list[i] # e
      BY <1>1, <1>4, <2>2 DEF n
    <2>3. QED  BY <2>1, <2>2

\* What filter leaves: the others, each once.
LEMMA WithoutProperties ==
    ASSUME NEW S, NEW list \in Seq(S), IsInjective(list), NEW e
    PROVE  /\ Without(list, e) \in Seq(S)
           /\ Len(Without(list, e)) = IF \E i \in DOMAIN list : list[i] = e
                                      THEN Len(list) - 1 ELSE Len(list)
           /\ IsInjective(Without(list, e))
           /\ \A i \in DOMAIN Without(list, e) :
                 /\ Without(list, e)[i] # e
                 /\ \E k \in DOMAIN list : Without(list, e)[i] = list[k]
           /\ \A k \in DOMAIN list : list[k] # e =>
                 \E i \in DOMAIN Without(list, e) : Without(list, e)[i] = list[k]
  <1> DEFINE kept == PlacesBut(list, e)
             n == Cardinality(kept)
             place == CHOOSE f \in [1..n -> kept] : Increasing(f)
             others == [i \in 1..n |-> list[place[i]]]
  <1>1. /\ n \in Nat /\ \E f \in [1..n -> kept] : Increasing(f)
        /\ n = IF \E i \in DOMAIN list : list[i] = e THEN Len(list) - 1 ELSE Len(list)
    BY PlacesInOrder
  <1>2. place \in [1..n -> kept] /\ Increasing(place)
    BY <1>1
  <1>3. Without(list, e) = others
    BY DEF Without
  <1>4. IsFiniteSet(kept)
    <2>1. IsFiniteSet(1..Len(list)) /\ kept \subseteq 1..Len(list)
      BY FS_Interval DEF PlacesBut
    <2>2. QED  BY <2>1, FS_Subset
  <1> HIDE DEF place, n, kept
  <1>5. \A k \in kept : k \in DOMAIN list /\ k \in Nat /\ list[k] # e /\ list[k] \in S
    BY DEF kept, PlacesBut
  <1>6. \A i \in 1..n : place[i] \in kept
    BY <1>2
  <1>7. others \in [1..n -> S] /\ DOMAIN others = 1..n
    BY <1>5, <1>6
  <1>8. others \in Seq(S) /\ Len(others) = n
    BY <1>1, <1>7, SeqDef
  <1>9. \A i \in DOMAIN others : others[i] # e /\ \E k \in DOMAIN list : others[i] = list[k]
    BY <1>5, <1>6, <1>7
  <1>10. ASSUME NEW i \in 1..n, NEW j \in 1..n, place[i] = place[j]
         PROVE  i = j
    <2>1. place[i] \in Nat /\ i \in Nat /\ j \in Nat
      BY <1>1, <1>5, <1>6
    <2>2. (i < j => place[i] < place[j]) /\ (j < i => place[j] < place[i])
      BY <1>2 DEF Increasing
    <2>3. QED  BY <1>10, <2>1, <2>2
  <1>11. IsInjective(others)
    <2>1. ASSUME NEW i \in 1..n, NEW j \in 1..n, others[i] = others[j]
          PROVE  place[i] = place[j]
      BY <1>5, <1>6, <2>1 DEF IsInjective
    <2>2. QED  BY <1>7, <1>10, <2>1 DEF IsInjective
  <1>12. \A k \in kept : \E i \in 1..n : place[i] = k
    <2>1. place \in Injection(1..n, kept)
      BY <1>2, <1>10 DEF Injection, IsInjective
    <2>2. IsFiniteSet(1..n) /\ Cardinality(1..n) = n
      <3>1. n \in Nat
        BY <1>1
      <3>2. QED  BY <3>1, FirstNaturals
    <2>3. Cardinality(kept) = n
      BY DEF n
    <2>4. place \in Surjection(1..n, kept)
      BY <1>4, <2>1, <2>2, <2>3, FS_Injection
    <2>5. QED  BY <2>4 DEF Surjection
  <1>13. \A k \in DOMAIN list : list[k] # e => \E i \in DOMAIN others : others[i] = list[k]
    <2>1. ASSUME NEW k \in DOMAIN list, list[k] # e
          PROVE  \E i \in DOMAIN others : others[i] = list[k]
      <3>1. PICK i \in 1..n : place[i] = k
        BY <1>12, <2>1 DEF kept, PlacesBut
      <3>2. QED  BY <1>7, <3>1
    <2>2. QED  BY <2>1
  <1> HIDE DEF others
  <1>14. QED  BY <1>1, <1>3, <1>8, <1>9, <1>11, <1>13

\* unregisterPlugin leaves the others, each once.
LEMMA UnwireEffect ==
    ASSUME McpTypeOK, HandlersAreInitialised, NEW p, Unwire(p)
    PROVE  /\ handlers' \in [HookName -> Seq(Plugins)]
           /\ \A h \in HookName :
                 /\ IsInjective(handlers'[h])
                 /\ \A i \in DOMAIN handlers'[h] :
                       /\ handlers'[h][i] # p
                       /\ plugin[handlers'[h][i]] = "initialised"
  <1>1. handlers' = [h \in HookName |-> Without(handlers[h], p)]
    BY DEF Unwire
  <1>2. ASSUME NEW h \in HookName
        PROVE  /\ Without(handlers[h], p) \in Seq(Plugins)
               /\ IsInjective(Without(handlers[h], p))
               /\ \A i \in DOMAIN Without(handlers[h], p) :
                     /\ Without(handlers[h], p)[i] # p
                     /\ plugin[Without(handlers[h], p)[i]] = "initialised"
    <2>1. handlers[h] \in Seq(Plugins)
      BY DEF McpTypeOK
    <2>2. /\ IsInjective(handlers[h])
          /\ \A i \in DOMAIN handlers[h] : plugin[handlers[h][i]] = "initialised"
      BY DEF HandlersAreInitialised
    <2>3. QED  BY <2>1, <2>2, WithoutProperties
  <1>3. QED  BY <1>1, <1>2

-------------------------------------------------------------------------------
(***************************************************************************)
(* The invariant holds initially, and every step keeps it.                 *)
(***************************************************************************)

LEMMA InitMcpInv == McpInit => McpInv
  <1> SUFFICES ASSUME McpInit PROVE McpInv
    OBVIOUS
  <1>1. McpTypeOK
    BY DEF McpInit, McpTypeOK, Phase, PluginState, PostStatus
  <1>2. records = <<>> /\ phase = "load" /\ \A h \in HookName : handlers[h] = <<>>
    BY DEF McpInit
  <1>3. \A s \in Signals :
           shutdown[s].step = "none" /\ shutdown[s].todo = <<>>
           /\ shutdown[s] = [step |-> "none", todo |-> <<>>]
    BY DEF McpInit
  <1>4. RecordInv /\ StartInv
    BY <1>2, <1>3 DEF McpInit, RecordInv, StartInv
  <1>5. \A s \in Signals : TodoInv(s)
    BY <1>2, <1>3 DEF TodoInv
  <1>6. PluginsAreOrderly
    BY <1>2
    DEF PluginsAreOrderly, HandlersAreInitialised, DestroyedInReverse, ExitIsClean, IsInjective
  <1>7. QED  BY <1>1, <1>4, <1>5, <1>6 DEF McpInv

LEMMA CallStepMcpInv ==
    ASSUME McpInv, NEW c \in Calls,
           \/ CallTool(c) \/ RunHandler(c) \/ InsertPost(c) \/ InsertFails(c)
           \/ Answer(c) \/ Moderate(c)
    PROVE  McpInv'
  <1>1. UNCHANGED <<phase, cursor, records, plugin, connected, handlers, shutdown>>
    BY DEF CallTool, RunHandler, InsertPost, InsertFails, Answer, Moderate
  <1>2. McpTypeOK
    BY DEF McpInv
  <1> DEFINE CallType == [step : {"idle", "before", "after", "answered"}, pending : Seq(Plugins)]
  <1>3. call \in [Calls -> CallType] /\ call[c] \in CallType
        /\ handlers \in [HookName -> Seq(Plugins)] /\ post \in [Calls -> PostStatus]
        /\ told \subseteq Calls
    BY <1>2 DEF McpTypeOK
  <1>4. call' \in [Calls -> CallType]
    <2>1. CASE CallTool(c) \/ InsertPost(c)
      <3>1. PICK h \in HookName, st \in {"before", "after"} :
                call' = [call EXCEPT ![c] = [step |-> st, pending |-> handlers[h]]]
        BY <2>1 DEF CallTool, InsertPost, HookName
      <3>2. [step |-> st, pending |-> handlers[h]] \in CallType
        BY <1>3
      <3>3. QED  BY <1>3, <3>1, <3>2
    <2>2. CASE RunHandler(c)
      <3> DEFINE f == [call[c] EXCEPT !.pending = Tail(call[c].pending)]
      <3>1. call[c].pending \in Seq(Plugins) /\ call[c].pending # <<>>
        BY <1>3, <2>2 DEF RunHandler
      <3>2. Tail(call[c].pending) \in Seq(Plugins)
        BY <3>1
      <3>3. f \in CallType
        BY <1>3, <3>2
      <3>4. call' = [call EXCEPT ![c] = f]
        BY <1>3, <2>2 DEF RunHandler
      <3> HIDE DEF f, CallType
      <3>5. QED  BY <1>3, <3>3, <3>4
    <2>3. CASE InsertFails(c) \/ Answer(c)
      <3> DEFINE f == [call[c] EXCEPT !.step = "answered"]
      <3>1. f \in CallType
        BY <1>3
      <3>2. call' = [call EXCEPT ![c] = f]
        BY <2>3 DEF InsertFails, Answer
      <3> HIDE DEF f, CallType
      <3>3. QED  BY <1>3, <3>1, <3>2
    <2>4. CASE Moderate(c)
      BY <1>3, <2>4 DEF Moderate
    <2>5. QED  BY <2>1, <2>2, <2>3, <2>4
  <1>5. post' \in [Calls -> PostStatus] /\ told' \subseteq Calls
    BY <1>3 DEF CallTool, RunHandler, InsertPost, InsertFails, Answer, Moderate, PostStatus
  <1>6. McpTypeOK'
    BY <1>1, <1>2, <1>4, <1>5 DEF McpTypeOK
  <1>7. RecordInv' /\ StartInv' /\ (\A s \in Signals : TodoInv(s)')
    BY <1>1 DEF McpInv, RecordInv, StartInv, TodoInv
  <1>8. PluginsAreOrderly'
    BY <1>1
    DEF McpInv, PluginsAreOrderly, HandlersAreInitialised, DestroyedInReverse, ExitIsClean
  <1>9. QED  BY <1>6, <1>7, <1>8 DEF McpInv

\* A record is made for a plugin that had none.
LEMMA LoadMcpInv ==
    ASSUME McpInv, LoadPlugin
    PROVE  McpInv'
  <1>1. /\ phase = "load" /\ cursor < Len(Paths) /\ cursor' = cursor + 1
        /\ UNCHANGED <<phase, connected, handlers, call, post, told, shutdown>>
        /\ Register(Paths[cursor + 1]) \/ UNCHANGED <<records, plugin>>
    BY DEF LoadPlugin
  <1>2. /\ McpTypeOK /\ cursor \in Nat /\ records \in Seq(Plugins)
        /\ plugin \in [Plugins -> PluginState]
    BY DEF McpInv, McpTypeOK
  <1>3. /\ \A q \in Plugins : plugin[q] \in {"unknown", "registered"}
        /\ \A h \in HookName : handlers[h] = <<>>
        /\ \A s \in Signals : shutdown[s] = [step |-> "none", todo |-> <<>>]
    BY <1>1 DEF McpInv, StartInv
  <1> DEFINE p == Paths[cursor + 1]
  <1>4. p \in Plugins
    BY <1>1, <1>2, McpAssumption
  <1> HIDE DEF p
  <1>5. /\ records' \in Seq(Plugins) /\ plugin' \in [Plugins -> PluginState] /\ RecordInv'
        /\ \A q \in Plugins : plugin'[q] \in {"unknown", "registered"}
    <2>1. CASE UNCHANGED <<records, plugin>>
      BY <1>2, <1>3, <2>1 DEF McpInv, RecordInv
    <2>2. CASE Register(p) /\ plugin[p] = "unknown"
      <3>1. records' = Append(records, p) /\ plugin' = [plugin EXCEPT ![p] = "registered"]
        BY <2>2 DEF Register
      <3>2. /\ records' \in Seq(Plugins) /\ Len(records) \in Nat
            /\ DOMAIN records = 1..Len(records)
            /\ DOMAIN records' = 1..Len(records) + 1
            /\ \A i \in DOMAIN records : records'[i] = records[i]
            /\ records'[Len(records) + 1] = p
        BY <1>2, <1>4, <3>1
      <3>3. plugin' \in [Plugins -> PluginState] /\ plugin'[p] = "registered"
            /\ \A q \in Plugins \ {p} : plugin'[q] = plugin[q]
        BY <1>2, <1>4, <3>1 DEF PluginState
      <3>4. \A i \in DOMAIN records : records[i] # p
        BY <1>4, <2>2 DEF McpInv, RecordInv
      <3>5. \A i, j \in DOMAIN records' : records'[i] = records'[j] => i = j
        <4>1. \A i \in DOMAIN records' : i \in DOMAIN records \/ i = Len(records) + 1
          BY <3>2
        <4>2. QED  BY <3>2, <3>4, <4>1 DEF McpInv, RecordInv
      <3>6. ASSUME NEW q \in Plugins
            PROVE  plugin'[q] = "unknown" <=> \A i \in DOMAIN records' : records'[i] # q
        <4>1. CASE q = p
          BY <3>2, <3>3, <4>1
        <4>2. CASE q # p
          <5>1. plugin[q] = "unknown" <=> \A i \in DOMAIN records : records[i] # q
            BY DEF McpInv, RecordInv
          <5>2. (\A i \in DOMAIN records : records[i] # q)
                   <=> \A i \in DOMAIN records' : records'[i] # q
            BY <3>2, <4>2
          <5>3. QED  BY <3>3, <4>2, <5>1, <5>2
        <4>3. QED  BY <4>1, <4>2
      <3>7. \A q \in Plugins : plugin'[q] \in {"unknown", "registered"}
        BY <1>3, <3>3
      <3>8. QED  BY <3>2, <3>3, <3>5, <3>6, <3>7 DEF RecordInv
    <2>3. CASE Register(p) /\ plugin[p] # "unknown"
      <3>1. UNCHANGED <<records, plugin>>
        BY <2>3 DEF Register
      <3>2. QED  BY <2>1, <3>1
    <2>4. QED  BY <1>1, <2>1, <2>2, <2>3 DEF p
  <1>6. McpTypeOK'
    BY <1>1, <1>2, <1>5 DEF McpTypeOK
  <1>7. StartInv'
    BY <1>1, <1>3, <1>5 DEF StartInv
  <1>8. \A s \in Signals : TodoInv(s)'
    <2>1. Len(records') \in Nat
      BY <1>5
    <2>2. \A s \in Signals : shutdown'[s].step = "none" /\ shutdown'[s].todo = <<>>
      BY <1>1, <1>3
    <2>3. QED  BY <2>1, <2>2 DEF TodoInv
  <1>9. PluginsAreOrderly'
    <2>1. \A i \in DOMAIN records' : plugin'[records'[i]] # "destroyed"
      BY <1>5
    <2>2. \A h \in HookName : handlers'[h] = <<>>
      BY <1>1, <1>3
    <2>3. QED
      BY <1>1, <2>1, <2>2
      DEF PluginsAreOrderly, HandlersAreInitialised, DestroyedInReverse, ExitIsClean, IsInjective
  <1>10. QED  BY <1>5, <1>6, <1>7, <1>8, <1>9 DEF McpInv
LEMMA StartInitMcpInv ==
    ASSUME McpInv, StartInit
    PROVE  McpInv'
  <1>1. /\ phase = "load" /\ phase' = "init" /\ cursor' = 0
        /\ UNCHANGED <<records, plugin, connected, handlers, call, post, told, shutdown>>
    BY DEF StartInit
  <1>2. McpTypeOK /\ RecordInv /\ StartInv /\ PluginsAreOrderly
    BY DEF McpInv
  <1>3. McpTypeOK'
    BY <1>1, <1>2 DEF McpTypeOK, Phase
  <1>4. ASSUME NEW i \in DOMAIN records
        PROVE  plugin[records[i]] = "registered" /\ ~(i <= 0)
    <2>1. /\ records[i] \in Plugins /\ i \in Nat \ {0}
          /\ plugin[records[i]] \in {"unknown", "registered"}
      <3>1. records \in Seq(Plugins)
        BY <1>2 DEF McpTypeOK
      <3>2. QED  BY <1>1, <1>2, <3>1 DEF StartInv
    <2>2. plugin[records[i]] # "unknown"
      BY <1>2, <2>1 DEF RecordInv
    <2>3. QED  BY <2>1, <2>2
  <1>5. StartInv'
    BY <1>1, <1>2, <1>4 DEF StartInv
  <1>6. RecordInv' /\ (\A s \in Signals : TodoInv(s)')
    BY <1>1 DEF McpInv, RecordInv, TodoInv
  <1>7. PluginsAreOrderly'
    BY <1>1, <1>2
    DEF PluginsAreOrderly, HandlersAreInitialised, DestroyedInReverse, ExitIsClean
  <1>8. QED  BY <1>3, <1>5, <1>6, <1>7 DEF McpInv

\* Every record has been initialised, or has failed, by then.
LEMMA ConnectMcpInv ==
    ASSUME McpInv, Connect
    PROVE  McpInv'
  <1>1. /\ phase = "init" /\ phase' = "ready"
        /\ UNCHANGED <<cursor, records, plugin, connected, handlers, call, post, told, shutdown>>
    BY DEF Connect
  <1>2. McpTypeOK'
    BY <1>1 DEF McpInv, McpTypeOK, Phase
  <1>3. StartInv' /\ RecordInv' /\ (\A s \in Signals : TodoInv(s)')
    BY <1>1 DEF McpInv, StartInv, RecordInv, TodoInv
  <1>4. PluginsAreOrderly'
    BY <1>1
    DEF McpInv, PluginsAreOrderly, HandlersAreInitialised, DestroyedInReverse, ExitIsClean
  <1>5. QED  BY <1>2, <1>3, <1>4 DEF McpInv

\* The next record, which no list of the bus holds yet.
LEMMA InitPluginMcpInv ==
    ASSUME McpInv, InitPlugin
    PROVE  McpInv'
  <1> DEFINE p == records[cursor + 1]
  <1>1. /\ phase = "init" /\ cursor < Len(records) /\ cursor' = cursor + 1
        /\ UNCHANGED <<phase, records, call, post, told, shutdown>>
        /\ \/ /\ plugin' = [plugin EXCEPT ![p] = "initialised"]
              /\ connected' = connected \union {p}
              /\ Wire(p)
           \/ /\ plugin' = [plugin EXCEPT ![p] = "failed"]
              /\ UNCHANGED <<connected, handlers>>
    BY DEF InitPlugin
  <1>2. /\ McpTypeOK /\ RecordInv /\ cursor \in Nat /\ records \in Seq(Plugins)
        /\ plugin \in [Plugins -> PluginState] /\ connected \subseteq Plugins
        /\ handlers \in [HookName -> Seq(Plugins)]
        /\ HandlersAreInitialised
    BY DEF McpInv, McpTypeOK, PluginsAreOrderly
  <1>3. /\ \A i \in DOMAIN records :
              plugin[records[i]] \in
                 (IF i <= cursor THEN {"initialised", "failed"} ELSE {"registered"})
        /\ \A s \in Signals : shutdown[s] = [step |-> "none", todo |-> <<>>]
    BY <1>1 DEF McpInv, StartInv
  <1>4. /\ cursor + 1 \in DOMAIN records /\ DOMAIN records = 1..Len(records)
        /\ Len(records) \in Nat /\ p \in Plugins /\ plugin[p] = "registered"
    BY <1>1, <1>2, <1>3
  <1> HIDE DEF p
  <1>5. PICK to \in {"initialised", "failed"} :
            /\ plugin' = [plugin EXCEPT ![p] = to]
            /\ \/ to = "initialised" /\ Wire(p) /\ connected' = connected \union {p}
               \/ UNCHANGED <<handlers, connected>>
    BY <1>1
  <1>6. /\ plugin' \in [Plugins -> PluginState] /\ plugin'[p] = to
        /\ \A q \in Plugins \ {p} : plugin'[q] = plugin[q]
        /\ connected' \subseteq Plugins
    BY <1>2, <1>4, <1>5 DEF PluginState
  <1>7. ASSUME NEW h \in HookName
        PROVE  /\ handlers'[h] \in Seq(Plugins)
               /\ IsInjective(handlers'[h])
               /\ \A i \in DOMAIN handlers'[h] : plugin'[handlers'[h][i]] = "initialised"
    <2>1. /\ handlers[h] \in Seq(Plugins) /\ IsInjective(handlers[h])
          /\ \A i \in DOMAIN handlers[h] :
                handlers[h][i] \in Plugins /\ plugin[handlers[h][i]] = "initialised"
      BY <1>2 DEF HandlersAreInitialised
    <2>2. \A i \in DOMAIN handlers[h] :
             handlers[h][i] # p /\ plugin'[handlers[h][i]] = "initialised"
      BY <1>4, <1>6, <2>1
    <2>3. CASE handlers'[h] = handlers[h]
      BY <2>1, <2>2, <2>3
    <2>4. CASE handlers'[h] = Append(handlers[h], p) /\ to = "initialised"
      <3> DEFINE old == handlers[h]
                 new == handlers'[h]
      <3>1. /\ new \in Seq(Plugins) /\ Len(old) \in Nat /\ DOMAIN old = 1..Len(old)
            /\ DOMAIN new = 1..Len(old) + 1
            /\ \A i \in DOMAIN old : new[i] = old[i]
            /\ new[Len(old) + 1] = p
        BY <1>4, <2>1, <2>4
      <3>2. \A i \in DOMAIN new : i \in DOMAIN old \/ i = Len(old) + 1
        BY <3>1
      <3>3. IsInjective(new)
        BY <2>1, <2>2, <3>1, <3>2 DEF IsInjective
      <3>4. \A i \in DOMAIN new : plugin'[new[i]] = "initialised"
        BY <1>6, <2>2, <2>4, <3>1, <3>2
      <3>5. QED  BY <3>1, <3>3, <3>4
    <2>5. handlers'[h] = handlers[h]
             \/ (handlers'[h] = Append(handlers[h], p) /\ to = "initialised")
      BY <1>5 DEF Wire
    <2>6. QED  BY <2>3, <2>4, <2>5
  <1>8. handlers' \in [HookName -> Seq(Plugins)]
    <2>1. handlers' = [h \in HookName |-> handlers'[h]]
      BY <1>2, <1>5 DEF Wire
    <2>2. QED  BY <1>7, <2>1
  <1>9. McpTypeOK'
    BY <1>1, <1>2, <1>6, <1>8 DEF McpTypeOK
  <1>10. RecordInv'
    <2>1. ASSUME NEW q \in Plugins
          PROVE  plugin'[q] = "unknown" <=> plugin[q] = "unknown"
      BY <1>4, <1>6
    <2>2. QED  BY <1>1, <1>2, <2>1 DEF RecordInv
  <1>11. \A i \in DOMAIN records :
            plugin'[records[i]] \in
               (IF i <= cursor' THEN {"initialised", "failed"} ELSE {"registered"})
    <2> SUFFICES ASSUME NEW i \in DOMAIN records
                 PROVE  plugin'[records[i]] \in
                           (IF i <= cursor' THEN {"initialised", "failed"} ELSE {"registered"})
      OBVIOUS
    <2>1. records[i] \in Plugins /\ i \in Nat /\ (records[i] = p => i = cursor + 1)
      BY <1>2, <1>4 DEF RecordInv, p
    <2>2. CASE i = cursor + 1
      BY <1>1, <1>2, <1>6, <2>1, <2>2 DEF p
    <2>3. CASE i # cursor + 1
      <3>1. plugin'[records[i]] = plugin[records[i]]
        BY <1>6, <2>1, <2>3
      <3>2. i <= cursor' <=> i <= cursor
        BY <1>1, <1>2, <2>1, <2>3
      <3>3. QED  BY <1>3, <3>1, <3>2
    <2>4. QED  BY <2>2, <2>3
  <1>12. StartInv'
    BY <1>1, <1>3, <1>11 DEF StartInv
  <1>13. \A s \in Signals : TodoInv(s)'
    <2>1. \A s \in Signals : shutdown'[s].step = "none" /\ shutdown'[s].todo = <<>>
      BY <1>1, <1>3
    <2>2. QED  BY <1>1, <1>4, <2>1 DEF TodoInv
  <1>14. PluginsAreOrderly'
    <2>1. \A i \in DOMAIN records' : plugin'[records'[i]] # "destroyed"
      BY <1>1, <1>11
    <2>2. QED
      BY <1>1, <1>7, <2>1
      DEF PluginsAreOrderly, HandlersAreInitialised, DestroyedInReverse, ExitIsClean
  <1>15. QED  BY <1>9, <1>10, <1>12, <1>13, <1>14 DEF McpInv

-------------------------------------------------------------------------------
(***************************************************************************)
(* Destruction.                                                            *)
(***************************************************************************)

\* What a signal's list is made of.
LEMMA TodoFields ==
    ASSUME McpInv, NEW s \in Signals
    PROVE  /\ shutdown[s].todo \in Seq(Plugins)
           /\ Len(shutdown[s].todo) \in Nat
           /\ DOMAIN shutdown[s].todo = 1..Len(shutdown[s].todo)
           /\ shutdown[s].step \in {"none", "destroying", "awaiting"}
           /\ shutdown \in [Signals -> [step : {"none", "destroying", "awaiting"},
                                        todo : Seq(Plugins)]]
           /\ records \in Seq(Plugins)
           /\ Len(records) \in Nat
           /\ DOMAIN records = 1..Len(records)
  <1>1. /\ shutdown \in [Signals -> [step : {"none", "destroying", "awaiting"},
                                     todo : Seq(Plugins)]]
        /\ records \in Seq(Plugins)
    BY DEF McpInv, McpTypeOK
  <1>2. QED  BY <1>1

\* One signal's entry is written.
LEMMA OneSignal ==
    ASSUME McpInv, NEW s \in Signals, NEW st \in {"none", "destroying", "awaiting"},
           NEW list \in Seq(Plugins),
           shutdown' = [shutdown EXCEPT ![s] = [step |-> st, todo |-> list]]
    PROVE  /\ shutdown' \in [Signals -> [step : {"none", "destroying", "awaiting"},
                                         todo : Seq(Plugins)]]
           /\ shutdown'[s].step = st
           /\ shutdown'[s].todo = list
           /\ \A o \in Signals \ {s} : shutdown'[o] = shutdown[o]
  <1> DEFINE f == [step |-> st, todo |-> list]
  <1>1. f \in [step : {"none", "destroying", "awaiting"}, todo : Seq(Plugins)]
        /\ f.step = st /\ f.todo = list
    OBVIOUS
  <1> HIDE DEF f
  <1>2. shutdown' = [shutdown EXCEPT ![s] = f]
    BY DEF f
  <1>3. QED  BY <1>1, <1>2, TodoFields

\* A signal's list begins with the last of the records that it has left.
LEMMA HeadOfTodo ==
    ASSUME McpInv, NEW s \in Signals, shutdown[s].todo # <<>>
    PROVE  LET left == Len(shutdown[s].todo)
               todo == shutdown[s].todo
           IN  /\ left \in DOMAIN records
               /\ Head(todo) = records[left]
               /\ Head(todo) \in Plugins
               /\ Tail(todo) \in Seq(Plugins)
               /\ Len(Tail(todo)) = left - 1
               /\ \A i \in 1..left - 1 : Tail(todo)[i] = records[left - i]
  <1> DEFINE todo == shutdown[s].todo
             left == Len(todo)
  <1>1. todo \in Seq(Plugins) /\ todo # <<>> /\ Len(records) \in Nat
        /\ DOMAIN records = 1..Len(records)
    BY TodoFields
  <1>2. left <= Len(records) /\ \A i \in 1..left : todo[i] = records[left + 1 - i]
    BY DEF McpInv, TodoInv
  <1> HIDE DEF todo
  <1>3. /\ left \in Nat \ {0} /\ Head(todo) = todo[1] /\ Head(todo) \in Plugins
        /\ Tail(todo) \in Seq(Plugins) /\ Len(Tail(todo)) = left - 1
        /\ \A i \in 1..left - 1 : Tail(todo)[i] = todo[i + 1]
    BY <1>1
  <1> HIDE DEF left
  <1>4. left \in DOMAIN records /\ Head(todo) = records[left]
    <2>1. 1 \in 1..left /\ left + 1 - 1 = left /\ left \in 1..Len(records)
      BY <1>1, <1>2, <1>3
    <2>2. QED  BY <1>1, <1>2, <1>3, <2>1
  <1>5. ASSUME NEW i \in 1..left - 1 PROVE Tail(todo)[i] = records[left - i]
    <2>1. i + 1 \in 1..left /\ left + 1 - (i + 1) = left - i
      BY <1>3
    <2>2. QED  BY <1>2, <1>3, <2>1
  <1>6. QED  BY <1>3, <1>4, <1>5 DEF left, todo

\* What signal s has left when it is done with the head of its list, which is
\* destroyed by now: the other signal's list is none the worse for it.
LEMMA DestroyedHead ==
    ASSUME McpInv, NEW s \in Signals, shutdown[s].todo # <<>>, shutdown[s].step # "none",
           shutdown' = [shutdown EXCEPT ![s] =
              [step |-> "destroying", todo |-> Tail(shutdown[s].todo)]],
           plugin' = [plugin EXCEPT ![Head(shutdown[s].todo)] = "destroyed"],
           UNCHANGED records
    PROVE  /\ \A o \in Signals : TodoInv(o)'
           /\ DestroyedInReverse'
           /\ RecordInv'
           /\ plugin' \in [Plugins -> PluginState]
           /\ plugin'[Head(shutdown[s].todo)] = "destroyed"
           /\ \A q \in Plugins \ {Head(shutdown[s].todo)} : plugin'[q] = plugin[q]
           /\ shutdown' \in [Signals -> [step : {"none", "destroying", "awaiting"},
                                         todo : Seq(Plugins)]]
  <1> DEFINE left == Len(shutdown[s].todo)
             p == Head(shutdown[s].todo)
  <1>1. /\ left \in DOMAIN records /\ p = records[left] /\ p \in Plugins
        /\ Tail(shutdown[s].todo) \in Seq(Plugins)
        /\ Len(Tail(shutdown[s].todo)) = left - 1
        /\ \A i \in 1..left - 1 : Tail(shutdown[s].todo)[i] = records[left - i]
    BY HeadOfTodo
  <1>2. /\ shutdown' \in [Signals -> [step : {"none", "destroying", "awaiting"},
                                      todo : Seq(Plugins)]]
        /\ shutdown'[s].step = "destroying"
        /\ shutdown'[s].todo = Tail(shutdown[s].todo)
        /\ \A o \in Signals \ {s} : shutdown'[o] = shutdown[o]
    BY <1>1, OneSignal
  <1>3. plugin \in [Plugins -> PluginState] /\ RecordInv /\ DestroyedInReverse
        /\ Len(records) \in Nat /\ DOMAIN records = 1..Len(records)
        /\ \A i \in DOMAIN records : records[i] \in Plugins
    <2>1. /\ plugin \in [Plugins -> PluginState] /\ RecordInv /\ DestroyedInReverse
          /\ records \in Seq(Plugins)
      BY DEF McpInv, McpTypeOK, PluginsAreOrderly
    <2>2. QED  BY <2>1
  <1>4. \A i \in DOMAIN records : i > left => plugin[records[i]] = "destroyed"
    BY DEF McpInv, TodoInv
  <1> HIDE DEF left, p
  <1>5. /\ plugin' \in [Plugins -> PluginState] /\ plugin'[p] = "destroyed"
        /\ \A q \in Plugins \ {p} : plugin'[q] = plugin[q]
    BY <1>1, <1>3 DEF PluginState, p
  <1>6. \A i \in DOMAIN records :
           plugin[records[i]] = "destroyed" => plugin'[records[i]] = "destroyed"
    BY <1>3, <1>5
  <1>7. \A i \in DOMAIN records : i >= left => plugin'[records[i]] = "destroyed"
    BY <1>1, <1>3, <1>4, <1>5, <1>6
  <1>8. TodoInv(s)'
    <2>1. left - 1 <= Len(records) /\ left \in Nat \ {0}
      BY <1>1, <1>3
    <2>2. \A i \in 1..left - 1 : shutdown'[s].todo[i] = records[left - 1 + 1 - i]
      BY <1>1, <1>2, <2>1
    <2>3. \A i \in DOMAIN records : i > left - 1 => plugin'[records[i]] = "destroyed"
      BY <1>3, <1>7, <2>1
    <2>4. Len(shutdown'[s].todo) = left - 1 /\ shutdown'[s].step = "destroying"
      BY <1>1, <1>2
    <2>5. QED  BY <2>1, <2>2, <2>3, <2>4 DEF TodoInv
  <1>9. ASSUME NEW o \in Signals \ {s} PROVE TodoInv(o)'
    BY <1>2, <1>6 DEF McpInv, TodoInv
  <1>10. DestroyedInReverse'
    <2> SUFFICES ASSUME NEW i \in DOMAIN records, NEW j \in DOMAIN records, i < j,
                        plugin'[records[i]] = "destroyed"
                 PROVE  plugin'[records[j]] = "destroyed"
      BY DEF DestroyedInReverse
    <2>1. CASE i >= left
      BY <1>1, <1>3, <1>7, <2>1
    <2>2. CASE ~(i >= left)
      <3>1. records[i] # p
        BY <1>1, <1>3, <2>2 DEF RecordInv
      <3>2. plugin[records[i]] = "destroyed"
        BY <1>3, <1>5, <3>1
      <3>3. QED  BY <1>3, <1>6, <3>2 DEF DestroyedInReverse
    <2>3. QED  BY <2>1, <2>2
  <1>11. RecordInv'
    <2>1. plugin[p] # "unknown"
      BY <1>1, <1>3 DEF RecordInv
    <2>2. \A q \in Plugins : plugin'[q] = "unknown" <=> plugin[q] = "unknown"
      BY <1>5, <2>1
    <2>3. QED  BY <1>3, <2>2 DEF RecordInv
  <1>12. QED  BY <1>2, <1>5, <1>8, <1>9, <1>10, <1>11 DEF p

LEMMA SignalMcpInv ==
    ASSUME McpInv, NEW s \in Signals, Signal(s)
    PROVE  McpInv'
  <1>1. /\ phase = "ready" /\ shutdown[s].step = "none"
        /\ shutdown' = [shutdown EXCEPT ![s] = [step |-> "destroying", todo |-> DestroyOrder]]
        /\ UNCHANGED <<phase, cursor, records, plugin, connected, handlers, call, post, told>>
    BY DEF Signal
  <1>2. /\ records \in Seq(Plugins) /\ Len(records) \in Nat
        /\ DOMAIN records = 1..Len(records)
    BY TodoFields
  <1>3. /\ DestroyOrder \in Seq(Plugins) /\ Len(DestroyOrder) = Len(records)
        /\ \A i \in 1..Len(records) : DestroyOrder[i] = records[Len(records) + 1 - i]
    <2> DEFINE n == Len(records)
               order == [i \in 1..n |-> records[n - i + 1]]
    <2>1. DestroyOrder = order
      BY DEF DestroyOrder, Reverse
    <2>2. \A i \in 1..n : n - i + 1 \in 1..n /\ n - i + 1 = n + 1 - i
      BY <1>2
    <2>3. order \in [1..n -> Plugins]
      BY <1>2, <2>2
    <2>4. order \in Seq(Plugins) /\ Len(order) = n
      BY <1>2, <2>3, SeqDef
    <2>5. \A i \in 1..n : order[i] = records[n + 1 - i]
      BY <2>2
    <2> HIDE DEF order
    <2>6. QED  BY <2>1, <2>4, <2>5
  <1>4. /\ shutdown' \in [Signals -> [step : {"none", "destroying", "awaiting"},
                                      todo : Seq(Plugins)]]
        /\ shutdown'[s].step = "destroying" /\ shutdown'[s].todo = DestroyOrder
        /\ \A o \in Signals \ {s} : shutdown'[o] = shutdown[o]
    BY <1>1, <1>3, OneSignal
  <1>5. McpTypeOK'
    BY <1>1, <1>4 DEF McpInv, McpTypeOK
  <1>6. TodoInv(s)'
    BY <1>1, <1>2, <1>3, <1>4 DEF TodoInv
  <1>7. \A o \in Signals \ {s} : TodoInv(o)'
    BY <1>1, <1>4 DEF McpInv, TodoInv
  <1>8. RecordInv' /\ StartInv'
    BY <1>1 DEF McpInv, RecordInv, StartInv
  <1>9. PluginsAreOrderly'
    BY <1>1
    DEF McpInv, PluginsAreOrderly, HandlersAreInitialised, DestroyedInReverse, ExitIsClean
  <1>10. QED  BY <1>5, <1>6, <1>7, <1>8, <1>9 DEF McpInv

\* The other signal was faster, and nothing changes but the list.
LEMMA SkipMcpInv ==
    ASSUME McpInv, NEW s \in Signals, SkipDestroyed(s)
    PROVE  McpInv'
  <1> DEFINE p == Head(shutdown[s].todo)
  <1>1. /\ phase = "ready" /\ shutdown[s].step = "destroying" /\ shutdown[s].todo # <<>>
        /\ plugin[p] = "destroyed" /\ Unwire(p)
        /\ UNCHANGED <<phase, cursor, records, plugin, connected, call, post, told>>
    BY DEF SkipDestroyed, DestroyedAlready
  <1>2. /\ McpTypeOK /\ HandlersAreInitialised /\ p \in Plugins
        /\ plugin \in [Plugins -> PluginState]
    BY <1>1, HeadOfTodo DEF McpInv, PluginsAreOrderly, McpTypeOK
  <1>3. shutdown' = [shutdown EXCEPT ![s] =
           [step |-> "destroying", todo |-> Tail(shutdown[s].todo)]]
    <2> DEFINE Turn == [step : {"none", "destroying", "awaiting"}, todo : Seq(Plugins)]
               e == shutdown[s]
    <2>1. shutdown \in [Signals -> Turn] /\ e \in Turn
      BY TodoFields
    <2>2. shutdown' = [shutdown EXCEPT ![s] = [e EXCEPT !.todo = Tail(e.todo)]]
      BY DEF SkipDestroyed
    <2> DEFINE others == Tail(e.todo)
    <2>3. e.step = "destroying"
      BY <1>1
    <2> HIDE DEF others, e
    <2>4. [e EXCEPT !.todo = others] = [step |-> "destroying", todo |-> others]
      BY <2>1, <2>3
    <2>5. QED  BY <2>2, <2>4 DEF others, e
  <1>4. plugin' = [plugin EXCEPT ![p] = "destroyed"]
    BY <1>1, <1>2
  <1>5. /\ \A o \in Signals : TodoInv(o)'
        /\ DestroyedInReverse' /\ RecordInv'
        /\ shutdown' \in [Signals -> [step : {"none", "destroying", "awaiting"},
                                      todo : Seq(Plugins)]]
    BY <1>1, <1>3, <1>4, DestroyedHead
  <1> HIDE DEF p
  <1>6. /\ handlers' \in [HookName -> Seq(Plugins)]
        /\ \A h \in HookName :
              /\ IsInjective(handlers'[h])
              /\ \A i \in DOMAIN handlers'[h] : plugin[handlers'[h][i]] = "initialised"
    BY <1>1, <1>2, UnwireEffect
  <1>7. McpTypeOK'
    BY <1>1, <1>2, <1>5, <1>6 DEF McpTypeOK
  <1>8. StartInv'
    BY <1>1 DEF StartInv
  <1>9. PluginsAreOrderly'
    BY <1>1, <1>5, <1>6 DEF PluginsAreOrderly, HandlersAreInitialised, ExitIsClean
  <1>10. QED  BY <1>5, <1>7, <1>8, <1>9 DEF McpInv

LEMMA BeginMcpInv ==
    ASSUME McpInv, NEW s \in Signals, BeginDestroy(s)
    PROVE  McpInv'
  <1>1. /\ phase = "ready" /\ shutdown[s].step = "destroying" /\ shutdown[s].todo # <<>>
        /\ connected' = connected \ {Head(shutdown[s].todo)}
        /\ UNCHANGED <<phase, cursor, records, plugin, handlers, call, post, told>>
    BY DEF BeginDestroy
  <1> DEFINE e == shutdown[s]
  <1>2. e.todo \in Seq(Plugins) /\ Len(e.todo) \in Nat \ {0}
    BY <1>1, TodoFields
  <1>3. shutdown' = [shutdown EXCEPT ![s] = [step |-> "awaiting", todo |-> e.todo]]
    <2> DEFINE Turn == [step : {"none", "destroying", "awaiting"}, todo : Seq(Plugins)]
    <2>1. shutdown \in [Signals -> Turn] /\ e \in Turn
      BY TodoFields
    <2>2. shutdown' = [shutdown EXCEPT ![s] = [e EXCEPT !.step = "awaiting"]]
      BY DEF BeginDestroy
    <2>3. [e EXCEPT !.step = "awaiting"] = [step |-> "awaiting", todo |-> e.todo]
      BY <2>1
    <2>4. QED  BY <2>2, <2>3
  <1>4. /\ shutdown' \in [Signals -> [step : {"none", "destroying", "awaiting"},
                                      todo : Seq(Plugins)]]
        /\ shutdown'[s].step = "awaiting" /\ shutdown'[s].todo = e.todo
        /\ \A o \in Signals \ {s} : shutdown'[o] = shutdown[o]
    BY <1>2, <1>3, OneSignal
  <1>5. McpTypeOK'
    <2>1. connected' \subseteq Plugins
      BY <1>1 DEF McpInv, McpTypeOK
    <2>2. QED  BY <1>1, <1>4, <2>1 DEF McpInv, McpTypeOK
  <1>6. TodoInv(s)'
    <2>1. TodoInv(s)
      BY DEF McpInv
    <2>2. QED  BY <1>1, <1>2, <1>4, <2>1 DEF TodoInv
  <1>7. \A o \in Signals \ {s} : TodoInv(o)'
    BY <1>1, <1>4 DEF McpInv, TodoInv
  <1>8. RecordInv' /\ StartInv'
    BY <1>1 DEF McpInv, RecordInv, StartInv
  <1>9. PluginsAreOrderly'
    BY <1>1
    DEF McpInv, PluginsAreOrderly, HandlersAreInitialised, DestroyedInReverse, ExitIsClean
  <1>10. QED  BY <1>5, <1>6, <1>7, <1>8, <1>9 DEF McpInv

LEMMA EndMcpInv ==
    ASSUME McpInv, NEW s \in Signals, EndDestroy(s)
    PROVE  McpInv'
  <1> DEFINE p == Head(shutdown[s].todo)
  <1>1. /\ phase = "ready" /\ shutdown[s].step = "awaiting"
        /\ plugin' = [plugin EXCEPT ![p] = "destroyed"] /\ Unwire(p)
        /\ UNCHANGED <<phase, cursor, records, connected, call, post, told>>
        /\ shutdown' = [shutdown EXCEPT ![s] =
              [step |-> "destroying", todo |-> Tail(shutdown[s].todo)]]
    <2>1. shutdown' = [shutdown EXCEPT ![s] =
             [step |-> "destroying", todo |-> Tail(shutdown[s].todo)]]
      BY TodoFields DEF EndDestroy
    <2>2. QED  BY <2>1 DEF EndDestroy
  <1>2. shutdown[s].todo # <<>>
    <2>1. TodoInv(s)
      BY DEF McpInv
    <2>2. Len(shutdown[s].todo) > 0
      BY <1>1, <2>1 DEF TodoInv
    <2>3. QED  BY <2>2
  <1>3. /\ McpTypeOK /\ HandlersAreInitialised /\ p \in Plugins
    BY <1>2, HeadOfTodo DEF McpInv, PluginsAreOrderly
  <1>4. /\ \A o \in Signals : TodoInv(o)'
        /\ DestroyedInReverse' /\ RecordInv'
        /\ plugin' \in [Plugins -> PluginState]
        /\ \A q \in Plugins \ {p} : plugin'[q] = plugin[q]
        /\ shutdown' \in [Signals -> [step : {"none", "destroying", "awaiting"},
                                      todo : Seq(Plugins)]]
    BY <1>1, <1>2, DestroyedHead
  <1> HIDE DEF p
  <1>5. /\ handlers' \in [HookName -> Seq(Plugins)]
        /\ \A h \in HookName :
              /\ IsInjective(handlers'[h])
              /\ \A i \in DOMAIN handlers'[h] :
                    handlers'[h][i] # p /\ plugin[handlers'[h][i]] = "initialised"
    BY <1>1, <1>3, UnwireEffect
  <1>6. ASSUME NEW h \in HookName, NEW i \in DOMAIN handlers'[h]
        PROVE  plugin'[handlers'[h][i]] = "initialised"
    <2>1. handlers'[h] \in Seq(Plugins)
      BY <1>5
    <2>2. handlers'[h][i] \in Plugins
      BY <2>1
    <2>3. QED  BY <1>4, <1>5, <2>2
  <1>7. McpTypeOK'
    BY <1>1, <1>3, <1>4, <1>5 DEF McpTypeOK
  <1>8. StartInv'
    BY <1>1 DEF StartInv
  <1>9. PluginsAreOrderly'
    BY <1>1, <1>4, <1>5, <1>6 DEF PluginsAreOrderly, HandlersAreInitialised, ExitIsClean
  <1>10. QED  BY <1>4, <1>7, <1>8, <1>9 DEF McpInv

\* One list is empty: the other one's plugins are gone as well.
LEMMA ExitMcpInv ==
    ASSUME McpInv, NEW s \in Signals, Exit(s)
    PROVE  McpInv'
  <1>1. /\ phase = "ready" /\ phase' = "exited"
        /\ shutdown[s].step = "destroying" /\ shutdown[s].todo = <<>>
        /\ UNCHANGED <<cursor, records, plugin, connected, handlers, call, post, told, shutdown>>
    BY DEF Exit
  <1>2. ExitIsClean'
    <2>1. TodoInv(s) /\ Len(shutdown[s].todo) = 0
      BY <1>1 DEF McpInv
    <2>2. \A i \in DOMAIN records : i > 0
      BY TodoFields
    <2>3. \A i \in DOMAIN records : plugin[records[i]] = "destroyed"
      BY <1>1, <2>1, <2>2 DEF TodoInv
    <2>4. QED  BY <1>1, <2>3 DEF ExitIsClean
  <1>3. McpTypeOK'
    BY <1>1 DEF McpInv, McpTypeOK, Phase
  <1>4. StartInv' /\ RecordInv' /\ (\A o \in Signals : TodoInv(o)')
    BY <1>1 DEF McpInv, StartInv, RecordInv, TodoInv
  <1>5. PluginsAreOrderly'
    BY <1>1, <1>2 DEF McpInv, PluginsAreOrderly, HandlersAreInitialised, DestroyedInReverse
  <1>6. QED  BY <1>3, <1>4, <1>5 DEF McpInv

LEMMA NextMcpInv == McpInv /\ [McpNext]_mcpVars => McpInv'
  <1> SUFFICES ASSUME McpInv, [McpNext]_mcpVars PROVE McpInv'
    OBVIOUS
  <1>1. ASSUME UNCHANGED mcpVars PROVE McpInv'
    BY <1>1
    DEF mcpVars, McpInv, McpTypeOK, RecordInv, StartInv, TodoInv, PluginsAreOrderly,
        HandlersAreInitialised, DestroyedInReverse, ExitIsClean
  <1>2. CASE LoadPlugin \/ StartInit \/ InitPlugin \/ Connect
    BY <1>2, LoadMcpInv, StartInitMcpInv, InitPluginMcpInv, ConnectMcpInv
  <1>3. CASE \E c \in Calls :
            \/ CallTool(c) \/ RunHandler(c) \/ InsertPost(c) \/ InsertFails(c)
            \/ Answer(c) \/ Moderate(c)
    BY <1>3, CallStepMcpInv
  <1>4. CASE \E s \in Signals :
            Signal(s) \/ SkipDestroyed(s) \/ BeginDestroy(s) \/ EndDestroy(s) \/ Exit(s)
    BY <1>4, SignalMcpInv, SkipMcpInv, BeginMcpInv, EndMcpInv, ExitMcpInv
  <1>5. QED  BY <1>1, <1>2, <1>3, <1>4 DEF McpNext

-------------------------------------------------------------------------------
(***************************************************************************)
(* Theorems.                                                               *)
(***************************************************************************)

\* The strengthened invariant: the registry's map, how far the start has come,
\* and what each signal has left to destroy.
THEOREM McpInvariance == McpSpec => []McpInv
  BY InitMcpInv, NextMcpInv, PTL DEF McpSpec

\* Every variable of the server has its type.
THEOREM McpTypeCorrect == McpSpec => []McpTypeOK
  <1>1. McpInv => McpTypeOK
    BY DEF McpInv
  <1>2. QED  BY <1>1, McpInvariance, PTL

\* The bus reaches initialised plugins only, each once; plugins go in the reverse
\* order of their registration, also under two signals; none is left at exit.
THEOREM OrderlyLives == McpSpec => []PluginsAreOrderly
  <1>1. McpInv => PluginsAreOrderly
    BY DEF McpInv
  <1>2. QED  BY <1>1, McpInvariance, PTL

-------------------------------------------------------------------------------
(***************************************************************************)
(* RateLimit.  BurstBounded needs to know how the grants of two windows    *)
(* add up: when a key expires, its first grant is Window ticks old, so     *)
(* that one window leaves at most MaxHits - 1 behind for the next.         *)
(***************************************************************************)

\* The grants the present key has made.
Taken == IF hits > MaxHits THEN MaxHits ELSE hits

RateInv ==
    /\ RateTypeOK
    /\ ttl > 0 => hits > 0
    /\ Cardinality(GrantsYounger(Window)) + 1 <= MaxHits + Taken
    /\ \A k \in Ages :
          ttl = Window - k => Cardinality(GrantsYounger(k)) + 1 <= Taken
    /\ RetryAfterIsEnough

\* The grants of some ticks are finitely many.
LEMMA GrantsAreFinite ==
    ASSUME RateTypeOK, NEW k \in 0..Window
    PROVE  IsFiniteSet(GrantsYounger(k)) /\ Cardinality(GrantsYounger(k)) \in Nat
  <1> DEFINE of(age) == {age} \X (1..granted[age])
             all == {of(age) : age \in 0..(k - 1)}
  <1>1. k \in Nat /\ k - 1 \in Int /\ 0..(k - 1) \subseteq Ages
    BY RateAssumption DEF Ages
  <1>2. ASSUME NEW age \in 0..(k - 1)
        PROVE  IsFiniteSet(of(age))
    <2>1. granted[age] \in Nat
      BY <1>1 DEF RateTypeOK
    <2>2. IsFiniteSet({age})
      BY FS_Singleton
    <2>3. IsFiniteSet(1..granted[age])
      BY <2>1, FirstNaturals
    <2>4. QED  BY <2>2, <2>3, FS_Product
  <1>3. IsFiniteSet(all)
    <2>1. IsFiniteSet(0..(k - 1))
      BY <1>1, FS_Interval
    <2> DEFINE f == [age \in 0..(k - 1) |-> of(age)]
    <2>2. f \in Surjection(0..(k - 1), all)
      BY DEF Surjection
    <2> HIDE DEF f, all
    <2>3. QED  BY <2>1, <2>2, FS_Surjection
  <1>4. \A g \in all : IsFiniteSet(g)
    BY <1>2
  <1>5. GrantsYounger(k) = UNION all
    BY DEF GrantsYounger
  <1> HIDE DEF all
  <1>6. IsFiniteSet(GrantsYounger(k))
    BY <1>3, <1>4, <1>5, FS_UNION
  <1>7. QED  BY <1>6, FS_CardinalityType

\* What is in it.
LEMMA GrantsMember ==
    ASSUME NEW k \in 0..Window, NEW g
    PROVE  g \in GrantsYounger(k) <=>
              \E age \in 0..(k - 1) : \E i \in 1..granted[age] : g = <<age, i>>
  BY DEF GrantsYounger

LEMMA GrantsGrow ==
    ASSUME RateTypeOK, NEW k \in 0..Window, NEW j \in 0..Window, j <= k
    PROVE  Cardinality(GrantsYounger(j)) <= Cardinality(GrantsYounger(k))
  <1>1. GrantsYounger(j) \subseteq GrantsYounger(k)
    <2>1. \A age \in 0..(j - 1) : age \in 0..(k - 1)
      BY RateAssumption
    <2>2. QED  BY <2>1 DEF GrantsYounger
  <1>2. QED  BY <1>1, GrantsAreFinite, FS_Subset

\* One grant more.
LEMMA OneGrantMore ==
    ASSUME RateTypeOK, RateTypeOK', granted' = [granted EXCEPT ![0] = @ + 1],
           NEW k \in 0..Window
    PROVE  Cardinality(GrantsYounger(k)') =
              IF k = 0 THEN Cardinality(GrantsYounger(k))
                       ELSE Cardinality(GrantsYounger(k)) + 1
  <1> DEFINE new == <<0, granted[0] + 1>>
  <1>1. 0 \in Ages /\ \A age \in Ages : granted[age] \in Nat
    BY RateAssumption DEF Ages, RateTypeOK
  <1>2. \A age \in Ages : granted'[age] = IF age = 0 THEN granted[0] + 1 ELSE granted[age]
    BY <1>1 DEF RateTypeOK
  <1>3. 0..(k - 1) \subseteq Ages
    BY RateAssumption DEF Ages
  <1>4. CASE k = 0
    <2>1. 0..(k - 1) = {}
      BY <1>4
    <2>2. GrantsYounger(k) = {} /\ GrantsYounger(k)' = {}
      BY <2>1 DEF GrantsYounger
    <2>3. QED  BY <1>4, <2>2
  <1>5. CASE k # 0
    <2>1. 0 \in 0..(k - 1)
      BY <1>5, RateAssumption
    <2>2. 1..(granted[0] + 1) = 1..granted[0] \union {granted[0] + 1}
      BY <1>1
    <2>3. GrantsYounger(k)' = GrantsYounger(k) \union {new}
      BY <1>2, <1>3, <2>1, <2>2 DEF GrantsYounger
    <2>4. new \notin GrantsYounger(k)
      <3>1. granted[0] + 1 \notin 1..granted[0]
        BY <1>1
      <3>2. QED  BY <3>1 DEF GrantsYounger
    <2>5. QED  BY <1>5, <2>3, <2>4, GrantsAreFinite, FS_AddElement
  <1>6. QED  BY <1>4, <1>5

\* A tick makes every grant one tick older.
LEMMA GrantsAge ==
    ASSUME RateTypeOK, NEW k \in Ages,
           granted' = [age \in Ages |-> IF age = 0 THEN 0 ELSE granted[age - 1]]
    PROVE  Cardinality(GrantsYounger(k + 1)') = Cardinality(GrantsYounger(k))
  <1> DEFINE f == [g \in GrantsYounger(k) |-> <<g[1] + 1, g[2]>>]
             old == GrantsYounger(k)
             new == GrantsYounger(k + 1)'
  <1>1. k \in Nat /\ k \in 0..Window /\ k + 1 - 1 = k /\ 0..k \subseteq Ages
    BY RateAssumption DEF Ages
  <1>2. \A g : g \in old <=>
           \E age \in 0..(k - 1) : \E i \in 1..granted[age] : g = <<age, i>>
    BY DEF GrantsYounger
  <1>3. \A g : g \in new <=>
           \E age \in 0..k : \E i \in 1..granted'[age] : g = <<age, i>>
    BY <1>1 DEF GrantsYounger
  <1>4. \A age \in 0..(k - 1) : age + 1 \in 0..k /\ granted'[age + 1] = granted[age]
    <2>1. ASSUME NEW age \in 0..(k - 1)
          PROVE  age + 1 \in 0..k /\ age + 1 \in Ages /\ age + 1 # 0 /\ age + 1 - 1 = age
      BY <1>1
    <2>2. QED  BY <2>1
  <1> HIDE DEF old, new
  <1>5. ASSUME NEW g \in old
        PROVE  f[g] \in new
    <2>1. PICK age, i : age \in 0..(k - 1) /\ i \in 1..granted[age] /\ g = <<age, i>>
      BY <1>2
    <2>2. f[g] = <<age + 1, i>>
      BY <2>1 DEF old
    <2>3. age + 1 \in 0..k /\ i \in 1..granted'[age + 1]
      BY <1>4, <2>1
    <2>4. QED  BY <1>3, <2>2, <2>3
  <1>6. ASSUME NEW g \in old, NEW h \in old, f[g] = f[h]
        PROVE  g = h
    <2>1. PICK age, i : age \in 0..(k - 1) /\ i \in 1..granted[age] /\ g = <<age, i>>
      BY <1>2
    <2>2. PICK age2, j : age2 \in 0..(k - 1) /\ j \in 1..granted[age2] /\ h = <<age2, j>>
      BY <1>2
    <2>3. f[g] = <<age + 1, i>> /\ f[h] = <<age2 + 1, j>>
      BY <2>1, <2>2 DEF old
    <2>4. QED  BY <1>1, <1>6, <2>1, <2>2, <2>3
  <1>7. ASSUME NEW h \in new
        PROVE  \E g \in old : f[g] = h
    <2> PICK age \in 0..k : \E i \in 1..granted'[age] : h = <<age, i>>
      BY <1>3
    <2>1. PICK i \in 1..granted'[age] : h = <<age, i>>
      OBVIOUS
    <2>2. age \in Ages
      BY <1>1, <2>1
    <2>3. age # 0
      BY <2>1, <2>2
    <2>4. age - 1 \in 0..(k - 1) /\ age - 1 + 1 = age
      BY <1>1, <2>1, <2>3
    <2>5. granted'[age] = granted[age - 1]
      BY <2>2, <2>3
    <2>6. <<age - 1, i>> \in old
      BY <1>2, <2>1, <2>4, <2>5
    <2>7. f[<<age - 1, i>>] = <<age, i>>
      BY <2>4, <2>6 DEF old
    <2>8. QED  BY <2>1, <2>6, <2>7
  <1>8. f \in Bijection(old, new)
    <2>1. f \in [old -> new]
      BY <1>5 DEF old
    <2> HIDE DEF f
    <2>2. QED  BY <2>1, <1>6, <1>7 DEF Bijection, Injection, Surjection, IsInjective
  <1>9. ExistsBijection(old, new)
    BY <1>8 DEF ExistsBijection
  <1>10. IsFiniteSet(old)
    BY <1>1, GrantsAreFinite DEF old
  <1>11. Cardinality(new) = Cardinality(old)
    BY <1>9, <1>10, FS_Bijection
  <1>12. QED  BY <1>11 DEF old, new

LEMMA InitRate == RateInit => RateInv
  <1> SUFFICES ASSUME RateInit PROVE RateInv
    OBVIOUS
  <1>1. RateTypeOK
    BY RateAssumption DEF RateInit, RateTypeOK, AtRest, Ages
  <1>2. Window \in 0..Window
    BY RateAssumption
  <1>3. GrantsYounger(Window) = {}
    <2>1. \A age \in 0..(Window - 1) : 1..granted[age] = {}
      BY RateAssumption DEF RateInit, Ages
    <2>2. QED  BY <2>1, GrantsMember, <1>2
  <1>4. Cardinality(GrantsYounger(Window)) = 0
    BY <1>3, FS_EmptySet
  <1>5. hits = 0 /\ ttl = 0 /\ promise = 0 /\ Taken = 0
    BY RateAssumption DEF RateInit, Taken
  <1>6. \A k \in Ages : ttl # Window - k
    BY <1>5, RateAssumption DEF Ages
  <1>7. Cardinality(GrantsYounger(Window)) + 1 <= MaxHits + Taken
    BY <1>4, <1>5, RateAssumption
  <1>8. QED  BY <1>1, <1>5, <1>6, <1>7 DEF RateInv, RetryAfterIsEnough

\* What the numbers are.
LEMMA RateNumbers ==
    ASSUME RateInv
    PROVE  /\ Window \in Nat \ {0} /\ MaxHits \in Nat \ {0}
           /\ hits \in 0..(MaxHits + 2) /\ ttl \in 0..Window /\ promise \in 0..Window
           /\ Taken \in 0..MaxHits
           /\ Ages = 0..(Window - 1) /\ Window \in 0..Window
  <1>1. /\ Window \in Nat \ {0} /\ MaxHits \in Nat \ {0}
        /\ hits \in 0..(MaxHits + 2) /\ ttl \in 0..Window /\ promise \in 0..Window
    BY RateAssumption DEF RateInv, RateTypeOK
  <1>2. QED  BY <1>1 DEF Taken, Ages

LEMMA GrantNumbers ==
    ASSUME RateInv
    PROVE  \A k \in 0..Window : Cardinality(GrantsYounger(k)) \in Nat
  BY GrantsAreFinite DEF RateInv

\* The steps that leave the key and the grants alone.
LEMMA RateKeeps ==
    ASSUME RateInv, UNCHANGED <<hits, ttl, granted>>, RateTypeOK', RetryAfterIsEnough'
    PROVE  RateInv'
  <1>1. /\ \A k : GrantsYounger(k)' = GrantsYounger(k)
        /\ Taken' = Taken
    BY DEF GrantsYounger, Taken
  <1>2. QED  BY <1>1 DEF RateInv

LEMMA IncrKeeps ==
    ASSUME RateInv, NEW a \in Attempts, Incr(a)
    PROVE  RateInv'
  <1>1. RateTypeOK /\ 0 \in Ages /\ ttl' = ttl /\ promise' = promise
    BY RateAssumption DEF RateInv, Incr, Ages
  <1>2. hits' = IF hits > MaxHits + 1 THEN hits ELSE hits + 1
    BY DEF Incr
  <1>3. hits' \in 0..(MaxHits + 2) /\ hits' > 0
    BY <1>2, RateNumbers
  <1>4. RateTypeOK'
    <2>1. attempt' \in [Attempts -> [step : {"idle", "incr", "expire", "ttl"},
                                     count : 0..(MaxHits + 2)]]
      BY <1>1, <1>3 DEF Incr, RateTypeOK
    <2>2. granted' \in [Ages -> Nat]
      BY <1>1 DEF Incr, RateTypeOK
    <2>3. QED  BY <1>1, <1>3, <2>1, <2>2 DEF RateTypeOK
  <1>5. RetryAfterIsEnough'
    BY <1>1 DEF RateInv, RetryAfterIsEnough
  <1>6. CASE hits' > MaxHits
    <2>1. granted' = granted
      BY <1>6 DEF Incr, Exceeds
    <2>2. \A k : GrantsYounger(k)' = GrantsYounger(k)
      BY <2>1 DEF GrantsYounger
    <2>3. Taken <= Taken' /\ Taken' \in Nat
      BY <1>2, <1>6, RateNumbers DEF Taken
    <2>4. Cardinality(GrantsYounger(Window)') + 1 <= MaxHits + Taken'
      <3> DEFINE x == Cardinality(GrantsYounger(Window))
      <3>1. x \in Nat
        BY RateNumbers, GrantNumbers
      <3>2. x + 1 <= MaxHits + Taken
        BY DEF RateInv
      <3>3. Cardinality(GrantsYounger(Window)') = x
        BY <2>2
      <3> HIDE DEF x
      <3>4. x + 1 <= MaxHits + Taken'
        BY <2>3, <3>1, <3>2, RateNumbers
      <3>5. QED  BY <3>3, <3>4
    <2>5. ASSUME NEW k \in Ages, ttl' = Window - k
          PROVE  Cardinality(GrantsYounger(k)') + 1 <= Taken'
      <3> DEFINE x == Cardinality(GrantsYounger(k))
      <3>1. x \in Nat
        BY RateNumbers, GrantNumbers
      <3>2. x + 1 <= Taken
        BY <1>1, <2>5 DEF RateInv
      <3>3. Cardinality(GrantsYounger(k)') = x
        BY <2>2
      <3> HIDE DEF x
      <3>4. x + 1 <= Taken'
        BY <2>3, <3>1, <3>2, RateNumbers
      <3>5. QED  BY <3>3, <3>4
    <2>6. QED  BY <1>3, <1>4, <1>5, <2>4, <2>5 DEF RateInv
  <1>7. CASE ~(hits' > MaxHits)
    <2>1. granted' = [granted EXCEPT ![0] = @ + 1]
      BY <1>7 DEF Incr, Exceeds
    <2>2. Taken' = Taken + 1
      BY <1>2, <1>7, RateNumbers DEF Taken
    <2>3. ASSUME NEW k \in 0..Window
          PROVE  Cardinality(GrantsYounger(k)') <= Cardinality(GrantsYounger(k)) + 1
      <3>1. Cardinality(GrantsYounger(k)') =
               IF k = 0 THEN Cardinality(GrantsYounger(k))
                        ELSE Cardinality(GrantsYounger(k)) + 1
        BY <1>1, <1>4, <2>1, OneGrantMore
      <3>2. Cardinality(GrantsYounger(k)) \in Nat
        BY GrantNumbers
      <3>3. QED  BY <3>1, <3>2
    <2>4. \A k \in 0..Window : Cardinality(GrantsYounger(k)') \in Nat
      BY <1>1, <1>4, <2>1, OneGrantMore, GrantNumbers
    <2>5. Cardinality(GrantsYounger(Window)') + 1 <= MaxHits + Taken'
      <3> DEFINE x == Cardinality(GrantsYounger(Window))
                 y == Cardinality(GrantsYounger(Window)')
      <3>1. x \in Nat /\ y \in Nat /\ y <= x + 1
        BY <2>3, <2>4, RateNumbers, GrantNumbers
      <3>2. x + 1 <= MaxHits + Taken
        BY DEF RateInv
      <3> HIDE DEF x, y
      <3>3. MaxHits \in Nat /\ Taken \in Nat
        BY RateNumbers
      <3>4. y + 1 <= MaxHits + Taken'
        BY <2>2, <3>1, <3>2, <3>3
      <3>5. QED  BY <3>4 DEF y
    <2>6. ASSUME NEW k \in Ages, ttl' = Window - k
          PROVE  Cardinality(GrantsYounger(k)') + 1 <= Taken'
      <3> DEFINE x == Cardinality(GrantsYounger(k))
                 y == Cardinality(GrantsYounger(k)')
      <3>1. k \in 0..Window
        BY RateNumbers
      <3>2. x \in Nat /\ y \in Nat /\ y <= x + 1
        BY <2>3, <2>4, <3>1, GrantNumbers
      <3>3. x + 1 <= Taken
        BY <1>1, <2>6 DEF RateInv
      <3> HIDE DEF x, y
      <3>4. Taken \in Nat
        BY RateNumbers
      <3>5. y + 1 <= Taken'
        BY <2>2, <3>2, <3>3, <3>4
      <3>6. QED  BY <3>5 DEF y
    <2>7. QED  BY <1>3, <1>4, <1>5, <2>5, <2>6 DEF RateInv
  <1>8. QED  BY <1>6, <1>7

\* The new TTL starts a window with no age in it.
LEMMA ExpireKeeps ==
    ASSUME RateInv, NEW a \in Attempts, Expire(a)
    PROVE  RateInv'
  <1>1. UNCHANGED <<hits, granted, promise>>
    BY DEF Expire
  <1>2. ttl' = IF hits > 0 /\ ttl = 0 THEN Window ELSE ttl
    BY DEF Expire, TakesTtl
  <1>3. RateTypeOK'
    <2>1. attempt' \in [Attempts -> [step : {"idle", "incr", "expire", "ttl"},
                                     count : 0..(MaxHits + 2)]]
      BY DEF Expire, RateInv, RateTypeOK
    <2>2. ttl' \in 0..Window
      BY <1>2, RateNumbers
    <2>3. QED  BY <1>1, <2>1, <2>2 DEF RateInv, RateTypeOK
  <1>4. CASE ttl' = ttl
    <2>1. RetryAfterIsEnough'
      BY <1>1, <1>4 DEF RateInv, RetryAfterIsEnough
    <2>2. QED  BY <1>1, <1>3, <1>4, <2>1, RateKeeps
  <1>5. CASE ttl' # ttl
    <2>1. ttl = 0 /\ hits > 0 /\ ttl' = Window /\ promise = 0
      <3>1. RetryAfterIsEnough
        BY DEF RateInv
      <3>2. QED  BY <1>2, <1>5, <3>1, RateNumbers DEF RetryAfterIsEnough
    <2>2. /\ \A k : GrantsYounger(k)' = GrantsYounger(k)
          /\ Taken' = Taken /\ Taken > 0
      BY <1>1, <2>1, RateNumbers DEF GrantsYounger, Taken
    <2>3. ASSUME NEW k \in Ages, ttl' = Window - k
          PROVE  Cardinality(GrantsYounger(k)') + 1 <= Taken'
      <3>1. k \in 0..(Window - 1) /\ Window \in Nat /\ Window = Window - k
        BY <2>1, <2>3, RateNumbers
      <3>2. k = 0 /\ 0..(k - 1) = {}
        BY <3>1
      <3>3. GrantsYounger(k) = {}
        BY <3>2 DEF GrantsYounger
      <3>4. Cardinality(GrantsYounger(k)) = 0
        BY <3>3, FS_EmptySet
      <3>5. QED  BY <2>2, <3>4, RateNumbers
    <2>4. RetryAfterIsEnough'
      BY <1>1, <2>1 DEF RetryAfterIsEnough
    <2>5. QED  BY <1>1, <1>3, <2>1, <2>2, <2>3, <2>4 DEF RateInv
  <1>6. QED  BY <1>4, <1>5

LEMMA DecideKeeps ==
    ASSUME RateInv, NEW a \in Attempts, DecideHit(a)
    PROVE  RateInv'
  <1>1. UNCHANGED <<hits, ttl, granted>>
    BY DEF DecideHit
  <1>2. promise' = promise \/ (promise' = ttl /\ ttl > 0)
    BY DEF DecideHit
  <1>3. RateTypeOK'
    <2>1. attempt' \in [Attempts -> [step : {"idle", "incr", "expire", "ttl"},
                                     count : 0..(MaxHits + 2)]]
      BY RateAssumption DEF DecideHit, AtRest, RateInv, RateTypeOK
    <2>2. promise' \in 0..Window
      BY <1>2, RateNumbers
    <2>3. QED  BY <1>1, <2>1, <2>2 DEF RateInv, RateTypeOK
  <1>4. RetryAfterIsEnough'
    <2>1. RetryAfterIsEnough
      BY DEF RateInv
    <2>2. QED  BY <1>1, <1>2, <2>1, RateNumbers DEF RetryAfterIsEnough
  <1>5. QED  BY <1>1, <1>3, <1>4, RateKeeps

LEMMA TickKeeps ==
    ASSUME RateInv, Tick
    PROVE  RateInv'
  <1>1. /\ hits' = IF ttl = 1 THEN 0 ELSE hits
        /\ ttl' = IF ttl = 0 THEN 0 ELSE ttl - 1
        /\ promise' = IF ttl = 1 \/ promise = 0 THEN 0 ELSE promise - 1
        /\ attempt' = attempt
    BY DEF Tick
  <1>2. granted' = [age \in Ages |-> IF age = 0 THEN 0 ELSE granted[age - 1]]
    BY DEF Tick
  <1>3. RateTypeOK /\ RateTypeOK'
    <2>1. hits' \in 0..(MaxHits + 2) /\ ttl' \in 0..Window /\ promise' \in 0..Window
      <3>1. /\ hits \in 0..(MaxHits + 2) /\ ttl \in 0..Window /\ promise \in 0..Window
            /\ Window \in Nat /\ MaxHits \in Nat
        BY RateNumbers
      <3>2. hits' \in 0..(MaxHits + 2)
        BY <1>1, <3>1
      <3>3. ttl' \in 0..Window
        BY <1>1, <3>1
      <3>4. promise' \in 0..Window
        BY <1>1, <3>1
      <3>5. QED  BY <3>2, <3>3, <3>4
    <2>2. \A age \in Ages : (IF age = 0 THEN 0 ELSE granted[age - 1]) \in Nat
      <3>1. \A age \in Ages : age # 0 => age - 1 \in Ages
        BY RateAssumption DEF Ages
      <3>2. QED  BY <3>1 DEF RateInv, RateTypeOK
    <2>3. granted' \in [Ages -> Nat]
      BY <1>2, <2>2
    <2>4. QED  BY <1>1, <2>1, <2>3 DEF RateInv, RateTypeOK
  <1>4. ASSUME NEW k \in Ages
        PROVE  Cardinality(GrantsYounger(k + 1)') = Cardinality(GrantsYounger(k))
    BY <1>2, <1>3, GrantsAge
  <1> DEFINE w == Window - 1
  <1>5. w \in Ages /\ w + 1 = Window /\ w \in 0..Window /\ w <= Window
    BY RateNumbers
  <1>6. Cardinality(GrantsYounger(Window)') = Cardinality(GrantsYounger(w))
    BY <1>4, <1>5
  <1>7. Cardinality(GrantsYounger(w)) <= Cardinality(GrantsYounger(Window))
    BY <1>3, <1>5, GrantsGrow, RateNumbers
  <1> HIDE DEF w
  <1>8. Cardinality(GrantsYounger(Window)') + 1 <= MaxHits + Taken'
    <2>1. CASE ttl = 1
      <3> DEFINE x == Cardinality(GrantsYounger(w))
      <3>1. ttl = Window - w
        BY <1>5, <2>1, RateNumbers
      <3>2. x + 1 <= Taken
        BY <1>5, <3>1 DEF RateInv
      <3>3. Taken' = 0 /\ Taken \in 0..MaxHits /\ MaxHits \in Nat
        BY <1>1, <2>1, RateNumbers DEF Taken
      <3>4. x \in Nat
        BY <1>5, GrantNumbers
      <3> HIDE DEF x
      <3>5. x + 1 <= MaxHits + Taken'
        BY <3>2, <3>3, <3>4
      <3>6. QED  BY <1>6, <3>5 DEF x
    <2>2. CASE ttl # 1
      <3>1. Taken' = Taken
        BY <1>1, <2>2 DEF Taken
      <3>2. Cardinality(GrantsYounger(Window)) + 1 <= MaxHits + Taken
        BY DEF RateInv
      <3>3. /\ Cardinality(GrantsYounger(w)) \in Nat
            /\ Cardinality(GrantsYounger(Window)) \in Nat
            /\ MaxHits \in Nat /\ Taken \in Nat
        BY <1>5, RateNumbers, GrantNumbers
      <3>4. QED  BY <1>6, <1>7, <3>1, <3>2, <3>3
    <2>3. QED  BY <2>1, <2>2
  <1>9. ASSUME NEW k \in Ages, ttl' = Window - k
        PROVE  Cardinality(GrantsYounger(k)') + 1 <= Taken'
    <2>1. ttl > 1 /\ k - 1 \in Ages /\ ttl = Window - (k - 1) /\ k - 1 + 1 = k
      <3>1. /\ Window \in Nat /\ k \in 0..(Window - 1) /\ ttl \in 0..Window
            /\ Ages = 0..(Window - 1)
        BY RateNumbers
      <3>2. (IF ttl = 0 THEN 0 ELSE ttl - 1) = Window - k
        BY <1>1, <1>9
      <3>3. ttl > 1 /\ ttl = Window - k + 1 /\ k > 0
        BY <3>1, <3>2
      <3>4. QED  BY <3>1, <3>3
    <2>2. Cardinality(GrantsYounger(k - 1)) + 1 <= Taken
      BY <2>1 DEF RateInv
    <2>3. Cardinality(GrantsYounger(k)') = Cardinality(GrantsYounger(k - 1))
      BY <1>4, <2>1
    <2>4. Taken' = Taken
      BY <1>1, <2>1 DEF Taken
    <2>5. QED  BY <2>2, <2>3, <2>4
  <1>10. RetryAfterIsEnough' /\ (ttl' > 0 => hits' > 0)
    <2>1. RetryAfterIsEnough /\ (ttl > 0 => hits > 0)
      BY DEF RateInv
    <2>2. hits \in Nat /\ ttl \in Nat /\ promise \in Nat
      BY RateNumbers
    <2>3. RetryAfterIsEnough'
      BY <1>1, <2>1, <2>2 DEF RetryAfterIsEnough
    <2>4. ttl' > 0 => hits' > 0
      BY <1>1, <2>1, <2>2
    <2>5. QED  BY <2>3, <2>4
  <1>11. QED  BY <1>3, <1>8, <1>9, <1>10 DEF RateInv

LEMMA NextRate == RateInv /\ [RateNext]_rateVars => RateInv'
  <1> SUFFICES ASSUME RateInv, [RateNext]_rateVars PROVE RateInv'
    OBVIOUS
  <1>1. ASSUME NEW a \in Attempts, Arrive(a) \/ FailClosed(a)
        PROVE  RateInv'
    <2>1. UNCHANGED <<hits, ttl, granted, promise>>
      BY <1>1 DEF Arrive, FailClosed
    <2>2. attempt' \in [Attempts -> [step : {"idle", "incr", "expire", "ttl"},
                                     count : 0..(MaxHits + 2)]]
      BY <1>1, RateAssumption DEF Arrive, FailClosed, AtRest, RateInv, RateTypeOK
    <2>3. RateTypeOK' /\ RetryAfterIsEnough'
      BY <2>1, <2>2 DEF RateInv, RateTypeOK, RetryAfterIsEnough
    <2>4. QED  BY <2>1, <2>3, RateKeeps
  <1>2. CASE UNCHANGED rateVars
    <2>1. RateTypeOK' /\ RetryAfterIsEnough'
      BY <1>2 DEF rateVars, RateInv, RateTypeOK, RetryAfterIsEnough
    <2>2. QED  BY <1>2, <2>1, RateKeeps DEF rateVars
  <1>3. QED
    BY <1>1, <1>2, IncrKeeps, ExpireKeeps, DecideKeeps, TickKeeps DEF RateNext

\* The limiter's invariant.
THEOREM RateInvariance == RateSpec => []RateInv
  BY InitRate, NextRate, PTL DEF RateSpec

\* RateLimit's types, for any window and any maximum.
THEOREM RateTypeCorrect == RateSpec => []RateTypeOK
  <1>1. RateInv => RateTypeOK
    BY DEF RateInv
  <1>2. QED  BY <1>1, RateInvariance, PTL

\* The bucket grants fewer than twice its maximum in any window's length, for
\* any maximum, any length and any number of requests in flight.
THEOREM BurstsAreBounded == RateSpec => []BurstBounded
  <1>1. RateInv => BurstBounded
    <2> SUFFICES ASSUME RateInv PROVE BurstBounded
      OBVIOUS
    <2>1. Cardinality(GrantsYounger(Window)) + 1 <= MaxHits + Taken
      BY DEF RateInv
    <2>2. /\ Cardinality(GrantsYounger(Window)) \in Nat
          /\ MaxHits \in Nat \ {0} /\ Taken \in 0..MaxHits
      BY RateNumbers, GrantNumbers
    <2>3. QED  BY <2>1, <2>2 DEF BurstBounded
  <1>2. QED  BY <1>1, RateInvariance, PTL

\* Whoever waits for the time he was told finds a new window.
THEOREM WaitingIsEnough == RateSpec => []RetryAfterIsEnough
  <1>1. RateInv => RetryAfterIsEnough
    BY DEF RateInv
  <1>2. QED  BY <1>1, RateInvariance, PTL

-------------------------------------------------------------------------------
(***************************************************************************)
(* TranslationCache.  A toggle that has missed the cache may insert one    *)
(* row, and once a row is there no other toggle misses it: the rows of a   *)
(* body and the toggles that may still insert are bounded together.        *)
(***************************************************************************)

Missed == {"headers", "body", "insert"}

TogglesOf(i) == {t \in Toggles : TextOf[t] = i}

Waiting(i) == {t \in TogglesOf(i) : request[t] \in Missed}

RowsInv ==
    /\ TrTypeOK
    /\ \A i \in Items :
          IF i \in Comments THEN rows[i] <= 1
          ELSE rows[i] + Cardinality(Waiting(i)) <= Cardinality(TogglesOf(i))

LEMMA TogglesAreFinite ==
    ASSUME NEW i
    PROVE  /\ IsFiniteSet(TogglesOf(i)) /\ IsFiniteSet(Waiting(i))
           /\ Cardinality(TogglesOf(i)) \in Nat /\ Cardinality(Waiting(i)) \in Nat
           /\ Cardinality(Waiting(i)) <= Cardinality(TogglesOf(i))
  <1>1. TogglesOf(i) \subseteq Toggles /\ IsFiniteSet(Toggles)
    BY TranslationAssumption DEF TogglesOf
  <1>2. IsFiniteSet(TogglesOf(i))
    BY <1>1, FS_Subset
  <1>3. Waiting(i) \subseteq TogglesOf(i)
    BY DEF Waiting
  <1>4. IsFiniteSet(Waiting(i)) /\ Cardinality(Waiting(i)) <= Cardinality(TogglesOf(i))
    BY <1>2, <1>3, FS_Subset
  <1>5. QED  BY <1>2, <1>4, FS_CardinalityType

LEMMA InitRows == TrInit => RowsInv
  <1> SUFFICES ASSUME TrInit PROVE RowsInv
    OBVIOUS
  <1>1. TrTypeOK
    BY DEF TrInit, TrTypeOK, Mode, Step
  <1>2. \A i \in Items : rows[i] = 0
    BY DEF TrInit
  <1>3. QED  BY <1>1, <1>2, TogglesAreFinite DEF RowsInv

\* The steps that make no toggle miss the cache, and insert nothing.
LEMMA NoMiss ==
    ASSUME RowsInv, TrTypeOK', rows' = rows,
           \A t \in Toggles : request'[t] \in Missed => request[t] \in Missed
    PROVE  RowsInv'
  <1>1. ASSUME NEW i \in Items, i \notin Comments
        PROVE  rows'[i] + Cardinality(Waiting(i)') <= Cardinality(TogglesOf(i))
    <2>1. Waiting(i)' \subseteq Waiting(i) /\ IsFiniteSet(Waiting(i))
      BY TogglesAreFinite DEF Waiting, TogglesOf
    <2>2. /\ Cardinality(Waiting(i)') <= Cardinality(Waiting(i))
          /\ Cardinality(Waiting(i)') \in Nat
      BY <2>1, FS_Subset, FS_CardinalityType
    <2>3. rows[i] \in Nat /\ rows'[i] = rows[i]
      BY DEF RowsInv, TrTypeOK
    <2>4. rows[i] + Cardinality(Waiting(i)) <= Cardinality(TogglesOf(i))
      BY <1>1 DEF RowsInv
    <2>5. Cardinality(Waiting(i)) \in Nat /\ Cardinality(TogglesOf(i)) \in Nat
      BY TogglesAreFinite
    <2>6. QED  BY <2>2, <2>3, <2>4, <2>5
  <1>2. \A i : TogglesOf(i)' = TogglesOf(i)
    BY DEF TogglesOf
  <1>3. QED  BY <1>1, <1>2 DEF RowsInv

\* Lookup: a miss finds no row, so nothing has been counted yet.
LEMMA LookupKeepsRows ==
    ASSUME RowsInv, NEW t \in Toggles, Lookup(t)
    PROVE  RowsInv'
  <1>1. rows' = rows /\ mode' = mode
    BY DEF Lookup
  <1>2. request' = [request EXCEPT ![t] = IF rows[TextOf[t]] > 0 THEN "hit" ELSE "headers"]
    BY DEF Lookup, Move
  <1>3. TrTypeOK'
    BY <1>1, <1>2 DEF RowsInv, TrTypeOK, Step
  <1>4. CASE rows[TextOf[t]] > 0
    BY <1>1, <1>2, <1>3, <1>4, NoMiss DEF RowsInv, TrTypeOK, Missed
  <1>5. CASE ~(rows[TextOf[t]] > 0)
    <2>1. ASSUME NEW i \in Items, i \notin Comments
          PROVE  rows'[i] + Cardinality(Waiting(i)') <= Cardinality(TogglesOf(i)')
      <3>1. rows[i] \in Nat
        BY DEF RowsInv, TrTypeOK
      <3>2. CASE i = TextOf[t]
        <4>1. rows'[i] = 0
          BY <1>1, <1>5, <3>1, <3>2
        <4>2. /\ Cardinality(Waiting(i)') <= Cardinality(TogglesOf(i)')
              /\ Cardinality(Waiting(i)') \in Nat
          <5>1. /\ IsFiniteSet(TogglesOf(i)')
                /\ Waiting(i)' \subseteq TogglesOf(i)'
            BY TogglesAreFinite DEF Waiting, TogglesOf
          <5>2. QED  BY <5>1, FS_Subset, FS_CardinalityType
        <4>3. QED  BY <4>1, <4>2
      <3>3. CASE i # TextOf[t]
        <4>1. Waiting(i)' = Waiting(i) /\ TogglesOf(i)' = TogglesOf(i)
          BY <1>2, <3>3 DEF RowsInv, TrTypeOK, Waiting, TogglesOf
        <4>2. QED  BY <1>1, <2>1, <4>1 DEF RowsInv
      <3>4. QED  BY <3>2, <3>3
    <2>2. QED  BY <1>1, <1>3, <2>1 DEF RowsInv
  <1>6. QED  BY <1>4, <1>5

\* Insert: one row more, one waiting toggle less.
LEMMA InsertKeepsRows ==
    ASSUME RowsInv, NEW t \in Toggles, Insert(t)
    PROVE  RowsInv'
  <1> DEFINE text == TextOf[t]
             n == IF text \in Comments /\ rows[text] > 0 THEN rows[text] ELSE rows[text] + 1
  <1>1. request[t] = "insert" /\ request' = [request EXCEPT ![t] = "hit"] /\ mode' = mode
    BY DEF Insert, Move
  <1>2. text \in Items /\ rows[text] \in Nat /\ n \in Nat
    BY TranslationAssumption DEF RowsInv, TrTypeOK
  <1>3. rows' = [rows EXCEPT ![text] = n]
    BY DEF Insert
  <1> HIDE DEF n
  <1>4. TrTypeOK'
    BY <1>1, <1>2, <1>3 DEF RowsInv, TrTypeOK, Step
  <1>5. ASSUME NEW i \in Items, i \in Comments
        PROVE  rows'[i] <= 1
    <2>1. rows[i] \in Nat /\ rows[i] <= 1
      BY <1>5 DEF RowsInv, TrTypeOK
    <2>2. CASE i = text
      BY <1>2, <1>3, <1>5, <2>1, <2>2 DEF n, RowsInv, TrTypeOK
    <2>3. CASE i # text
      BY <1>3, <2>1, <2>3 DEF RowsInv, TrTypeOK
    <2>4. QED  BY <2>2, <2>3
  <1>6. ASSUME NEW i \in Items, i \notin Comments
        PROVE  rows'[i] + Cardinality(Waiting(i)') <= Cardinality(TogglesOf(i)')
    <2>1. /\ rows[i] \in Nat
          /\ rows[i] + Cardinality(Waiting(i)) <= Cardinality(TogglesOf(i))
      BY <1>6 DEF RowsInv, TrTypeOK
    <2>2. TogglesOf(i)' = TogglesOf(i)
      BY DEF TogglesOf
    <2>3. CASE i = text
      <3>1. rows'[i] = rows[i] + 1
        BY <1>2, <1>3, <1>6, <2>3 DEF n, RowsInv, TrTypeOK
      <3>2. Waiting(i)' = Waiting(i) \ {t} /\ t \in Waiting(i)
        BY <1>1, <2>3 DEF RowsInv, TrTypeOK, Waiting, TogglesOf, Missed
      <3>3. Cardinality(Waiting(i)') = Cardinality(Waiting(i)) - 1
        BY <3>2, TogglesAreFinite, FS_RemoveElement
      <3>4. Cardinality(Waiting(i)) \in Nat /\ Cardinality(TogglesOf(i)) \in Nat
        BY TogglesAreFinite
      <3>5. QED  BY <2>1, <2>2, <3>1, <3>3, <3>4
    <2>4. CASE i # text
      <3>1. Waiting(i)' = Waiting(i)
        BY <1>1, <2>4 DEF RowsInv, TrTypeOK, Waiting, TogglesOf
      <3>2. rows'[i] = rows[i]
        BY <1>3, <2>4 DEF RowsInv, TrTypeOK
      <3>3. QED  BY <2>1, <2>2, <3>1, <3>2
    <2>5. QED  BY <2>3, <2>4
  <1>7. QED  BY <1>4, <1>5, <1>6 DEF RowsInv

LEMMA NextRows == RowsInv /\ [TrNext]_trVars => RowsInv'
  <1> SUFFICES ASSUME RowsInv, [TrNext]_trVars PROVE RowsInv'
    OBVIOUS
  <1> USE DEF RowsInv, TrTypeOK, Missed
  <1>1. ASSUME NEW t \in Toggles, RequestTranslation(t)
        PROVE  RowsInv'
    <2>1. TrTypeOK' /\ rows' = rows
      BY <1>1 DEF RequestTranslation, Move, Mode, Step
    <2>2. QED  BY <1>1, <2>1, NoMiss DEF RequestTranslation, Move
  <1>2. ASSUME NEW t \in Toggles, ShowOriginal(t)
        PROVE  RowsInv'
    <2>1. TrTypeOK' /\ rows' = rows /\ request' = request
      BY <1>2 DEF ShowOriginal, Mode
    <2>2. QED  BY <2>1, NoMiss
  <1>3. ASSUME NEW t \in Toggles, Receive(t)
        PROVE  RowsInv'
    <2>1. TrTypeOK' /\ rows' = rows
      BY <1>3 DEF Receive, Move, Mode, Step
    <2>2. QED  BY <1>3, <2>1, NoMiss DEF Receive, Move
  <1>4. ASSUME NEW t \in Toggles, Throttle(t) \/ Admit(t) \/ Abort(t) \/ QueryFails(t)
        PROVE  RowsInv'
    <2>1. TrTypeOK' /\ rows' = rows
      BY <1>4 DEF Throttle, Admit, Abort, QueryFails, Move, Step
    <2>2. QED  BY <1>4, <2>1, NoMiss DEF Throttle, Admit, Abort, QueryFails, Move
  <1>5. ASSUME NEW t \in Toggles, Headers(t) \/ ReadBody(t)
        PROVE  RowsInv'
    <2>1. TrTypeOK' /\ rows' = rows
      BY <1>5 DEF Headers, ReadBody, Move, Step
    <2>2. QED  BY <1>5, <2>1, NoMiss DEF Headers, ReadBody, Move
  <1>6. CASE UNCHANGED trVars
    <2>1. TrTypeOK' /\ rows' = rows /\ request' = request
      BY <1>6 DEF trVars
    <2>2. QED  BY <2>1, NoMiss
  <1>7. QED
    BY <1>1, <1>2, <1>3, <1>4, <1>5, <1>6, LookupKeepsRows, InsertKeepsRows DEF TrNext

\* The cache's invariant.
THEOREM RowsInvariance == TrSpec => []RowsInv
  BY InitRows, NextRows, PTL DEF TrSpec

\* TranslationCache's types.
THEOREM RowsTypeCorrect == TrSpec => []TrTypeOK
  <1>1. RowsInv => TrTypeOK
    BY DEF RowsInv
  <1>2. QED  BY <1>1, RowsInvariance, PTL

\* A comment has one row at most and a body one for each of its toggles, for any
\* toggles however their requests overlap.
THEOREM CacheIsBounded == TrSpec => []RowsBounded
  <1>1. RowsInv => RowsBounded
    <2> SUFFICES ASSUME RowsInv, NEW i \in Items
                 PROVE  rows[i] <= IF i \in Comments THEN 1
                                   ELSE Cardinality({t \in Toggles : TextOf[t] = i})
      BY DEF RowsBounded
    <2>1. CASE i \in Comments
      BY <2>1 DEF RowsInv
    <2>2. CASE i \notin Comments
      <3>1. rows[i] + Cardinality(Waiting(i)) <= Cardinality(TogglesOf(i))
        BY <2>2 DEF RowsInv
      <3>2. rows[i] \in Nat
        BY DEF RowsInv, TrTypeOK
      <3>3. rows[i] <= Cardinality(TogglesOf(i))
        BY <3>1, <3>2, TogglesAreFinite
      <3>4. QED  BY <2>2, <3>3 DEF TogglesOf
    <2>3. QED  BY <2>1, <2>2
  <1>2. QED  BY <1>1, RowsInvariance, PTL

-------------------------------------------------------------------------------
(***************************************************************************)
(* PostPage.  A comment whose status stays is answered by the query of     *)
(* that status, unless the limit cuts it off, and by no other, whatever    *)
(* the others do in between.                                               *)
(***************************************************************************)

PageInv ==
    /\ PageTypeOK
    /\ \A c \in settled : \A s \in asked :
          IF s = commentStatus[c] THEN c \in fetched[s] \/ CutOff(c, s)
                                  ELSE c \notin fetched[s]
    /\ page = "rendered" => asked = Statuses

\* The page shows every visible comment: from a comment that it does not show
\* the parents lead upwards for ever, among finitely many comments.
LEMMA VisibleIsRendered ==
    ASSUME VisibleIds \subseteq PageComments
    PROVE  VisibleIds \subseteq Rendered
  <1> SUFFICES ASSUME NEW shown \in SUBSET VisibleIds,
                      Roots \subseteq shown, Children(shown) \subseteq shown
               PROVE  VisibleIds \subseteq shown
    BY DEF Rendered
  <1> DEFINE lost == VisibleIds \ shown
  <1>1. SUFFICES ASSUME lost # {} PROVE FALSE
    OBVIOUS
  <1>2. PICK c \in lost : ParentOf[c] \notin lost
    BY <1>1, PageAssumption
  <1>3. CASE ParentOf[c] \in VisibleIds
    BY <1>2, <1>3 DEF Children
  <1>4. CASE ParentOf[c] \notin VisibleIds
    BY <1>2, <1>4 DEF Roots
  <1>5. QED  BY <1>3, <1>4

LEMMA StatusNames ==
    Statuses = {"published", "pending_ai", "pending_review", "rejected", "withdrawn"}
  BY DEF Statuses, statuses

LEMMA PositionOfStatus ==
    ASSUME NEW s \in Statuses
    PROVE  Position(s) \in DOMAIN statuses /\ statuses[Position(s)] = s
  <1>1. \E i \in DOMAIN statuses : statuses[i] = s
    BY DEF Statuses
  <1>2. QED  BY <1>1 DEF Position

LEMMA PositionIsNat ==
    ASSUME NEW s \in Statuses
    PROVE  Position(s) \in Nat
  <1>1. statuses \in Seq({"published", "pending_ai", "pending_review", "rejected",
                          "withdrawn"})
    BY DEF statuses
  <1> HIDE DEF statuses
  <1>2. QED  BY <1>1, PositionOfStatus

\* Each comment is shown in one status.
LEMMA OneRowEach ==
    ASSUME PageTypeOK
    PROVE  /\ VisibleIds \subseteq PageComments
           /\ Cardinality(Visible) = Cardinality(VisibleIds)
  <1> DEFINE f == [entry \in Visible |-> entry[1]]
  <1>1. \A entry \in Visible :
           /\ entry[1] \in PageComments /\ entry[2] \in Statuses
           /\ entry = <<entry[1], entry[2]>>
           /\ entry \in Unique
    BY DEF Visible, Unique
  <1>2. VisibleIds \subseteq PageComments
    BY <1>1 DEF VisibleIds
  <1>3. ASSUME NEW e1 \in Visible, NEW e2 \in Visible, e1[1] = e2[1]
        PROVE  e1 = e2
    <2>1. Position(e1[2]) <= Position(e2[2]) /\ Position(e2[2]) <= Position(e1[2])
      BY <1>1, <1>3 DEF Unique
    <2>2. Position(e1[2]) = Position(e2[2])
      BY <1>1, <2>1, PositionIsNat
    <2>3. e1[2] = e2[2]
      BY <1>1, <2>2, PositionOfStatus
    <2>4. QED  BY <1>1, <1>3, <2>3
  <1>4. f \in [Visible -> VisibleIds]
    BY DEF VisibleIds
  <1>5. f \in Injection(Visible, VisibleIds)
    BY <1>3, <1>4 DEF Injection, IsInjective
  <1>6. f \in Surjection(Visible, VisibleIds)
    BY <1>4 DEF Surjection, VisibleIds
  <1>7. IsFiniteSet(VisibleIds)
    BY <1>2, PageAssumption, FS_Subset
  <1> HIDE DEF f
  <1>8. QED  BY <1>2, <1>5, <1>6, <1>7, FS_Injection

\* A query leaves a row out only when it is full.
LEMMA OldestFirst ==
    ASSUME NEW stored \in SUBSET PageComments, NEW first \in Oldest(stored),
           NEW c \in stored \ first
    PROVE  /\ Cardinality(first) = CommentLimit
           /\ \A d \in first : CreatedAt[d] <= CreatedAt[c]
  <1>1. IsFiniteSet(stored) /\ first \in SUBSET stored
    BY PageAssumption, FS_Subset DEF Oldest
  <1>2. Cardinality(first) # Cardinality(stored)
    BY <1>1, FS_Subset
  <1>3. QED  BY <1>2 DEF Oldest

LEMMA InitThread == PageInit => PageInv
  BY DEF PageInit, PageInv, PageTypeOK

LEMMA NextThread == PageInv /\ [PageNext]_pageVars => PageInv'
  <1> SUFFICES ASSUME PageInv, [PageNext]_pageVars PROVE PageInv'
    OBVIOUS
  <1>1. CASE Render
    BY <1>1 DEF Render, PageInv, PageTypeOK, CutOff
  <1>2. ASSUME NEW s \in Statuses, ListComments(s)
        PROVE  PageInv'
    <2> DEFINE stored == {c \in PageComments : commentStatus[c] = s}
    <2>1. PICK first \in Oldest(stored) : fetched' = [fetched EXCEPT ![s] = first]
      BY <1>2 DEF ListComments
    <2>2. /\ page = "fetching" /\ asked' = asked \union {s} /\ s \notin asked
          /\ UNCHANGED <<commentStatus, viewerIsMod, page, settled>>
      BY <1>2 DEF ListComments
    <2>3. stored \in SUBSET PageComments /\ first \subseteq stored
      BY DEF Oldest
    <2>4. /\ fetched \in [Statuses -> SUBSET PageComments]
          /\ settled \subseteq PageComments /\ asked \subseteq Statuses
      BY DEF PageInv, PageTypeOK
    <2>5. \A r \in Statuses : fetched'[r] = IF r = s THEN first ELSE fetched[r]
      BY <2>1, <2>4
    <2>6. PageTypeOK'
      BY <2>1, <2>2, <2>3, <2>4 DEF PageInv, PageTypeOK
    <2>7. ASSUME NEW c \in settled, NEW r \in asked \union {s}
          PROVE  IF r = commentStatus[c] THEN c \in fetched'[r] \/ CutOff(c, r)'
                                         ELSE c \notin fetched'[r]
      <3>1. c \in PageComments /\ r \in Statuses
        BY <2>4
      <3>2. CASE r = s
        <4>1. fetched'[r] = first
          BY <2>5, <3>1, <3>2
        <4>2. CASE c \in stored \ first
          BY <3>2, <4>1, <4>2, <2>3, OldestFirst DEF CutOff
        <4>3. CASE c \in first \/ c \notin stored
          BY <2>3, <3>1, <3>2, <4>1, <4>3
        <4>4. QED  BY <4>2, <4>3
      <3>3. CASE r # s
        <4>1. fetched'[r] = fetched[r] /\ r \in asked
          BY <2>5, <3>1, <3>3
        <4>2. QED  BY <4>1 DEF PageInv, CutOff
      <3>4. QED  BY <3>2, <3>3
    <2>8. QED  BY <2>2, <2>6, <2>7 DEF PageInv
  <1>3. ASSUME NEW c \in PageComments, ChangeComment(c)
        PROVE  PageInv'
    <2>1. PICK s \in Moves(commentStatus[c]) :
             commentStatus' = [commentStatus EXCEPT ![c] = s]
      BY <1>3 DEF ChangeComment
    <2>2. s \in Statuses
      <3>1. Moves(commentStatus[c]) \subseteq {"published", "pending_review", "rejected",
                                               "withdrawn"}
        <4>1. commentStatus[c] \in Statuses
          BY DEF PageInv, PageTypeOK
        <4>2. Statuses = {"published", "pending_ai", "pending_review", "rejected",
                          "withdrawn"}
          BY StatusNames
        <4>3. QED  BY <4>1, <4>2 DEF Moves
      <3>2. QED  BY <3>1, StatusNames
    <2>3. /\ page = "fetching" /\ settled' = settled \ {c}
          /\ UNCHANGED <<viewerIsMod, page, asked, fetched>>
      BY <1>3 DEF ChangeComment
    <2>4. PageTypeOK'
      BY <2>1, <2>2, <2>3 DEF PageInv, PageTypeOK
    <2>5. \A d \in settled' : d \in settled /\ commentStatus'[d] = commentStatus[d]
      BY <2>1, <2>3 DEF PageInv, PageTypeOK
    <2>6. QED  BY <2>3, <2>4, <2>5 DEF PageInv, CutOff
  <1>4. CASE UNCHANGED pageVars
    BY <1>4 DEF pageVars, PageInv, PageTypeOK, CutOff
  <1>5. QED  BY <1>1, <1>2, <1>3, <1>4 DEF PageNext

\* The thread's invariant.
THEOREM PageInvariance == PageSpec => []PageInv
  BY InitThread, NextThread, PTL DEF PageSpec

\* PostPage's types.
THEOREM PageTypeCorrect == PageSpec => []PageTypeOK
  <1>1. PageInv => PageTypeOK
    BY DEF PageInv
  <1>2. QED  BY <1>1, PageInvariance, PTL

\* Of the comments that kept their status the thread loses none but those that
\* come after CommentLimit others in the query of their status, and it doubles
\* none, for any comments, any shape of the thread, any limit and any viewer.
THEOREM ThreadsAreFaithful == PageSpec => []ThreadIsFaithful
  <1>1. PageInv => ThreadIsFaithful
    <2> SUFFICES ASSUME PageInv, page = "rendered"
                 PROVE  /\ \A c \in settled :
                              isCommentVisible(c, commentStatus[c]) =>
                                 \/ c \in Rendered /\ <<c, commentStatus[c]>> \in Visible
                                 \/ c \notin VisibleIds /\ CutOff(c, commentStatus[c])
                        /\ Cardinality(Visible) = Cardinality(VisibleIds)
      BY DEF ThreadIsFaithful
    <2>1. PageTypeOK /\ asked = Statuses
      BY DEF PageInv
    <2>2. ASSUME NEW c \in settled, isCommentVisible(c, commentStatus[c])
          PROVE  \/ c \in Rendered /\ <<c, commentStatus[c]>> \in Visible
                 \/ c \notin VisibleIds /\ CutOff(c, commentStatus[c])
      <3> DEFINE s == commentStatus[c]
      <3>1. c \in PageComments /\ s \in Statuses
        BY <2>1 DEF PageTypeOK
      <3>2. /\ \A r \in Statuses \ {s} : c \notin fetched[r]
            /\ c \in fetched[s] \/ CutOff(c, s)
        BY <2>1, <3>1 DEF PageInv
      <3>3. CASE c \in fetched[s]
        <4>1. <<c, s>> \in Unique
          BY <3>1, <3>2, <3>3, PositionIsNat DEF Unique
        <4>2. <<c, s>> \in Visible
          BY <2>2, <4>1 DEF Visible
        <4>3. c \in VisibleIds
          BY <4>2 DEF VisibleIds
        <4>4. QED  BY <2>1, <4>2, <4>3, OneRowEach, VisibleIsRendered
      <3>4. CASE c \notin fetched[s]
        <4>1. \A r \in Statuses : c \notin fetched[r]
          BY <3>2, <3>4
        <4>2. c \notin VisibleIds
          BY <4>1 DEF VisibleIds, Visible, Unique
        <4>3. QED  BY <3>2, <3>4, <4>2
      <3>5. QED  BY <3>3, <3>4
    <2>3. QED  BY <2>1, <2>2, OneRowEach
  <1>2. QED  BY <1>1, PageInvariance, PTL

-------------------------------------------------------------------------------
(***************************************************************************)
(* PostForm.  The goals: each is selected once, and the primary one is     *)
(* selected as soon as any is.  The preview: while no edit has fallen into *)
(* a rendering, whatever is rendered or being rendered is the body.        *)
(***************************************************************************)

GoalsInv ==
    /\ IsInjective(selected)
    /\ selected = <<>> => primary = NoSdg
    /\ selected # <<>> => primary \in ToSet(selected)

PreviewInv ==
    ~overlapped =>
        /\ \A r \in Renders : render[r].busy => render[r].body = body
        /\ previewRendered \/ tab = "preview" => previewHtml = body

FormInv == FormTypeOK /\ GoalsInv /\ PreviewInv

\* The goal that a list without goals, or any other, begins with.
LEMMA FirstProperties ==
    ASSUME NEW list \in Seq(Sdgs)
    PROVE  /\ list = <<>> => FirstOf(list) = NoSdg
           /\ list # <<>> => FirstOf(list) \in ToSet(list)
           /\ FirstOf(list) \in Sdgs \union {NoSdg}
  <1>1. list # <<>> => 1 \in DOMAIN list /\ Head(list) = list[1] /\ list[1] \in Sdgs
    OBVIOUS
  <1>2. QED  BY <1>1 DEF FirstOf, ToSet

LEMMA InitForm == FormInit => FormInv
  <1> SUFFICES ASSUME FormInit PROVE FormInv
    OBVIOUS
  <1>1. selected = GroupSdgs /\ primary = FirstOf(GroupSdgs)
    BY DEF FormInit, FirstOf
  <1>2. GoalsInv /\ selected \in Seq(Sdgs) /\ primary \in Sdgs \union {NoSdg}
    BY <1>1, FormAssumption, FirstProperties DEF GoalsInv
  <1>3. FormTypeOK
    <2>1. 0 \in 0..MaxEdits
      BY FormAssumption
    <2>2. Idle \in [busy : BOOLEAN, body : 0..MaxEdits]
      BY <2>1 DEF Idle
    <2>3. render \in [Renders -> [busy : BOOLEAN, body : 0..MaxEdits]]
      BY <2>2 DEF FormInit
    <2>4. /\ tab \in {"write", "preview"}
          /\ body \in 0..MaxEdits
          /\ previewHtml \in 0..MaxEdits
          /\ previewRendered \in BOOLEAN
          /\ overlapped \in BOOLEAN
      BY <2>1 DEF FormInit
    <2>5. QED  BY <1>1, <1>2, <2>3, <2>4 DEF FormTypeOK
  <1>4. PreviewInv
    <2>1. \A r \in Renders : ~render[r].busy
      BY DEF FormInit, Idle
    <2>2. QED  BY <2>1 DEF FormInit, PreviewInv
  <1>5. QED  BY <1>2, <1>3, <1>4 DEF FormInv

LEMMA AppendGoal ==
    ASSUME NEW list \in Seq(Sdgs), IsInjective(list), NEW id \in Sdgs, id \notin ToSet(list)
    PROVE  /\ Append(list, id) \in Seq(Sdgs)
           /\ IsInjective(Append(list, id))
           /\ id \in ToSet(Append(list, id))
           /\ ToSet(list) \subseteq ToSet(Append(list, id))
           /\ Append(list, id) # <<>>
  <1> DEFINE new == Append(list, id)
             n == Len(list)
  <1>1. /\ n \in Nat /\ DOMAIN list = 1..n /\ DOMAIN new = 1..(n + 1)
        /\ new \in Seq(Sdgs)
        /\ new[n + 1] = id /\ \A i \in 1..n : new[i] = list[i]
    OBVIOUS
  <1>2. \A i \in 1..n : list[i] # id
    BY <1>1 DEF ToSet
  <1> HIDE DEF new, n
  <1>3. \A i \in 1..(n + 1) : i = n + 1 \/ i \in 1..n
    BY <1>1
  <1>4. IsInjective(new)
    BY <1>1, <1>2, <1>3 DEF IsInjective
  <1>5. id \in ToSet(new) /\ ToSet(list) \subseteq ToSet(new)
    BY <1>1 DEF ToSet
  <1>6. new # <<>>
    BY <1>1
  <1>7. QED  BY <1>1, <1>4, <1>5, <1>6 DEF new

\* What filter leaves, as a set.
LEMMA WithoutSet ==
    ASSUME NEW list \in Seq(Sdgs), IsInjective(list), NEW id
    PROVE  ToSet(Without(list, id)) = ToSet(list) \ {id}
  BY WithoutProperties DEF ToSet

LEMMA ToggleKeeps ==
    ASSUME FormInv, NEW id \in Sdgs, toggleSdg(id)
    PROVE  GoalsInv' /\ selected' \in Seq(Sdgs) /\ primary' \in Sdgs \union {NoSdg}
  <1>1. /\ selected \in Seq(Sdgs) /\ IsInjective(selected)
        /\ primary \in Sdgs \union {NoSdg}
        /\ selected = <<>> => primary = NoSdg
        /\ selected # <<>> => primary \in ToSet(selected)
    BY DEF FormInv, FormTypeOK, GoalsInv
  <1>2. CASE id \in ToSet(selected)
    <2> DEFINE others == Without(selected, id)
    <2>1. selected' = others /\ primary' = IF id = primary THEN FirstOf(others) ELSE primary
      BY <1>2 DEF toggleSdg, Promoted
    <2>2. others \in Seq(Sdgs) /\ IsInjective(others)
      BY <1>1, WithoutProperties
    <2>3. ToSet(others) = ToSet(selected) \ {id}
      BY <1>1, WithoutSet
    <2> HIDE DEF others
    <2>4. selected # <<>>
      BY <1>2 DEF ToSet
    <2>5. ToSet(<<>>) = {}
      BY DEF ToSet
    <2>6. CASE id = primary
      BY <1>1, <2>1, <2>2, <2>6, FirstProperties DEF GoalsInv
    <2>7. CASE id # primary
      <3>1. primary \in ToSet(others)
        BY <1>1, <2>3, <2>4, <2>7
      <3>2. others # <<>>
        BY <2>5, <3>1
      <3>3. QED  BY <1>1, <2>1, <2>2, <2>7, <3>1, <3>2 DEF GoalsInv
    <2>8. QED  BY <2>6, <2>7
  <1>3. CASE id \notin ToSet(selected)
    <2>1. selected' = Append(selected, id) /\ primary' = IF selected = <<>> THEN id ELSE primary
      BY <1>3 DEF toggleSdg
    <2>2. QED  BY <1>1, <1>3, <2>1, AppendGoal DEF GoalsInv
  <1>4. QED  BY <1>2, <1>3

LEMMA NextForm == FormInv /\ [FormNext]_formVars => FormInv'
  <1> SUFFICES ASSUME FormInv, [FormNext]_formVars PROVE FormInv'
    OBVIOUS
  <1>1. FormTypeOK /\ GoalsInv /\ PreviewInv
    BY DEF FormInv
  <1>2. ASSUME UNCHANGED <<selected, primary>>
        PROVE  GoalsInv' /\ selected' \in Seq(Sdgs) /\ primary' \in Sdgs \union {NoSdg}
    BY <1>1, <1>2 DEF GoalsInv, FormTypeOK
  <1>3. ASSUME UNCHANGED <<tab, body, previewHtml, previewRendered, render, overlapped>>
        PROVE  PreviewInv'
    BY <1>1, <1>3 DEF PreviewInv
  <1>4. CASE EditBody
    <2>1. FormTypeOK'
      <3>1. body' \in 0..MaxEdits
        BY <1>1, <1>4, FormAssumption DEF EditBody, FormTypeOK
      <3>2. overlapped' \in BOOLEAN
        BY <1>4 DEF EditBody
      <3>3. QED  BY <1>1, <1>4, <3>1, <3>2 DEF EditBody, FormTypeOK
    <2>2. PreviewInv'
      BY <1>1, <1>4 DEF EditBody, PreviewInv, Rendering
    <2>3. QED  BY <1>2, <1>4, <2>1, <2>2 DEF EditBody, FormInv
  <1>5. CASE ShowPreview
    <2>1. FormTypeOK' /\ PreviewInv'
      BY <1>1, <1>5 DEF ShowPreview, FormTypeOK, PreviewInv
    <2>2. QED  BY <1>2, <1>5, <2>1 DEF ShowPreview, FormInv
  <1>6. CASE ShowWrite
    <2>1. FormTypeOK' /\ PreviewInv'
      BY <1>1, <1>6 DEF ShowWrite, FormTypeOK, PreviewInv, Rendering, ForgetsRendering
    <2>2. QED  BY <1>2, <1>6, <2>1 DEF ShowWrite, FormInv
  <1>7. ASSUME NEW r \in Renders, StartRender(r)
        PROVE  FormInv'
    <2>1. FormTypeOK' /\ PreviewInv'
      BY <1>1, <1>7 DEF StartRender, FormTypeOK, PreviewInv
    <2>2. QED  BY <1>2, <1>7, <2>1 DEF StartRender, FormInv
  <1>8. ASSUME NEW r \in Renders, EndRender(r)
        PROVE  FormInv'
    <2>1. FormTypeOK' /\ PreviewInv'
      BY <1>1, <1>8, FormAssumption DEF EndRender, FormTypeOK, PreviewInv, Idle
    <2>2. QED  BY <1>2, <1>8, <2>1 DEF EndRender, FormInv
  <1>9. ASSUME NEW id \in Sdgs, toggleSdg(id)
        PROVE  FormInv'
    <2>1. GoalsInv' /\ selected' \in Seq(Sdgs) /\ primary' \in Sdgs \union {NoSdg}
      BY <1>9, ToggleKeeps
    <2>2. UNCHANGED <<tab, body, previewHtml, previewRendered, render, overlapped>>
      BY <1>9 DEF toggleSdg
    <2>3. FormTypeOK'
      BY <1>1, <2>1, <2>2 DEF FormTypeOK
    <2>4. QED  BY <1>3, <2>1, <2>2, <2>3 DEF FormInv
  <1>10. ASSUME NEW id \in Sdgs, makePrimary(id)
         PROVE  FormInv'
    <2>1. /\ UNCHANGED <<tab, body, previewHtml, previewRendered, render, overlapped>>
          /\ selected' = selected /\ primary' = id /\ id \in ToSet(selected)
      BY <1>10 DEF makePrimary
    <2>2. selected # <<>>
      BY <2>1 DEF ToSet
    <2>3. FormTypeOK' /\ GoalsInv'
      BY <1>1, <2>1, <2>2 DEF FormTypeOK, GoalsInv
    <2>4. QED  BY <1>3, <2>1, <2>3 DEF FormInv
  <1>11. CASE UNCHANGED formVars
    <2>1. FormTypeOK'
      BY <1>1, <1>11 DEF formVars, FormTypeOK
    <2>2. QED  BY <1>2, <1>3, <1>11, <2>1 DEF formVars, FormInv
  <1>12. QED
    BY <1>4, <1>5, <1>6, <1>7, <1>8, <1>9, <1>10, <1>11 DEF FormNext

\* The list that is submitted: the primary goal, then the others.
LEMMA ListIsSelection == FormInv => SdgListIsSelection
  <1> SUFFICES ASSUME FormInv PROVE SdgListIsSelection
    OBVIOUS
  <1> DEFINE others == Without(selected, primary)
  <1>1. /\ selected \in Seq(Sdgs) /\ IsInjective(selected)
        /\ selected = <<>> => primary = NoSdg
        /\ selected # <<>> => primary \in ToSet(selected)
    BY DEF FormInv, FormTypeOK, GoalsInv
  <1>2. /\ others \in Seq(Sdgs) /\ ToSet(others) = ToSet(selected) \ {primary}
        /\ Len(others) = IF \E i \in DOMAIN selected : selected[i] = primary
                         THEN Len(selected) - 1 ELSE Len(selected)
    BY <1>1, WithoutProperties, WithoutSet
  <1>3. \A i \in DOMAIN selected : selected[i] # NoSdg
    BY <1>1, FormAssumption
  <1>4. SdgIds = (IF primary = NoSdg THEN <<>> ELSE <<primary>>) \o others
    BY DEF SdgIds
  <1> HIDE DEF others
  <1>5. CASE selected = <<>>
    <2>1. DOMAIN selected = {} /\ Len(selected) = 0 /\ primary = NoSdg
      BY <1>1, <1>5
    <2>2. Len(others) = 0
      BY <1>2, <2>1
    <2>3. SdgIds = <<>>
      BY <1>2, <1>4, <2>1, <2>2
    <2>4. QED  BY <1>5, <2>3 DEF SdgListIsSelection
  <1>6. CASE selected # <<>>
    <2>1. primary \in ToSet(selected) /\ \E i \in DOMAIN selected : selected[i] = primary
      BY <1>1, <1>6 DEF ToSet
    <2>2. primary # NoSdg /\ primary \in Sdgs
      BY <1>1, <1>3, <2>1
    <2>3. SdgIds = <<primary>> \o others
      BY <1>4, <2>2
    <2> DEFINE n == Len(others)
    <2>4. /\ n \in Nat /\ DOMAIN others = 1..n
          /\ DOMAIN SdgIds = 1..(n + 1) /\ Len(SdgIds) = n + 1
          /\ SdgIds[1] = primary
          /\ \A i \in 1..n : SdgIds[i + 1] = others[i]
      BY <1>2, <2>2, <2>3
    <2>5. Len(selected) \in Nat /\ n = Len(selected) - 1
      BY <1>1, <1>2, <2>1
    <2> HIDE DEF n
    <2>6. ToSet(SdgIds) = {primary} \union ToSet(others)
      <3>1. \A i \in 1..(n + 1) : i = 1 \/ (i - 1 \in 1..n /\ i - 1 + 1 = i)
        BY <2>4
      <3>2. \A i \in 1..n : i + 1 \in 1..(n + 1)
        BY <2>4
      <3>3. 1 \in 1..(n + 1)
        BY <2>4
      <3>4. ASSUME NEW x \in ToSet(SdgIds), x # primary
            PROVE  x \in ToSet(others)
        <4>1. PICK i \in 1..(n + 1) : SdgIds[i] = x
          BY <2>4 DEF ToSet
        <4>2. i - 1 \in 1..n /\ i - 1 + 1 = i
          BY <2>4, <3>1, <3>4, <4>1
        <4>3. others[i - 1] = x
          BY <2>4, <4>1, <4>2
        <4>4. QED  BY <2>4, <4>2, <4>3 DEF ToSet
      <3>5. primary \in ToSet(SdgIds)
        BY <2>4, <3>3 DEF ToSet
      <3>6. ASSUME NEW x \in ToSet(others)
            PROVE  x \in ToSet(SdgIds)
        <4>1. PICK i \in 1..n : others[i] = x
          BY <2>4 DEF ToSet
        <4>2. i + 1 \in 1..(n + 1) /\ SdgIds[i + 1] = x
          BY <2>4, <3>2, <4>1
        <4>3. QED  BY <2>4, <4>2 DEF ToSet
      <3>7. QED  BY <3>4, <3>5, <3>6
    <2>7. ToSet(SdgIds) = ToSet(selected)
      BY <1>2, <2>1, <2>6
    <2>8. QED  BY <2>4, <2>5, <2>7 DEF SdgListIsSelection
  <1>7. QED  BY <1>5, <1>6

\* The form's invariant.
THEOREM FormInvariance == FormSpec => []FormInv
  BY InitForm, NextForm, PTL DEF FormSpec

\* PostForm's types.
THEOREM FormTypeCorrect == FormSpec => []FormTypeOK
  <1>1. FormInv => FormTypeOK
    BY DEF FormInv
  <1>2. QED  BY <1>1, FormInvariance, PTL

\* The author submits what the form shows, for any goals, any number of edits
\* and any number of renderings under way.
THEOREM SendsWhatItShows == FormSpec => []FormSendsWhatItShows
  <1>1. FormInv => PreviewIsCurrent
    BY DEF FormInv, PreviewInv, PreviewIsCurrent
  <1>2. FormInv => FormSendsWhatItShows
    BY <1>1, ListIsSelection DEF FormSendsWhatItShows
  <1>3. QED  BY <1>2, FormInvariance, PTL

-------------------------------------------------------------------------------
(***************************************************************************)
(* GuardAdapter.  Until the auxiliary model answers, the scores are those  *)
(* of the codes; its answer replaces its own axes only.                    *)
(***************************************************************************)

GuardInv ==
    /\ GuardTypeOK
    /\ asking = "guard" => codes = <<>>
    /\ asking # "nothing" => outcome = Pending
    /\ asking = "aux" => scores = ScoresOf(ToSet(codes))
    /\ UnsafeIsRejected

\* Some code the adapter knows by an axis of the guard's own.
NamesUnsafe(named) == \E c \in named : AxesOf(c) \ AuxAxes # {}

\* An axis of the guard's own that scores high enough to reject.
ScoresUnsafe(found) ==
    \E axis \in DOMAIN found : axis \notin AuxAxes /\ found[axis] \in UnsafeScore..100

InRange(found) == \A axis \in DOMAIN found : found[axis] \in 0..100

LEMMA ScoresOfCodes ==
    ASSUME NEW named
    PROVE  /\ InRange(ScoresOf(named))
           /\ NamesUnsafe(named) => ScoresUnsafe(ScoresOf(named))
  <1> DEFINE found == ScoresOf(named)
  <1>1. \A axis \in DOMAIN found : found[axis] \in {S4Score, UnsafeScore}
    BY DEF ScoresOf
  <1>2. DOMAIN found = UNION {AxesOf(c) : c \in named}
    BY DEF ScoresOf
  <1> HIDE DEF found
  <1>3. InRange(found)
    BY <1>1 DEF InRange, S4Score, UnsafeScore
  <1>4. ASSUME NEW c \in named, NEW axis \in AxesOf(c) \ AuxAxes
        PROVE  ScoresUnsafe(found)
    <2>1. axis \in DOMAIN found
      BY <1>2
    <2>2. found[axis] \in UnsafeScore..100
      BY <1>1, <2>1 DEF S4Score, UnsafeScore
    <2>3. QED  BY <2>1, <2>2 DEF ScoresUnsafe
  <1>5. NamesUnsafe(named) => ScoresUnsafe(found)
    BY <1>4 DEF NamesUnsafe
  <1>6. QED  BY <1>3, <1>5 DEF found

LEMMA OverlaidScores ==
    ASSUME NEW found, InRange(found), NEW aux \in [AuxAxes -> AuxNumbers]
    PROVE  /\ InRange(Overlaid(found, aux))
           /\ ScoresUnsafe(found) => ScoresUnsafe(Overlaid(found, aux))
  <1> DEFINE over == Overlaid(found, aux)
  <1>1. DOMAIN over = DOMAIN found \union AuxAxes
    BY DEF Overlaid
  <1>2. \A axis \in DOMAIN over :
           over[axis] = IF axis \in AuxAxes THEN Clamp(aux[axis]) ELSE found[axis]
    BY DEF Overlaid
  <1> HIDE DEF over
  <1>3. \A x \in Int : Clamp(x) \in 0..100
    BY DEF Clamp
  <1>4. \A axis \in AuxAxes : aux[axis] \in Int
    BY GuardAssumption
  <1>5. InRange(over)
    BY <1>1, <1>2, <1>3, <1>4 DEF InRange
  <1>6. ScoresUnsafe(found) => ScoresUnsafe(over)
    BY <1>1, <1>2 DEF ScoresUnsafe
  <1>7. QED  BY <1>5, <1>6 DEF over

\* What classify() makes of the scores it has found.
LEMMA ResultProperties ==
    ASSUME NEW found, InRange(found)
    PROVE  /\ Result(found).result = "classified"
           /\ Result(found).verdict \in AiVerdict
           /\ \A axis \in DOMAIN Result(found).scores :
                 Result(found).scores[axis] \in NoiseFloor..100
           /\ ScoresUnsafe(found) =>
                 /\ Result(found).verdict = "auto_reject"
                 /\ Decide({Result(found).scores[axis] : axis \in DOMAIN Result(found).scores},
                           TrustedReputation) = "auto_reject"
  <1> DEFINE kept == filterScores(found)
             values == {kept[axis] : axis \in DOMAIN kept}
  <1>1. /\ Result(found).result = "classified"
        /\ Result(found).verdict = computeVerdict(kept)
        /\ Result(found).scores = kept
    BY DEF Result
  <1>2. /\ DOMAIN kept = {axis \in DOMAIN found : found[axis] >= NoiseFloor}
        /\ \A axis \in DOMAIN kept : kept[axis] = found[axis]
    BY DEF filterScores, Restrict
  <1> HIDE DEF kept
  <1>3. computeVerdict(kept) \in AiVerdict
    BY DEF computeVerdict, AiVerdict
  <1>4. \A axis \in DOMAIN kept : kept[axis] \in NoiseFloor..100
    BY <1>2 DEF InRange, NoiseFloor
  <1>5. ASSUME NEW axis \in DOMAIN found, found[axis] \in UnsafeScore..100
        PROVE  computeVerdict(kept) = "auto_reject" /\ Decide(values, TrustedReputation) = "auto_reject"
    <2>1. axis \in DOMAIN kept /\ kept[axis] \in UnsafeScore..100
      BY <1>2, <1>5 DEF NoiseFloor, UnsafeScore
    <2>2. kept[axis] >= 85 /\ ~(kept[axis] < 25)
      BY <2>1 DEF UnsafeScore
    <2>3. computeVerdict(kept) = "auto_reject"
      BY <2>1, <2>2 DEF computeVerdict
    <2>4. kept[axis] \in values /\ kept[axis] >= AutoRejectMin
      BY <2>1, GuardAssumption, PolicyAssumption DEF UnsafeScore
    <2>5. Decide(values, TrustedReputation) = "auto_reject"
      BY <2>4 DEF Decide
    <2>6. QED  BY <2>3, <2>5
  <1>6. QED  BY <1>1, <1>3, <1>4, <1>5 DEF ScoresUnsafe

LEMMA PendingProperties ==
    /\ Pending.result = "pending"
    /\ Pending.verdict \in AiVerdict
    /\ DOMAIN Pending.scores = {}
    /\ [Pending EXCEPT !.result = "thrown"].result = "thrown"
    /\ [Pending EXCEPT !.result = "classified"].result = "classified"
    /\ \A x : /\ [Pending EXCEPT !.result = x].verdict = Pending.verdict
              /\ [Pending EXCEPT !.result = x].scores = Pending.scores
  BY DEF Pending, NoScores, AiVerdict

LEMMA NoCodes == ToSet(<<>>) = {} /\ <<>> \in BoundedSeq(GuardCodes, MaxCodes)
  <1>1. 0 \in 0..MaxCodes
    BY GuardAssumption
  <1>2. <<>> \in [1..0 -> GuardCodes]
    OBVIOUS
  <1>3. <<>> \in BoundedSeq(GuardCodes, MaxCodes)
    BY <1>1, <1>2 DEF BoundedSeq, SeqOf
  <1>4. QED  BY <1>3 DEF ToSet

LEMMA InitGuard == GuardInit => GuardInv
  <1> SUFFICES ASSUME GuardInit PROVE GuardInv
    OBVIOUS
  <1>1. DOMAIN scores = {}
    BY DEF GuardInit, NoScores
  <1>2. outcome = Pending /\ asking = "guard" /\ codes = <<>>
    BY DEF GuardInit
  <1>3. GuardTypeOK
    BY <1>1, <1>2, NoCodes, PendingProperties DEF GuardInit, GuardTypeOK
  <1>4. UnsafeIsRejected
    BY <1>2, PendingProperties DEF UnsafeIsRejected
  <1>5. QED  BY <1>2, <1>3, <1>4 DEF GuardInv

\* A step that ends classify() with a result.
LEMMA EndsWithResult ==
    ASSUME GuardInv, UNCHANGED auxEnabled, codes' \in BoundedSeq(GuardCodes, MaxCodes),
           asking' = "nothing", InRange(scores'), outcome' = Result(scores'),
           NamesUnsafe(ToSet(codes')) => ScoresUnsafe(scores')
    PROVE  GuardInv'
  <1>1. GuardTypeOK'
    BY ResultProperties DEF GuardInv, GuardTypeOK, InRange
  <1>2. UnsafeIsRejected'
    BY ResultProperties DEF UnsafeIsRejected, NamesUnsafe
  <1>3. QED  BY <1>1, <1>2 DEF GuardInv

LEMMA NextGuard == GuardInv /\ [GuardNext]_guardVars => GuardInv'
  <1> SUFFICES ASSUME GuardInv, [GuardNext]_guardVars PROVE GuardInv'
    OBVIOUS
  <1>1. CASE GuardFails \/ GuardMalformed
    <2>1. /\ UNCHANGED <<auxEnabled, codes, scores>>
          /\ asking' = "nothing" /\ codes = <<>>
          /\ \E x \in {"thrown", "classified"} : outcome' = [Pending EXCEPT !.result = x]
      BY <1>1 DEF GuardFails, GuardMalformed, GuardInv
    <2>2. GuardTypeOK'
      BY <2>1, PendingProperties DEF GuardInv, GuardTypeOK
    <2>3. UnsafeIsRejected'
      BY <2>1, NoCodes DEF UnsafeIsRejected
    <2>4. QED  BY <2>1, <2>2, <2>3 DEF GuardInv
  <1>2. ASSUME NEW answer \in BoundedSeq(GuardCodes, MaxCodes), GuardAnswers(answer)
        PROVE  GuardInv'
    <2>1. /\ codes' = answer /\ scores' = ScoresOf(ToSet(answer))
          /\ auxEnabled' = auxEnabled
      BY <1>2 DEF GuardAnswers
    <2>2. InRange(scores') /\ (NamesUnsafe(ToSet(codes')) => ScoresUnsafe(scores'))
      BY <2>1, ScoresOfCodes
    <2>3. CASE auxEnabled
      <3>1. asking' = "aux" /\ outcome' = Pending
        BY <1>2, <2>3 DEF GuardAnswers, GuardInv
      <3>2. GuardTypeOK'
        BY <2>1, <2>2, <3>1, PendingProperties DEF GuardInv, GuardTypeOK, InRange
      <3>3. UnsafeIsRejected'
        BY <3>1, PendingProperties DEF UnsafeIsRejected
      <3>4. QED  BY <2>1, <3>1, <3>2, <3>3 DEF GuardInv
    <2>4. CASE ~auxEnabled
      <3>1. asking' = "nothing" /\ outcome' = Result(scores')
        BY <1>2, <2>4 DEF GuardAnswers
      <3>2. QED  BY <2>1, <2>2, <3>1, EndsWithResult
    <2>5. QED  BY <2>3, <2>4
  <1>3. ASSUME NEW aux \in [AuxAxes -> AuxNumbers], AuxAnswers(aux)
        PROVE  GuardInv'
    <2>1. /\ asking = "aux" /\ asking' = "nothing"
          /\ scores' = Overlaid(scores, aux) /\ outcome' = Result(scores')
          /\ UNCHANGED <<auxEnabled, codes>>
      BY <1>3 DEF AuxAnswers
    <2>2. /\ InRange(scores) /\ codes \in BoundedSeq(GuardCodes, MaxCodes)
          /\ scores = ScoresOf(ToSet(codes))
      BY <2>1 DEF GuardInv, GuardTypeOK, InRange
    <2>3. NamesUnsafe(ToSet(codes)) => ScoresUnsafe(scores)
      BY <2>2, ScoresOfCodes
    <2>4. InRange(scores') /\ (NamesUnsafe(ToSet(codes)) => ScoresUnsafe(scores'))
      BY <2>1, <2>2, <2>3, OverlaidScores
    <2>5. QED  BY <2>1, <2>2, <2>4, EndsWithResult
  <1>4. CASE AuxFails
    <2>1. /\ asking = "aux" /\ asking' = "nothing" /\ outcome' = Result(scores')
          /\ UNCHANGED <<auxEnabled, codes, scores>>
      BY <1>4 DEF AuxFails
    <2>2. /\ InRange(scores) /\ codes \in BoundedSeq(GuardCodes, MaxCodes)
          /\ scores = ScoresOf(ToSet(codes))
      BY <2>1 DEF GuardInv, GuardTypeOK, InRange
    <2>3. NamesUnsafe(ToSet(codes)) => ScoresUnsafe(scores)
      BY <2>2, ScoresOfCodes
    <2>4. QED  BY <2>1, <2>2, <2>3, EndsWithResult
  <1>5. CASE UNCHANGED guardVars
    BY <1>5 DEF guardVars, GuardInv, GuardTypeOK, UnsafeIsRejected
  <1>6. QED  BY <1>1, <1>2, <1>3, <1>4, <1>5 DEF GuardNext

\* The adapter's invariant.
THEOREM GuardInvariance == GuardSpec => []GuardInv
  BY InitGuard, NextGuard, PTL DEF GuardSpec

\* GuardAdapter's types.
THEOREM GuardTypeCorrect == GuardSpec => []GuardTypeOK
  <1>1. GuardInv => GuardTypeOK
    BY DEF GuardInv
  <1>2. QED  BY <1>1, GuardInvariance, PTL

\* What the guard model names is rejected, whatever numbers the auxiliary model
\* answers and wherever the thresholds lie below the scores of the codes.
THEOREM UnsafeStaysRejected == GuardSpec => []UnsafeIsRejected
  <1>1. GuardInv => UnsafeIsRejected
    BY DEF GuardInv
  <1>2. QED  BY <1>1, GuardInvariance, PTL

-------------------------------------------------------------------------------
(***************************************************************************)
(* Outcomes.  Both statements of the page read the table up to some row:   *)
(* counting the same reports, they have read the same ones.                *)
(***************************************************************************)

\* x is the date of the latest of the reports, or 0.
IsLatest(x, ids) ==
    /\ \A r \in ids : reports[r].reportedAt <= x
    /\ ids # {} => \E r \in ids : reports[r].reportedAt = x

\* What a page may have read, of the first m rows and of the first n.
ReadsPrefixes(p) ==
    \E m, n \in 0..Len(reports) :
        /\ p.list = 1..m
        /\ \A i \in Indicators :
              /\ p.progress[i].count = Cardinality(About(i, 1..n))
              /\ IsLatest(p.progress[i].latest, About(i, 1..n))

Report == [indicator : Indicators, reportedAt : 1..MaxTime]
ProgressType == [Indicators -> [count : 0..MaxReports, latest : 0..MaxTime]]

PageType ==
    [step : PageState, isMember : BOOLEAN,
     list : SUBSET Nat, gotList : BOOLEAN,
     progress : ProgressType, gotProgress : BOOLEAN,
     reportedAt : 0..MaxTime, indicator : Indicators \union {0}]

\* The form carries a date from the moment that it is shown.
PageInOrder(p) ==
    /\ p.step \in {"shown", "sent", "checked"} => p.reportedAt \in 1..MaxTime
    /\ p.step \in {"sent", "checked"} => p.indicator \in Indicators
    /\ ReadsPrefixes(p)

OutcomesInv ==
    /\ now \in 1..MaxTime
    /\ inGroup \subseteq Reporters
    /\ reports \in Seq(Report)
    /\ Len(reports) <= MaxReports
    /\ groupPage \in [Reporters -> PageType]
    /\ \A u \in Reporters : PageInOrder(groupPage[u])

\* A set of naturals has a least element: the least-number principle.
LEMMA LeastNatural ==
    ASSUME NEW T, T \subseteq Nat, T # {}
    PROVE  \E x \in T : \A y \in T : x <= y
  <1> DEFINE R == OpToRel(<, Nat)
  <1>1. \A x, y \in Nat : x < y => <<x, y>> \in R
    BY DEF OpToRel
  <1>2. IsWellFoundedOn(R, Nat)
    BY NatLessThanWellFounded
  <1> HIDE DEF R
  <1>3. PICK x \in T : \A y \in T : ~ (<<y, x>> \in R)
    BY <1>2, WFMin
  <1>4. ASSUME NEW y \in T
        PROVE  x <= y
    <2>1. x \in Nat /\ y \in Nat
      OBVIOUS
    <2>2. ~(y < x)
      BY <1>1, <1>3, <2>1
    <2>3. QED  BY <2>1, <2>2
  <1>5. QED  BY <1>4

\* A set of naturals with a bound has a greatest element.
LEMMA Greatest ==
    ASSUME NEW S, NEW b \in Nat, S \subseteq 0..b, S # {}
    PROVE  Max(S) \in S /\ \A y \in S : y <= Max(S)
  <1> DEFINE T == {n \in Nat : \A y \in S : y <= n}
  <1>1. T \subseteq Nat /\ T # {}
    <2>1. b \in T
      OBVIOUS
    <2>2. QED  BY <2>1
  <1>2. PICK x \in T : \A y \in T : x <= y
    BY <1>1, LeastNatural
  <1>3. x \in S
    <2>1. SUFFICES ASSUME x \notin S PROVE FALSE
      OBVIOUS
    <2>2. PICK z \in S : TRUE
      OBVIOUS
    <2>3. \A y \in S : y \in Nat /\ y < x
      <3>1. ASSUME NEW y \in S
            PROVE  y \in Nat /\ y < x
        <4>1. y \in Nat /\ x \in Nat /\ y <= x /\ y # x
          BY <2>1
        <4>2. QED  BY <4>1
      <3>2. QED  BY <3>1
    <2>4. x - 1 \in Nat /\ \A y \in S : y <= x - 1
      BY <2>2, <2>3
    <2>5. x - 1 \in T
      BY <2>4
    <2>6. QED  BY <1>2, <2>5
  <1>4. \E m \in S : \A y \in S : m >= y
    BY <1>3
  <1> HIDE DEF T
  <1>5. Max(S) \in S /\ \A y \in S : Max(S) >= y
    BY <1>4 DEF Max
  <1>6. QED  BY <1>5

\* The fields of a report.
LEMMA ReportsNamed ==
    ASSUME reports \in Seq(Report), NEW r \in 1..Len(reports)
    PROVE  reports[r] \in Report /\ reports[r].reportedAt \in 1..MaxTime
  <1>1. reports[r] \in Report
    OBVIOUS
  <1>2. QED  BY <1>1 DEF Report

\* ORDER BY reported_at DESC LIMIT 1.
LEMMA LatestIsLatest ==
    ASSUME reports \in Seq(Report), NEW ids \in SUBSET (1..Len(reports))
    PROVE  IsLatest(LatestOf(ids), ids) /\ LatestOf(ids) \in 0..MaxTime
  <1> DEFINE dates == {reports[r].reportedAt : r \in ids}
             all == dates \union {0}
  <1>1. \A r \in ids : reports[r].reportedAt \in 1..MaxTime
    BY ReportsNamed
  <1>2. MaxTime \in Nat
    BY OutcomesAssumption
  <1>3. all \subseteq 0..MaxTime /\ all # {}
    BY <1>1, <1>2
  <1>4. LatestOf(ids) = Max(all)
    BY DEF LatestOf
  <1>5. Max(all) \in all /\ \A y \in all : y <= Max(all)
    <2> HIDE DEF all
    <2>1. QED  BY <1>2, <1>3, Greatest
  <1>6. \A r \in ids : reports[r].reportedAt \in all
    OBVIOUS
  <1>7. ASSUME ids # {}
        PROVE  \E r \in ids : reports[r].reportedAt = Max(all)
    <2>1. PICK r \in ids : TRUE
      BY <1>7
    <2>2. reports[r].reportedAt <= Max(all) /\ reports[r].reportedAt \in 1..MaxTime
      BY <1>1, <1>5, <1>6
    <2>3. Max(all) \in 0..MaxTime
      BY <1>3, <1>5
    <2>4. Max(all) # 0
      BY <2>2, <2>3
    <2>5. QED  BY <1>5, <2>4
  <1>8. QED  BY <1>3, <1>4, <1>5, <1>6, <1>7 DEF IsLatest

LEMMA AboutIsFinite ==
    ASSUME NEW i, NEW n \in Nat
    PROVE  /\ IsFiniteSet(About(i, 1..n))
           /\ Cardinality(About(i, 1..n)) \in Nat
           /\ Cardinality(About(i, 1..n)) <= n
           /\ About(i, 1..n) \subseteq 1..n
  <1>1. About(i, 1..n) \subseteq 1..n
    BY DEF About
  <1>2. IsFiniteSet(1..n) /\ Cardinality(1..n) = n
    BY FirstNaturals
  <1>3. IsFiniteSet(About(i, 1..n)) /\ Cardinality(About(i, 1..n)) <= n
    BY <1>1, <1>2, FS_Subset
  <1>4. QED  BY <1>1, <1>3, FS_CardinalityType

\* A page that has read nothing has read no rows.
LEMMA NothingRead ==
    ASSUME NEW p, p.list = {}, p.progress = NoProgress, reports \in Seq(Report)
    PROVE  ReadsPrefixes(p)
  <1>1. 0 \in 0..Len(reports) /\ 1..0 = {}
    OBVIOUS
  <1>2. \A i : About(i, 1..0) = {}
    BY <1>1 DEF About
  <1>3. Cardinality({}) = 0
    BY FS_EmptySet
  <1>4. \A i \in Indicators : p.progress[i].count = 0 /\ p.progress[i].latest = 0
    BY DEF NoProgress
  <1>5. \A i \in Indicators :
           /\ p.progress[i].count = Cardinality(About(i, 1..0))
           /\ IsLatest(p.progress[i].latest, About(i, 1..0))
    BY <1>2, <1>3, <1>4 DEF IsLatest
  <1>6. QED  BY <1>1, <1>5 DEF ReadsPrefixes

\* A report more leaves what has been read a beginning of the table.
LEMMA ReadsLast ==
    ASSUME NEW p, reports \in Seq(Report), NEW new \in Report,
           reports' = Append(reports, new), ReadsPrefixes(p)
    PROVE  ReadsPrefixes(p)'
  <1>1. /\ Len(reports) \in Nat /\ Len(reports') = Len(reports) + 1
        /\ \A r \in 1..Len(reports) : reports'[r] = reports[r]
    OBVIOUS
  <1>2. PICK m \in 0..Len(reports), n \in 0..Len(reports) :
           /\ p.list = 1..m
           /\ \A i \in Indicators :
                 /\ p.progress[i].count = Cardinality(About(i, 1..n))
                 /\ IsLatest(p.progress[i].latest, About(i, 1..n))
    BY DEF ReadsPrefixes
  <1>3. \A i : About(i, 1..n)' = About(i, 1..n)
    BY <1>1 DEF About
  <1>4. m \in 0..Len(reports') /\ n \in 0..Len(reports')
    BY <1>1
  <1>5. ASSUME NEW i \in Indicators
        PROVE  /\ p.progress[i].count = Cardinality(About(i, 1..n)')
               /\ IsLatest(p.progress[i].latest, About(i, 1..n))'
    <2>1. \A r \in About(i, 1..n) : reports'[r] = reports[r]
      BY <1>1 DEF About
    <2>2. QED  BY <1>2, <1>3, <2>1 DEF IsLatest
  <1>6. QED  BY <1>2, <1>4, <1>5 DEF ReadsPrefixes

LEMMA BlankPage ==
    ASSUME NEW m \in BOOLEAN, NEW s \in PageState
    PROVE  LET p == [Blank EXCEPT !.step = s, !.isMember = m]
           IN  /\ p \in PageType
               /\ p.step = s /\ p.list = {} /\ p.progress = NoProgress
  <1>1. NoProgress \in ProgressType
    BY OutcomesAssumption DEF NoProgress, ProgressType
  <1>2. 0 \in 0..MaxTime /\ 0 \in Indicators \union {0}
    BY OutcomesAssumption
  <1>3. Blank.list = {} /\ Blank.progress = NoProgress /\ Blank \in PageType
    BY <1>1, <1>2 DEF Blank, PageType, PageState
  <1> HIDE DEF Blank
  <1>4. QED  BY <1>3 DEF PageType

LEMMA InitOutcomes == OutcomesInit => OutcomesInv
  <1> SUFFICES ASSUME OutcomesInit PROVE OutcomesInv
    OBVIOUS
  <1>1. reports = <<>> /\ reports \in Seq(Report) /\ Len(reports) = 0
    BY DEF OutcomesInit
  <1>2. now \in 1..MaxTime /\ inGroup \subseteq Reporters /\ Len(reports) <= MaxReports
    BY <1>1, OutcomesAssumption DEF OutcomesInit
  <1>3. /\ Blank.step = "closed" /\ Blank.list = {} /\ Blank.progress = NoProgress
        /\ Blank \in PageType
    <2>1. NoProgress \in ProgressType
      BY OutcomesAssumption DEF NoProgress, ProgressType
    <2>2. 0 \in 0..MaxTime /\ 0 \in Indicators \union {0}
      BY OutcomesAssumption
    <2>3. QED  BY <2>1, <2>2 DEF Blank, PageType, PageState
  <1>4. PageInOrder(Blank)
    BY <1>1, <1>3, NothingRead DEF PageInOrder
  <1>5. groupPage \in [Reporters -> PageType] /\ \A u \in Reporters : groupPage[u] = Blank
    BY <1>3 DEF OutcomesInit
  <1>6. QED  BY <1>1, <1>2, <1>4, <1>5 DEF OutcomesInv

\* A step of one page that leaves the table alone.
LEMMA OnePageStep ==
    ASSUME OutcomesInv, UNCHANGED <<now, inGroup, reports>>, NEW u \in Reporters,
           NEW p \in PageType, PageInOrder(p), groupPage' = [groupPage EXCEPT ![u] = p]
    PROVE  OutcomesInv'
  <1>1. groupPage' \in [Reporters -> PageType]
    BY DEF OutcomesInv
  <1>2. \A q : PageInOrder(q)' <=> PageInOrder(q)
    BY DEF PageInOrder, ReadsPrefixes, IsLatest, About
  <1>3. ASSUME NEW v \in Reporters
        PROVE  PageInOrder(groupPage'[v])
    BY DEF OutcomesInv
  <1>4. QED  BY <1>1, <1>2, <1>3 DEF OutcomesInv

LEMMA OpenKeeps ==
    ASSUME OutcomesInv, NEW u \in Reporters, OpenGroupPage(u)
    PROVE  OutcomesInv'
  <1> DEFINE m == u \in inGroup
             p == [Blank EXCEPT !.step = "reading", !.isMember = m]
  <1>1. m \in BOOLEAN /\ "reading" \in PageState
    BY DEF PageState
  <1>2. p \in PageType /\ p.step = "reading" /\ p.list = {} /\ p.progress = NoProgress
    <2> HIDE DEF m
    <2>1. QED  BY <1>1, BlankPage
  <1>3. groupPage' = [groupPage EXCEPT ![u] = p] /\ UNCHANGED <<now, inGroup, reports>>
    BY DEF OpenGroupPage
  <1> HIDE DEF p, m
  <1>4. PageInOrder(p)
    BY <1>2, NothingRead DEF PageInOrder, OutcomesInv
  <1>5. QED  BY <1>2, <1>3, <1>4, OnePageStep

LEMMA ListKeeps ==
    ASSUME OutcomesInv, NEW u \in Reporters, listOutcomes(u)
    PROVE  OutcomesInv'
  <1> DEFINE old == groupPage[u]
             p == [old EXCEPT !.list = DOMAIN reports, !.gotList = TRUE]
  <1>1. /\ groupPage' = [groupPage EXCEPT ![u] = p] /\ UNCHANGED <<now, inGroup, reports>>
        /\ old.step = "reading"
    BY DEF listOutcomes
  <1>2. old \in PageType /\ PageInOrder(old) /\ reports \in Seq(Report)
    BY DEF OutcomesInv
  <1>3. DOMAIN reports = 1..Len(reports) /\ Len(reports) \in 0..Len(reports)
        /\ DOMAIN reports \in SUBSET Nat
    BY <1>2
  <1> HIDE DEF old
  <1>4. /\ p \in PageType /\ p.step = old.step /\ p.list = DOMAIN reports
        /\ p.progress = old.progress
    BY <1>2, <1>3 DEF PageType
  <1> HIDE DEF p
  <1>5. ReadsPrefixes(p)
    BY <1>2, <1>3, <1>4 DEF PageInOrder, ReadsPrefixes
  <1>6. PageInOrder(p)
    BY <1>1, <1>4, <1>5 DEF PageInOrder
  <1>7. QED  BY <1>1, <1>4, <1>6, OnePageStep

LEMMA ProgressKeeps ==
    ASSUME OutcomesInv, NEW u \in Reporters, getGroupProgress(u)
    PROVE  OutcomesInv'
  <1> DEFINE old == groupPage[u]
             ids(i) == About(i, DOMAIN reports)
             rowsOf == [i \in Indicators |->
                          [count |-> Cardinality(ids(i)), latest |-> LatestOf(ids(i))]]
             p == [old EXCEPT !.progress = rowsOf, !.gotProgress = TRUE]
  <1>1. /\ groupPage' = [groupPage EXCEPT ![u] = p] /\ UNCHANGED <<now, inGroup, reports>>
        /\ old.step = "reading"
    BY DEF getGroupProgress
  <1>2. old \in PageType /\ PageInOrder(old) /\ reports \in Seq(Report)
        /\ Len(reports) <= MaxReports
    BY DEF OutcomesInv
  <1> DEFINE n == Len(reports)
  <1>3. n \in Nat /\ DOMAIN reports = 1..n /\ n \in 0..n
    BY <1>2
  <1>4. ASSUME NEW i \in Indicators
        PROVE  /\ IsLatest(LatestOf(ids(i)), ids(i))
               /\ LatestOf(ids(i)) \in 0..MaxTime
               /\ Cardinality(ids(i)) \in 0..MaxReports
               /\ ids(i) = About(i, 1..n)
    <2>1. ids(i) = About(i, 1..n)
      BY <1>3
    <2>2. /\ Cardinality(ids(i)) \in Nat /\ Cardinality(ids(i)) <= n
          /\ ids(i) \subseteq 1..n
      BY <1>3, <2>1, AboutIsFinite
    <2>3. Cardinality(ids(i)) \in 0..MaxReports
      BY <1>2, <1>3, <2>2, OutcomesAssumption
    <2>4. QED  BY <1>2, <2>1, <2>2, <2>3, LatestIsLatest
  <1> HIDE DEF n, ids
  <1>5. rowsOf \in ProgressType
    BY <1>4 DEF ProgressType
  <1>6. \A i \in Indicators :
           /\ rowsOf[i].count = Cardinality(About(i, 1..n))
           /\ IsLatest(rowsOf[i].latest, About(i, 1..n))
    BY <1>4
  <1> HIDE DEF rowsOf, old
  <1>7. /\ p \in PageType /\ p.step = old.step /\ p.list = old.list
        /\ p.progress = rowsOf
    BY <1>2, <1>5 DEF PageType
  <1> HIDE DEF p
  <1>8. ReadsPrefixes(p)
    <2>1. PICK m \in 0..n : old.list = 1..m
      BY <1>2 DEF PageInOrder, ReadsPrefixes, n
    <2>2. m \in 0..Len(reports) /\ n \in 0..Len(reports)
      BY <1>3, <2>1 DEF n
    <2>3. QED  BY <1>6, <1>7, <2>1, <2>2 DEF ReadsPrefixes
  <1>9. PageInOrder(p)
    BY <1>1, <1>7, <1>8 DEF PageInOrder
  <1>10. QED  BY <1>1, <1>7, <1>9, OnePageStep

\* The steps of the form.
LEMMA FormKeeps ==
    ASSUME OutcomesInv, NEW u \in Reporters,
           \/ ShowGroupPage(u)
           \/ \E i \in Indicators : SubmitReport(u, i)
           \/ CheckReporter(u)
    PROVE  OutcomesInv'
  <1> DEFINE old == groupPage[u]
  <1>1. old \in PageType /\ PageInOrder(old) /\ now \in 1..MaxTime
    BY DEF OutcomesInv
  <1>2. UNCHANGED <<now, inGroup, reports>>
    BY DEF ShowGroupPage, SubmitReport, CheckReporter
  <1>3. ASSUME NEW p \in PageType, p.list = old.list, p.progress = old.progress,
               groupPage' = [groupPage EXCEPT ![u] = p],
               p.step \in {"shown", "sent", "checked"} => p.reportedAt \in 1..MaxTime,
               p.step \in {"sent", "checked"} => p.indicator \in Indicators
        PROVE  OutcomesInv'
    <2>1. PageInOrder(p)
      BY <1>1, <1>3 DEF PageInOrder, ReadsPrefixes
    <2>2. QED  BY <1>2, <1>3, <2>1, OnePageStep
  <1>4. CASE ShowGroupPage(u)
    <2> DEFINE p == [old EXCEPT !.step = "shown", !.reportedAt = now]
    <2>1. groupPage' = [groupPage EXCEPT ![u] = p]
      BY <1>4 DEF ShowGroupPage
    <2> HIDE DEF old
    <2>2. /\ p \in PageType /\ p.list = old.list /\ p.progress = old.progress
          /\ p.step = "shown" /\ p.reportedAt = now
      <3>1. "shown" \in PageState /\ now \in 0..MaxTime
        BY <1>1, OutcomesAssumption DEF PageState
      <3>2. QED  BY <1>1, <3>1 DEF PageType
    <2> HIDE DEF p
    <2>3. QED  BY <1>1, <1>3, <2>1, <2>2
  <1>5. ASSUME NEW i \in Indicators, SubmitReport(u, i)
        PROVE  OutcomesInv'
    <2> DEFINE p == [old EXCEPT !.step = "sent", !.indicator = i]
    <2>1. groupPage' = [groupPage EXCEPT ![u] = p] /\ old.step = "shown"
      BY <1>5 DEF SubmitReport
    <2> HIDE DEF old
    <2>2. /\ p \in PageType /\ p.list = old.list /\ p.progress = old.progress
          /\ p.step = "sent" /\ p.indicator = i /\ p.reportedAt = old.reportedAt
      <3>1. "sent" \in PageState /\ i \in Indicators \union {0}
        BY DEF PageState
      <3>2. QED  BY <1>1, <3>1 DEF PageType
    <2> HIDE DEF p
    <2>3. old.reportedAt \in 1..MaxTime
      BY <1>1, <2>1 DEF PageInOrder
    <2>4. QED  BY <1>3, <2>1, <2>2, <2>3
  <1>6. CASE CheckReporter(u) /\ u \in inGroup
    <2> DEFINE p == [old EXCEPT !.step = "checked"]
    <2>1. groupPage' = [groupPage EXCEPT ![u] = p] /\ old.step = "sent"
      BY <1>6 DEF CheckReporter
    <2> HIDE DEF old
    <2>2. /\ p \in PageType /\ p.list = old.list /\ p.progress = old.progress
          /\ p.step = "checked" /\ p.indicator = old.indicator
          /\ p.reportedAt = old.reportedAt
      BY <1>1 DEF PageType, PageState
    <2> HIDE DEF p
    <2>3. old.reportedAt \in 1..MaxTime /\ old.indicator \in Indicators
      BY <1>1, <2>1 DEF PageInOrder
    <2>4. QED  BY <1>3, <2>1, <2>2, <2>3
  <1>7. CASE CheckReporter(u) /\ u \notin inGroup
    <2> DEFINE p == [old EXCEPT !.step = "shown", !.reportedAt = now, !.indicator = 0]
    <2>1. groupPage' = [groupPage EXCEPT ![u] = p]
      BY <1>7 DEF CheckReporter
    <2> HIDE DEF old
    <2>2. /\ p \in PageType /\ p.list = old.list /\ p.progress = old.progress
          /\ p.step = "shown" /\ p.reportedAt = now
      <3>1. "shown" \in PageState /\ 0 \in Indicators \union {0} /\ now \in 0..MaxTime
        BY <1>1, OutcomesAssumption DEF PageState
      <3>2. QED  BY <1>1, <3>1 DEF PageType
    <2> HIDE DEF p
    <2>3. QED  BY <1>1, <1>3, <2>1, <2>2
  <1>8. QED  BY <1>4, <1>5, <1>6, <1>7

LEMMA InsertKeepsProgress ==
    ASSUME OutcomesInv, NEW u \in Reporters, InsertReport(u)
    PROVE  OutcomesInv'
  <1> DEFINE old == groupPage[u]
             new == [indicator |-> old.indicator, reportedAt |-> old.reportedAt]
             m == u \in inGroup
             p == [Blank EXCEPT !.step = "reading", !.isMember = m]
  <1>1. /\ old.step = "checked" /\ Len(reports) < MaxReports
        /\ reports' = Append(reports, new)
        /\ groupPage' = [groupPage EXCEPT ![u] = p]
        /\ UNCHANGED <<now, inGroup>>
    BY DEF InsertReport
  <1>2. m \in BOOLEAN /\ "reading" \in PageState
    BY DEF PageState
  <1>3. p \in PageType /\ p.step = "reading" /\ p.list = {} /\ p.progress = NoProgress
    <2> HIDE DEF m
    <2>1. QED  BY <1>2, BlankPage
  <1>4. new \in Report
    BY <1>1 DEF OutcomesInv, PageInOrder, Report
  <1> HIDE DEF new, p, m, old
  <1>5. reports \in Seq(Report) /\ reports' \in Seq(Report) /\ Len(reports') <= MaxReports
    BY <1>1, <1>4, OutcomesAssumption DEF OutcomesInv
  <1>6. groupPage' \in [Reporters -> PageType]
    BY <1>1, <1>3 DEF OutcomesInv
  <1>7. PageInOrder(p)
    BY <1>3, <1>5, NothingRead DEF PageInOrder
  <1>8. \A q : PageInOrder(q) => PageInOrder(q)'
    <2>1. ASSUME NEW q, ReadsPrefixes(q)
          PROVE  ReadsPrefixes(q)'
      BY <1>1, <1>4, <1>5, <2>1, ReadsLast
    <2>2. QED  BY <2>1 DEF PageInOrder
  <1>9. ASSUME NEW v \in Reporters
        PROVE  PageInOrder(groupPage'[v])
    BY <1>1, <1>7 DEF OutcomesInv
  <1>10. now' \in 1..MaxTime /\ inGroup' \subseteq Reporters
    BY <1>1 DEF OutcomesInv
  <1>11. QED  BY <1>5, <1>6, <1>8, <1>9, <1>10 DEF OutcomesInv

LEMMA NextOutcomes == OutcomesInv /\ [OutcomesNext]_outcomeVars => OutcomesInv'
  <1> SUFFICES ASSUME OutcomesInv, [OutcomesNext]_outcomeVars PROVE OutcomesInv'
    OBVIOUS
  <1>1. ASSUME UNCHANGED <<reports, groupPage>>, now' \in 1..MaxTime,
               inGroup' \subseteq Reporters
        PROVE  OutcomesInv'
    <2>1. \A q : PageInOrder(q)' <=> PageInOrder(q)
      BY <1>1 DEF PageInOrder, ReadsPrefixes, IsLatest, About
    <2>2. QED  BY <1>1, <2>1 DEF OutcomesInv
  <1>2. CASE ClockTick
    <2>1. now' \in 1..MaxTime
      BY <1>2, OutcomesAssumption DEF ClockTick, OutcomesInv
    <2>2. QED  BY <1>1, <1>2, <2>1 DEF ClockTick, OutcomesInv
  <1>3. ASSUME NEW u \in Reporters, ChangeMembership(u)
        PROVE  OutcomesInv'
    BY <1>1, <1>3 DEF ChangeMembership, OutcomesInv
  <1>4. CASE UNCHANGED outcomeVars
    BY <1>1, <1>4 DEF outcomeVars, OutcomesInv
  <1>5. QED
    BY <1>2, <1>3, <1>4, OpenKeeps, ListKeeps, ProgressKeeps, FormKeeps,
       InsertKeepsProgress DEF OutcomesNext

\* The page's invariant.
THEOREM OutcomesInvariance == OutcomesSpec => []OutcomesInv
  BY InitOutcomes, NextOutcomes, PTL DEF OutcomesSpec

LEMMA OutcomesTypes == OutcomesInv => OutcomesTypeOK
  <1> SUFFICES ASSUME OutcomesInv PROVE OutcomesTypeOK
    OBVIOUS
  <1>1. reports \in Seq(Report) /\ now \in 1..MaxTime /\ inGroup \subseteq Reporters
    BY DEF OutcomesInv
  <1>2. ASSUME NEW u \in Reporters
        PROVE  /\ groupPage[u].step \in PageState
               /\ groupPage[u].list \subseteq DOMAIN reports
               /\ groupPage[u].progress \in ProgressType
               /\ groupPage[u].reportedAt \in 0..MaxTime
    <2>1. groupPage[u] \in PageType /\ PageInOrder(groupPage[u])
      BY DEF OutcomesInv
    <2>2. groupPage[u].list \subseteq DOMAIN reports
      <3>1. PICK m \in 0..Len(reports) : groupPage[u].list = 1..m
        BY <2>1 DEF PageInOrder, ReadsPrefixes
      <3>2. 1..m \subseteq 1..Len(reports)
        BY <1>1, <3>1
      <3>3. QED  BY <1>1, <3>1, <3>2
    <2>3. QED  BY <2>1, <2>2 DEF PageType
  <1>3. QED  BY <1>1, <1>2 DEF OutcomesTypeOK, Report, ProgressType

\* Outcomes' types.
THEOREM OutcomesTypeCorrect == OutcomesSpec => []OutcomesTypeOK
  BY OutcomesInvariance, OutcomesTypes, PTL

\* The table of progress and the list agree where they count the same reports,
\* for any reporters and any order of dates and insertions.
THEOREM PagesAgree == OutcomesSpec => []ProgressAgrees
  <1>1. OutcomesInv => ProgressAgrees
    <2> SUFFICES ASSUME OutcomesInv, NEW u \in Reporters, NEW i \in Indicators,
                        groupPage[u].progress[i].count =
                           Cardinality(About(i, groupPage[u].list))
                 PROVE  LET ids == About(i, groupPage[u].list)
                            line == groupPage[u].progress[i]
                        IN  /\ \A r \in ids : reports[r].reportedAt <= line.latest
                            /\ ids # {} => \E r \in ids : reports[r].reportedAt = line.latest
      BY DEF ProgressAgrees
    <2> DEFINE line == groupPage[u].progress[i]
    <2>1. ReadsPrefixes(groupPage[u]) /\ reports \in Seq(Report)
      BY DEF OutcomesInv, PageInOrder
    <2>2. PICK m \in 0..Len(reports), n \in 0..Len(reports) :
             /\ groupPage[u].list = 1..m
             /\ line.count = Cardinality(About(i, 1..n))
             /\ IsLatest(line.latest, About(i, 1..n))
      BY <2>1 DEF ReadsPrefixes
    <2>3. Cardinality(About(i, 1..m)) = Cardinality(About(i, 1..n))
      BY <2>2
    <2>4. m \in Nat /\ n \in Nat
      BY <2>1
    <2>5. About(i, 1..m) \subseteq About(i, 1..n) \/ About(i, 1..n) \subseteq About(i, 1..m)
      <3>1. CASE m <= n
        BY <2>4, <3>1 DEF About
      <3>2. CASE n <= m
        BY <2>4, <3>2 DEF About
      <3>3. QED  BY <2>4, <3>1, <3>2
    <2>6. About(i, 1..m) = About(i, 1..n)
      BY <2>3, <2>4, <2>5, AboutIsFinite, FS_Subset
    <2>7. QED  BY <2>2, <2>6 DEF IsLatest
  <1>2. QED  BY <1>1, OutcomesInvariance, PTL

-------------------------------------------------------------------------------
(***************************************************************************)
(* Feeds.  Publications are numbered, so that of two published posts one   *)
(* is the newer: the posts ahead of each number them from 0 upwards, and   *)
(* the limit cuts off a beginning.  What was left out of a list stays      *)
(* older than the list, and what is published later is no part of it.      *)
(***************************************************************************)

PublishedAt(p) == postState[p].publishedAt

ClockInv ==
    /\ \A p \in Posts : /\ PublishedAt(p) <= published
                        /\ IsPublished(p) => PublishedAt(p) > 0
                        /\ postState[p].status \in {"absent", "held"} => PublishedAt(p) = 0
    /\ \A p, q \in Posts : PublishedAt(p) = PublishedAt(q) /\ PublishedAt(p) > 0 => p = q
    /\ Cardinality({p \in Posts : PublishedAt(p) > 0}) = published
    /\ screen.at <= published

FeedsInv == FeedsTypeOK /\ ClockInv /\ FreshPostsAreSeen

LEMMA PostFields ==
    ASSUME FeedsTypeOK, NEW p \in Posts
    PROVE  /\ PublishedAt(p) \in Nat
           /\ postState[p].status \in {"absent", "held", "published", "withdrawn"}
           /\ IsFiniteSet(Posts) /\ Cardinality(Posts) \in Nat
           /\ published \in Nat /\ screen.at \in Nat
  <1>1. IsFiniteSet(Posts) /\ Cardinality(Posts) \in Nat
    BY FeedsAssumption, FS_CardinalityType
  <1>2. QED  BY <1>1 DEF FeedsTypeOK, PublishedAt

LEMMA ZeroTo ==
    ASSUME NEW n \in Nat \ {0}
    PROVE  IsFiniteSet(0..(n - 1)) /\ Cardinality(0..(n - 1)) = n
  <1>1. 0 \in Int /\ n - 1 \in Int /\ ~(0 > n - 1) /\ n - 1 - 0 + 1 = n
    OBVIOUS
  <1>2. IsFiniteSet(0..(n - 1))
        /\ Cardinality(0..(n - 1)) = IF 0 > n - 1 THEN 0 ELSE n - 1 - 0 + 1
    BY <1>1, FS_Interval
  <1>3. QED  BY <1>1, <1>2

\* ORDER BY published_at DESC LIMIT: what is left out is older than all of the
\* list, and the list is full.
LEMMA NewestProperties ==
    ASSUME FeedsTypeOK, ClockInv, NEW posts, posts \subseteq Posts,
           \A p \in posts : IsPublished(p)
    PROVE  /\ Newest(posts) \subseteq posts
           /\ \A p \in posts \ Newest(posts) :
                 /\ Cardinality(Newest(posts)) = FeedLimit
                 /\ \A q \in Newest(posts) : PublishedAt(q) > PublishedAt(p)
  <1> DEFINE ahead(p) == {q \in posts : Newer(q, p)}
             rank(p) == Cardinality(ahead(p))
             n == Cardinality(posts)
             list == Newest(posts)
  <1>1. /\ list = {p \in posts : rank(p) < FeedLimit}
        /\ list \subseteq posts
    BY DEF Newest, WithinLimit
  <1>2. IsFiniteSet(posts) /\ n \in Nat
    BY FeedsAssumption, FS_Subset, FS_CardinalityType
  <1>3. \A p \in posts : PublishedAt(p) \in Nat \ {0}
    BY PostFields DEF ClockInv
  <1>4. \A p, q \in posts : p # q => Newer(p, q) \/ Newer(q, p)
    BY <1>3 DEF ClockInv, Newer, PublishedAt
  <1>5. ASSUME NEW p \in posts
        PROVE  /\ IsFiniteSet(ahead(p)) /\ rank(p) \in 0..(n - 1) /\ n # 0
               /\ p \notin ahead(p)
    <2>1. p \notin ahead(p)
      BY <1>3 DEF Newer, PublishedAt
    <2>2. ahead(p) \subseteq posts \ {p}
      BY <2>1
    <2>3. IsFiniteSet(posts \ {p}) /\ Cardinality(posts \ {p}) = n - 1
      BY <1>2, FS_RemoveElement
    <2>4. IsFiniteSet(ahead(p)) /\ rank(p) <= n - 1 /\ rank(p) \in Nat
      BY <2>2, <2>3, FS_Subset, FS_CardinalityType
    <2> HIDE DEF ahead
    <2>5. rank(p) \in 0..(n - 1) /\ n # 0
      BY <1>2, <2>4
    <2>6. QED  BY <2>1, <2>4, <2>5
  <1>6. ASSUME NEW p \in posts, NEW q \in posts, Newer(p, q)
        PROVE  rank(p) < rank(q)
    <2>1. ahead(p) \subseteq ahead(q)
      BY <1>3, <1>6 DEF Newer, PublishedAt
    <2>2. p \in ahead(q) /\ p \notin ahead(p)
      BY <1>5, <1>6
    <2>3. IsFiniteSet(ahead(q)) /\ rank(p) \in Nat /\ rank(q) \in Nat
      <3>1. IsFiniteSet(ahead(q)) /\ IsFiniteSet(ahead(p))
        BY <1>5
      <3>2. QED  BY <3>1, FS_CardinalityType
    <2> HIDE DEF ahead
    <2>4. rank(p) <= rank(q) /\ (rank(q) = rank(p) => ahead(q) = ahead(p))
      BY <2>1, <2>3, FS_Subset
    <2>5. rank(p) # rank(q)
      BY <2>2, <2>4
    <2>6. QED  BY <2>3, <2>4, <2>5
  <1> HIDE DEF ahead, list
  <1>7. \A p, q \in posts : rank(p) = rank(q) => p = q
    <2>1. \A p \in posts : rank(p) \in Int
      BY <1>2, <1>5
    <2>2. QED  BY <1>4, <1>6, <2>1
  <1>8. ASSUME NEW p \in posts, p \notin list
        PROVE  Cardinality(list) = FeedLimit
    <2> DEFINE f == [q \in posts |-> rank(q)]
               g == [q \in list |-> rank(q)]
    <2>1. FeedLimit \in Nat \ {0} /\ FeedLimit <= rank(p) /\ rank(p) \in 0..(n - 1)
      BY <1>1, <1>5, <1>8, FeedsAssumption
    <2>2. n \in Nat \ {0} /\ 0..(FeedLimit - 1) \subseteq 0..(n - 1)
      BY <1>2, <2>1
    <2>3. f \in [posts -> 0..(n - 1)]
      BY <1>5
    <2>4. f \in Injection(posts, 0..(n - 1))
      BY <1>7, <2>3 DEF Injection, IsInjective
    <2>5. f \in Surjection(posts, 0..(n - 1))
      BY <2>2, <2>4, ZeroTo, FS_Injection
    <2>6. \A k \in 0..(n - 1) : \E q \in posts : rank(q) = k
      BY <2>5 DEF Surjection
    <2>7. \A q \in list : q \in posts /\ rank(q) \in 0..(FeedLimit - 1)
      BY <1>1, <1>2, <1>5, <2>1
    <2>8. \A k \in 0..(FeedLimit - 1) : \E q \in list : rank(q) = k
      BY <1>1, <2>1, <2>2, <2>6
    <2> HIDE DEF rank
    <2>9. g \in [list -> 0..(FeedLimit - 1)]
      BY <2>7
    <2>10. g \in Bijection(list, 0..(FeedLimit - 1))
      BY <1>7, <2>7, <2>8, <2>9 DEF Bijection, Injection, Surjection, IsInjective
    <2>11. ExistsBijection(list, 0..(FeedLimit - 1))
      BY <2>10 DEF ExistsBijection
    <2>12. IsFiniteSet(list)
      BY <1>1, <1>2, FS_Subset
    <2>13. Cardinality(0..(FeedLimit - 1)) = Cardinality(list)
      BY <2>11, <2>12, FS_Bijection
    <2>14. QED  BY <2>1, <2>13, ZeroTo
  <1>9. ASSUME NEW p \in posts, p \notin list, NEW q \in list
        PROVE  PublishedAt(q) > PublishedAt(p)
    <2>1. q \in posts /\ rank(q) < FeedLimit /\ ~(rank(p) < FeedLimit)
      BY <1>1, <1>9
    <2>2. rank(p) \in Int /\ rank(q) \in Int /\ FeedLimit \in Int
      BY <1>2, <1>5, <2>1, FeedsAssumption
    <2>3. ~Newer(p, q) /\ p # q
      <3>1. rank(q) < rank(p)
        BY <2>1, <2>2
      <3>2. QED  BY <1>6, <2>1, <2>2, <3>1
    <2>4. Newer(q, p)
      BY <1>4, <2>1, <2>3
    <2>5. QED  BY <2>4 DEF Newer, PublishedAt
  <1>10. QED  BY <1>1, <1>8, <1>9 DEF list

\* A list of the newest, just read, leaves nothing newer out.
LEMMA JustRead ==
    ASSUME FeedsTypeOK, ClockInv, NEW posts, posts \subseteq Posts, NEW goals,
           \A p \in posts : IsPublished(p),
           \A p \in Posts : IsPublished(p) /\ TagsOf[p] \intersect goals # {} => p \in posts
    PROVE  NothingNewerLeftOut(Newest(posts), published, goals)
  BY NewestProperties DEF NothingNewerLeftOut, PublishedAt

\* What a list has left out it goes on having left out.
LEMMA LeftOutLasts ==
    ASSUME FeedsTypeOK, NEW list, list \subseteq Posts, NEW at, NEW goals,
           \A p \in Posts :
              /\ PublishedAt(p)' \in Nat /\ PublishedAt(p) <= PublishedAt(p)'
              /\ IsPublished(p)' => \/ IsPublished(p) /\ PublishedAt(p)' = PublishedAt(p)
                                    \/ PublishedAt(p)' > at,
           NothingNewerLeftOut(list, at, goals)
    PROVE  NothingNewerLeftOut(list, at, goals)'
  <1> SUFFICES ASSUME NEW p \in Posts, IsPublished(p)', TagsOf[p] \intersect goals # {},
                      ~(PublishedAt(p)' > at), p \notin list
               PROVE  /\ Cardinality(list) = FeedLimit
                      /\ \A q \in list : PublishedAt(q)' > PublishedAt(p)'
    BY DEF NothingNewerLeftOut, PublishedAt
  <1>1. IsPublished(p) /\ PublishedAt(p)' = PublishedAt(p)
    OBVIOUS
  <1>2. /\ Cardinality(list) = FeedLimit
        /\ \A q \in list : PublishedAt(q) > PublishedAt(p)
    BY <1>1 DEF NothingNewerLeftOut, PublishedAt
  <1>3. \A q \in list : PublishedAt(q) \in Nat /\ PublishedAt(q)' \in Nat
                        /\ PublishedAt(q) <= PublishedAt(q)'
    BY PostFields
  <1>4. PublishedAt(p) \in Nat
    BY PostFields
  <1>5. QED  BY <1>1, <1>2, <1>3, <1>4
\* The lists that are shown stay complete while posts are only created,
\* published and withdrawn.
LEMMA ListsStay ==
    ASSUME FeedsInv, UNCHANGED screen,
           \A p \in Posts :
              /\ PublishedAt(p)' \in Nat /\ PublishedAt(p) <= PublishedAt(p)'
              /\ IsPublished(p)' => \/ IsPublished(p) /\ PublishedAt(p)' = PublishedAt(p)
                                    \/ PublishedAt(p)' > screen.at
    PROVE  FreshPostsAreSeen'
  <1>1. PICK list, at, goals, follows :
           /\ list = screen.posts /\ at = screen.at
           /\ goals = screen.goals /\ follows = screen.follows
    OBVIOUS
  <1>2. /\ list = screen'.posts /\ at = screen'.at
        /\ goals = screen'.goals /\ follows = screen'.follows
        /\ screen'.page = screen.page /\ screen'.step = screen.step
    BY <1>1
  <1>3. list \subseteq Posts /\ FeedsTypeOK
    BY <1>1 DEF FeedsInv, FeedsTypeOK
  <1>4. ASSUME screen.page = "dashboard", screen.step # "read"
        PROVE  NothingNewerLeftOut(list, at, follows)'
    <2>1. NothingNewerLeftOut(list, at, follows)
      BY <1>1, <1>4 DEF FeedsInv, FreshPostsAreSeen, NothingNewerLeftOut
    <2>2. QED  BY <1>1, <1>3, <2>1, LeftOutLasts
  <1>5. ASSUME screen.page = "hub"
        PROVE  NothingNewerLeftOut(list, at, goals)'
    <2>1. NothingNewerLeftOut(list, at, goals)
      BY <1>1, <1>5 DEF FeedsInv, FreshPostsAreSeen, NothingNewerLeftOut
    <2>2. QED  BY <1>1, <1>3, <2>1, LeftOutLasts
  <1>6. QED
    BY <1>2, <1>4, <1>5 DEF FreshPostsAreSeen, NothingNewerLeftOut

LEMMA InitFeeds == FeedsInit => FeedsInv
  <1> SUFFICES ASSUME FeedsInit PROVE FeedsInv
    OBVIOUS
  <1>1. Cardinality(Posts) \in Nat
    BY FeedsAssumption, FS_CardinalityType
  <1>2. 0 \in 0..Cardinality(Posts)
    BY <1>1
  <1>3. FeedsTypeOK
    BY <1>2 DEF FeedsInit, FeedsTypeOK, Page, TabStep
  <1>4. {p \in Posts : PublishedAt(p) > 0} = {}
    BY DEF FeedsInit, PublishedAt
  <1>5. ClockInv
    <2>1. Cardinality({p \in Posts : PublishedAt(p) > 0}) = published
      BY <1>4, FS_EmptySet DEF FeedsInit
    <2>2. /\ \A p \in Posts : PublishedAt(p) = 0 /\ ~IsPublished(p)
          /\ published = 0 /\ screen.at = 0
      BY DEF FeedsInit, PublishedAt, IsPublished
    <2>3. QED  BY <2>1, <2>2 DEF ClockInv
  <1>6. FreshPostsAreSeen
    BY DEF FeedsInit, FreshPostsAreSeen
  <1>7. QED  BY <1>3, <1>5, <1>6 DEF FeedsInv

LEMMA AddKeepsFeeds ==
    ASSUME FeedsInv, NEW p \in Posts, AddPost(p)
    PROVE  FeedsInv'
  <1>1. FeedsTypeOK'
    BY DEF AddPost, FeedsInv, FeedsTypeOK
  <1>2. \A q \in Posts : PublishedAt(q)' = PublishedAt(q)
    BY DEF AddPost, FeedsInv, FeedsTypeOK, PublishedAt
  <1>3. \A q \in Posts : IsPublished(q)' => IsPublished(q)
    BY DEF AddPost, FeedsInv, FeedsTypeOK, IsPublished
  <1>4. ClockInv'
    <2>1. {q \in Posts : PublishedAt(q) > 0}' = {q \in Posts : PublishedAt(q) > 0}
      BY <1>2
    <2>2. \A q \in Posts : postState'[q].status \in {"absent", "held"} => PublishedAt(q)' = 0
      BY <1>2 DEF AddPost, FeedsInv, FeedsTypeOK, ClockInv
    <2>3. Cardinality({q \in Posts : PublishedAt(q) > 0})' = published'
      BY <2>1 DEF AddPost, FeedsInv, ClockInv
    <2>4. published' = published /\ screen' = screen
      BY DEF AddPost
    <2>5. \A q \in Posts : /\ PublishedAt(q)' <= published'
                           /\ IsPublished(q)' => PublishedAt(q)' > 0
      BY <1>2, <1>3, <2>4 DEF FeedsInv, ClockInv
    <2>6. \A q, r \in Posts :
             PublishedAt(q)' = PublishedAt(r)' /\ PublishedAt(q)' > 0 => q = r
      BY <1>2 DEF FeedsInv, ClockInv
    <2>7. QED  BY <2>2, <2>3, <2>4, <2>5, <2>6 DEF FeedsInv, ClockInv
  <1>5. FreshPostsAreSeen'
    BY <1>2, <1>3, ListsStay, PostFields DEF AddPost, FeedsInv
  <1>6. QED  BY <1>1, <1>4, <1>5 DEF FeedsInv

\* The publication that is added is the newest, and newer than any list.
LEMMA PublishKeepsFeeds ==
    ASSUME FeedsInv, NEW p \in Posts, PublishPost(p)
    PROVE  FeedsInv'
  <1> DEFINE dated == {q \in Posts : PublishedAt(q) > 0}
  <1>1. /\ published \in Nat /\ published' = published + 1 /\ PublishedAt(p) = 0
        /\ FeedsTypeOK /\ ClockInv
    BY DEF PublishPost, FeedsInv, FeedsTypeOK, ClockInv
  <1>2. /\ PublishedAt(p)' = published + 1
        /\ postState'[p].status = "published"
        /\ \A q \in Posts \ {p} : postState'[q] = postState[q]
    BY <1>1 DEF PublishPost, FeedsTypeOK, PublishedAt
  <1>3. \A q \in Posts \ {p} : PublishedAt(q)' = PublishedAt(q) /\ IsPublished(q)' = IsPublished(q)
    BY <1>2 DEF PublishedAt, IsPublished
  <1>4. \A q \in Posts : PublishedAt(q) \in Nat /\ PublishedAt(q) <= published
    BY <1>1, PostFields DEF ClockInv
  <1>5. p \notin dated /\ dated' = dated \union {p}
    BY <1>1, <1>2, <1>3
  <1>6. IsFiniteSet(dated) /\ Cardinality(dated) = published
    BY <1>1, FeedsAssumption, FS_Subset DEF ClockInv
  <1>7. IsFiniteSet(dated') /\ Cardinality(dated') = published + 1
    BY <1>5, <1>6, FS_AddElement
  <1>8. published + 1 <= Cardinality(Posts) /\ Cardinality(Posts) \in Nat
    BY <1>5, <1>7, FeedsAssumption, FS_Subset, FS_CardinalityType
  <1> HIDE DEF dated
  <1>9. FeedsTypeOK'
    <2>1. published' \in 0..Cardinality(Posts)
      BY <1>1, <1>8
    <2>2. QED  BY <1>1, <2>1 DEF PublishPost, FeedsTypeOK
  <1>10. ClockInv'
    <2>1. Cardinality({q \in Posts : PublishedAt(q) > 0})' = published'
      BY <1>1, <1>7 DEF dated
    <2>2. screen'.at <= published'
      BY <1>1, PostFields DEF PublishPost, ClockInv
    <2>3. ASSUME NEW q \in Posts
          PROVE  /\ PublishedAt(q)' <= published'
                 /\ IsPublished(q)' => PublishedAt(q)' > 0
                 /\ postState'[q].status \in {"absent", "held"} => PublishedAt(q)' = 0
      <3>1. CASE q = p
        BY <1>1, <1>2, <3>1
      <3>2. CASE q # p
        BY <1>1, <1>2, <1>3, <1>4, <3>2 DEF ClockInv
      <3>3. QED  BY <3>1, <3>2
    <2>4. ASSUME NEW q \in Posts, NEW r \in Posts,
                 PublishedAt(q)' = PublishedAt(r)', PublishedAt(q)' > 0
          PROVE  q = r
      <3>1. \A s \in Posts \ {p} : PublishedAt(s)' # published + 1
        BY <1>1, <1>3, <1>4
      <3>2. CASE q # p /\ r # p
        BY <1>1, <1>3, <2>4, <3>2 DEF ClockInv
      <3>3. QED  BY <1>2, <2>4, <3>1, <3>2
    <2>5. QED  BY <2>1, <2>2, <2>3, <2>4 DEF ClockInv
  <1>11. FreshPostsAreSeen'
    <2>1. screen.at \in Nat /\ screen.at <= published /\ UNCHANGED screen
      BY <1>1, PostFields DEF PublishPost, ClockInv
    <2>2. ASSUME NEW q \in Posts
          PROVE  /\ PublishedAt(q)' \in Nat /\ PublishedAt(q) <= PublishedAt(q)'
                 /\ IsPublished(q)' => \/ IsPublished(q) /\ PublishedAt(q)' = PublishedAt(q)
                                       \/ PublishedAt(q)' > screen.at
      <3>1. CASE q = p
        BY <1>1, <1>2, <2>1, <3>1
      <3>2. CASE q # p
        BY <1>3, <1>4, <3>2
      <3>3. QED  BY <3>1, <3>2
    <2>3. QED  BY <2>1, <2>2, ListsStay
  <1>12. QED  BY <1>9, <1>10, <1>11 DEF FeedsInv

LEMMA WithdrawKeepsFeeds ==
    ASSUME FeedsInv, NEW p \in Posts, WithdrawPost(p)
    PROVE  FeedsInv'
  <1>1. FeedsTypeOK'
    BY DEF WithdrawPost, FeedsInv, FeedsTypeOK
  <1>2. \A q \in Posts : PublishedAt(q)' = PublishedAt(q)
    BY DEF WithdrawPost, FeedsInv, FeedsTypeOK, PublishedAt
  <1>3. \A q \in Posts : IsPublished(q)' => IsPublished(q)
    BY DEF WithdrawPost, FeedsInv, FeedsTypeOK, IsPublished
  <1>4. ClockInv'
    <2>1. {q \in Posts : PublishedAt(q) > 0}' = {q \in Posts : PublishedAt(q) > 0}
      BY <1>2
    <2>2. \A q \in Posts : postState'[q].status \in {"absent", "held"} => PublishedAt(q)' = 0
      BY <1>2 DEF WithdrawPost, FeedsInv, FeedsTypeOK, ClockInv
    <2>3. Cardinality({q \in Posts : PublishedAt(q) > 0})' = published'
      BY <2>1 DEF WithdrawPost, FeedsInv, ClockInv
    <2>4. published' = published /\ screen' = screen
      BY DEF WithdrawPost
    <2>5. \A q \in Posts : /\ PublishedAt(q)' <= published'
                           /\ IsPublished(q)' => PublishedAt(q)' > 0
      BY <1>2, <1>3, <2>4 DEF FeedsInv, ClockInv
    <2>6. \A q, r \in Posts :
             PublishedAt(q)' = PublishedAt(r)' /\ PublishedAt(q)' > 0 => q = r
      BY <1>2 DEF FeedsInv, ClockInv
    <2>7. QED  BY <2>2, <2>3, <2>4, <2>5, <2>6 DEF FeedsInv, ClockInv
  <1>5. FreshPostsAreSeen'
    BY <1>2, <1>3, ListsStay, PostFields DEF WithdrawPost, FeedsInv
  <1>6. QED  BY <1>1, <1>4, <1>5 DEF FeedsInv

\* What leaves the posts alone leaves the clock alone, and a list that has just
\* been read carries its time.
LEMMA ClockStays ==
    ASSUME FeedsInv, UNCHANGED <<postState, published>>,
           screen'.at \in {0, screen.at, published}
    PROVE  ClockInv'
  <1>1. 0 <= published
    BY DEF FeedsInv, FeedsTypeOK
  <1>2. screen'.at <= published'
    BY <1>1 DEF FeedsInv, FeedsTypeOK, ClockInv
  <1>3. \A q \in Posts : PublishedAt(q)' = PublishedAt(q) /\ IsPublished(q)' = IsPublished(q)
    BY DEF PublishedAt, IsPublished
  <1>4. Cardinality({q \in Posts : PublishedAt(q) > 0})' = published'
    <2>1. {q \in Posts : PublishedAt(q) > 0}' = {q \in Posts : PublishedAt(q) > 0}
      BY <1>3
    <2>2. QED  BY <2>1 DEF FeedsInv, ClockInv
  <1>5. QED  BY <1>2, <1>3, <1>4 DEF FeedsInv, ClockInv

LEMMA TabsKeepFeeds ==
    ASSUME FeedsInv,
           \/ \E home \in Homes : JoinOrLeave(home)
           \/ \E g \in Goals : FollowOrUnfollow(g)
           \/ UNCHANGED feedVars
    PROVE  FeedsInv'
  <1>1. UNCHANGED <<postState, published, screen>>
    BY DEF JoinOrLeave, FollowOrUnfollow, feedVars
  <1>2. joined' \subseteq Homes /\ followed' \subseteq Goals
    BY DEF JoinOrLeave, FollowOrUnfollow, feedVars, Toggled, FeedsInv, FeedsTypeOK
  <1>3. FeedsTypeOK'
    BY <1>1, <1>2 DEF FeedsInv, FeedsTypeOK
  <1>4. ClockInv'
    BY <1>1, ClockStays
  <1>5. FreshPostsAreSeen'
    BY <1>1 DEF FeedsInv, FreshPostsAreSeen, NothingNewerLeftOut, IsPublished
  <1>6. QED  BY <1>3, <1>4, <1>5 DEF FeedsInv

\* A page that shows no list that has just been read: the dashboard before its
\* feed is there, or a group's page.
LEMMA PageKeepsFeeds ==
    ASSUME FeedsInv,
           OpenDashboard \/ (\E home \in Homes : OpenGroup(home))
    PROVE  FeedsInv'
  <1>1. UNCHANGED <<postState, published, joined, followed>>
    BY DEF OpenDashboard, OpenGroup
  <1>2. 0 \in 0..Cardinality(Posts)
    BY FeedsAssumption, FS_CardinalityType
  <1>3. \A home \in Homes : listPostsInGroup(home) \subseteq Posts
    BY DEF listPostsInGroup
  <1>4. FeedsTypeOK'
    <2>1. CASE OpenDashboard
      BY <1>1, <1>2, <2>1 DEF OpenDashboard, FeedsInv, FeedsTypeOK, Page, TabStep
    <2>2. ASSUME NEW home \in Homes, OpenGroup(home)
          PROVE  FeedsTypeOK'
      BY <1>1, <1>3, <2>2 DEF OpenGroup, FeedsInv, FeedsTypeOK, Page, TabStep
    <2>3. QED  BY <2>1, <2>2
  <1>5. ClockInv'
    <2>1. screen'.at \in {0, screen.at, published}
      BY DEF OpenDashboard, OpenGroup
    <2>2. QED  BY <1>1, <2>1, ClockStays
  <1>6. FreshPostsAreSeen'
    BY DEF OpenDashboard, OpenGroup, FreshPostsAreSeen
  <1>7. QED  BY <1>4, <1>5, <1>6 DEF FeedsInv

LEMMA FeedKeepsFeeds ==
    ASSUME FeedsInv, ReadFeed
    PROVE  FeedsInv'
  <1>1. UNCHANGED <<postState, published, joined, followed>>
    BY DEF ReadFeed
  <1>2. PICK goals, list, at :
           goals = screen.follows /\ list = listPostsForFeed(goals) /\ at = published
    OBVIOUS
  <1>3. NothingNewerLeftOut(list, at, goals) /\ list \subseteq Posts
    <2> DEFINE posts == {p \in Posts : IsPublished(p) /\
                            (HomeOf[p] \in joined \/ TagsOf[p] \intersect goals # {})}
    <2>1. /\ posts \subseteq Posts
          /\ \A p \in posts : IsPublished(p)
          /\ \A p \in Posts : IsPublished(p) /\ TagsOf[p] \intersect goals # {} => p \in posts
          /\ list = Newest(posts)
      BY <1>2 DEF listPostsForFeed
    <2> HIDE DEF posts
    <2>2. PICK found : found = posts
      OBVIOUS
    <2>3. NothingNewerLeftOut(Newest(found), published, goals)
      BY <2>1, <2>2, JustRead DEF FeedsInv
    <2>4. Newest(found) \subseteq found
      BY DEF Newest
    <2>5. QED  BY <1>2, <2>1, <2>2, <2>3, <2>4
  <1>4. /\ screen'.page = "dashboard" /\ screen'.posts = list /\ screen'.at = at
        /\ screen'.follows = goals
    BY <1>2 DEF ReadFeed, FeedsInv, FeedsTypeOK
  <1>5. FeedsTypeOK'
    BY <1>1, <1>2, <1>3 DEF ReadFeed, FeedsInv, FeedsTypeOK, TabStep
  <1>6. ClockInv'
    BY <1>1, <1>2, <1>4, ClockStays
  <1>7. FreshPostsAreSeen'
    BY <1>1, <1>3, <1>4 DEF FreshPostsAreSeen, NothingNewerLeftOut, IsPublished
  <1>8. QED  BY <1>5, <1>6, <1>7 DEF FeedsInv

LEMMA HubKeepsFeeds ==
    ASSUME FeedsInv, NEW g \in Goals, OpenHub(g)
    PROVE  FeedsInv'
  <1>1. UNCHANGED <<postState, published, joined, followed>>
    BY DEF OpenHub
  <1>2. PICK list, at : list = listPostsBySdg(g) /\ at = published
    OBVIOUS
  <1>3. NothingNewerLeftOut(list, at, {g}) /\ list \subseteq Posts
    <2>1. PICK posts : posts = {p \in Posts : IsPublished(p) /\ g \in TagsOf[p]}
      OBVIOUS
    <2>2. /\ posts \subseteq Posts
          /\ \A p \in posts : IsPublished(p)
          /\ \A p \in Posts : IsPublished(p) /\ TagsOf[p] \intersect {g} # {} => p \in posts
          /\ list = Newest(posts)
      BY <1>2, <2>1 DEF listPostsBySdg
    <2>3. NothingNewerLeftOut(Newest(posts), published, {g})
      BY <2>2, JustRead DEF FeedsInv
    <2>4. Newest(posts) \subseteq posts
      BY DEF Newest
    <2>5. QED  BY <1>2, <2>2, <2>3, <2>4
  <1>4. /\ screen'.page = "hub" /\ screen'.posts = list /\ screen'.at = at
        /\ screen'.goals = {g}
    BY <1>2 DEF OpenHub
  <1>5. FeedsTypeOK'
    BY <1>1, <1>2, <1>3 DEF OpenHub, FeedsInv, FeedsTypeOK, Page, TabStep
  <1>6. ClockInv'
    BY <1>1, <1>2, <1>4, ClockStays
  <1>7. FreshPostsAreSeen'
    BY <1>1, <1>3, <1>4 DEF FreshPostsAreSeen, NothingNewerLeftOut, IsPublished
  <1>8. QED  BY <1>5, <1>6, <1>7 DEF FeedsInv

\* The hub learns what is followed, and a button is pressed: the list stays.
LEMMA ButtonKeepsFeeds ==
    ASSUME FeedsInv,
           ReadFollowing \/ (\E g \in Goals : PressFollow(g))
    PROVE  FeedsInv'
  <1>1. UNCHANGED <<postState, published, joined>> /\ followed' \subseteq Goals
    BY DEF ReadFollowing, PressFollow, FeedsInv, FeedsTypeOK
  <1>2. /\ screen'.page = screen.page /\ screen'.posts = screen.posts
        /\ screen'.at = screen.at /\ screen'.goals = screen.goals
        /\ screen.page # "hub" => screen'.follows = screen.follows /\ screen.step # "read"
    BY DEF ReadFollowing, PressFollow, FeedsInv, FeedsTypeOK
  <1>3. FeedsTypeOK'
    <2>1. CASE ReadFollowing
      BY <1>1, <2>1 DEF ReadFollowing, FeedsInv, FeedsTypeOK, TabStep
    <2>2. CASE \E g \in Goals : PressFollow(g)
      BY <1>1, <2>2 DEF PressFollow, FeedsInv, FeedsTypeOK, TabStep
    <2>3. QED  BY <2>1, <2>2
  <1>4. ClockInv'
    BY <1>1, <1>2, ClockStays
  <1>5. FreshPostsAreSeen'
    BY <1>1, <1>2 DEF FeedsInv, FreshPostsAreSeen, NothingNewerLeftOut, IsPublished
  <1>6. QED  BY <1>3, <1>4, <1>5 DEF FeedsInv

LEMMA NextFeeds == FeedsInv /\ [FeedsNext]_feedVars => FeedsInv'
  BY AddKeepsFeeds, PublishKeepsFeeds, WithdrawKeepsFeeds, TabsKeepFeeds, PageKeepsFeeds,
     FeedKeepsFeeds, HubKeepsFeeds, ButtonKeepsFeeds DEF FeedsNext

\* The feeds' invariant.
THEOREM FeedsInvariance == FeedsSpec => []FeedsInv
  BY InitFeeds, NextFeeds, PTL DEF FeedsSpec

\* Feeds' types: the clock stops at the number of the posts.
THEOREM FeedsTypeCorrect == FeedsSpec => []FeedsTypeOK
  <1>1. FeedsInv => FeedsTypeOK
    BY DEF FeedsInv
  <1>2. QED  BY <1>1, FeedsInvariance, PTL

\* Feed and hub leave out nothing that was published after what they show, for
\* any number of posts and any limit.
THEOREM FreshIsSeen == FeedsSpec => []FreshPostsAreSeen
  <1>1. FeedsInv => FreshPostsAreSeen
    BY DEF FeedsInv
  <1>2. QED  BY <1>1, FeedsInvariance, PTL
-------------------------------------------------------------------------------
(***************************************************************************)
(* Listings.  Rows are only added, so that a row never moves to an earlier *)
(* place: what the reader has not been shown stands on the page he is      *)
(* about to read or behind it, and once its rows are read, behind it,      *)
(* among as many rows as the list had there.                               *)
(***************************************************************************)

Behind(ids, n) == \A id \in ids : \E i \in DOMAIN table : i > n /\ table[i] = id

Fits(ids, n) == ids = {} \/ Cardinality(ids) <= n

Unshown == owed \ seen

ListInv ==
    /\ ListTypeOK
    /\ Len(table) <= MaxRows
    /\ \A i, j \in DOMAIN table : table[i] = table[j] => i = j
    /\ \A i \in DOMAIN table : table[i] <= Len(table)
    /\ reader.stood \in Nat /\ reader.total \in Nat
    /\ reader.gotRows \in BOOLEAN
    /\ reader = [step |-> reader.step, page |-> reader.page, rows |-> reader.rows,
                 gotRows |-> reader.gotRows, stood |-> reader.stood,
                 total |-> reader.total, gotTotal |-> reader.gotTotal]

PlacesInv ==
    LET p == reader.page
        missed == IF reader.step = "shown" THEN Unshown ELSE Unshown \ reader.rows
    IN  /\ reader.step = "nothing" => owed = {}
        /\ reader.step = "reading" /\ ~reader.gotRows => Behind(Unshown, (p - 1) * PageSize)
        /\ reader.step = "shown" \/ (reader.step = "reading" /\ reader.gotRows) =>
              /\ Behind(missed, p * PageSize)
              /\ Fits(missed, reader.stood - p * PageSize)

ListingsInv == ListInv /\ PlacesInv

\* Multiples of the page size.
LEMMA Multiples ==
    ASSUME NEW p \in Nat \ {0}
    PROVE  /\ PageSize \in Nat /\ PageSize > 0
           /\ p * PageSize \in Nat /\ (p - 1) * PageSize \in Nat
           /\ p * PageSize = (p - 1) * PageSize + PageSize
           /\ (p - 2) * PageSize <= p * PageSize
           /\ (p + 1 - 1) * PageSize = p * PageSize
  <1>1. PageSize \in Nat \ {0}
    BY ListingsAssumption
  <1>2. PICK s \in Nat : s = PageSize
    BY <1>1
  <1>3. p * s = (p - 1) * s + s
    BY <1>2
  <1>4. p * s \in Nat /\ (p - 1) * s \in Nat
    BY <1>2
  <1>5. (p - 2) * s = p * s - s - s /\ p + 1 - 1 = p
    BY <1>2
  <1>6. QED  BY <1>1, <1>2, <1>3, <1>4, <1>5

\* No further page: the total fits on the pages up to this one.
LEMMA LastPage ==
    ASSUME NEW p \in Nat \ {0}, NEW n \in Nat, ~(p < PageCount(n))
    PROVE  n <= p * PageSize
  <1>1. PICK s \in Nat \ {0} : s = PageSize
    BY ListingsAssumption
  <1>2. PICK q : q = (n + s - 1) \div s
    OBVIOUS
  <1>3. q \in Int /\ n + s - 1 < (q + 1) * s
    BY <1>1, <1>2
  <1>4. q <= p
    BY <1>1, <1>2, <1>3 DEF PageCount
  <1>5. (q + 1) * s <= (p + 1) * s
    BY <1>3, <1>4
  <1>6. (p + 1) * s = p * s + s /\ p * s \in Int /\ (q + 1) * s \in Int
    BY <1>3
  <1>7. n + s - 1 < p * s + s
    BY <1>3, <1>5, <1>6
  <1>8. QED  BY <1>1, <1>6, <1>7

\* Each group is one row, whoever its members are: the rows ahead of the group at
\* place i are the i - 1 places before it.
LEMMA PageRows ==
    ASSUME ListInv, NEW p \in Nat \ {0}
    PROVE  PageOf(p) = {table[i] : i \in {r \in DOMAIN table :
                           r > (p - 1) * PageSize /\ r <= p * PageSize}}
  <1>1. DOMAIN table = 1..Len(table) /\ Len(table) \in Nat
    BY DEF ListInv, ListTypeOK
  <1>2. Grouped = DOMAIN table
    <2>1. Grouped \subseteq DOMAIN table
      BY DEF Grouped, Joined
    <2>2. ASSUME NEW i \in DOMAIN table
          PROVE  i \in Grouped
      <3>1. memberCount[table[i]] \in 0..MaxMembers /\ MaxMembers \in Nat
        BY ListingsAssumption DEF ListInv, ListTypeOK
      <3>2. CASE memberCount[table[i]] = 0
        <4>1. <<i, 0>> \in Joined
          BY <3>1, <3>2 DEF Joined
        <4>2. QED  BY <4>1 DEF Grouped
      <3>3. CASE memberCount[table[i]] # 0
        <4>1. <<i, 1>> \in Joined
          BY <3>1, <3>3 DEF Joined
        <4>2. QED  BY <4>1 DEF Grouped
      <3>4. QED  BY <3>2, <3>3
    <2>3. QED  BY <2>1, <2>2
  <1>3. ASSUME NEW i \in DOMAIN table
        PROVE  RowsAhead(i) = i - 1
    <2>1. i - 1 \in Nat
      BY <1>1
    <2>2. {other \in Grouped : other < i} = 1..(i - 1)
      BY <1>1, <1>2
    <2>3. QED  BY <2>1, <2>2, FirstNaturals DEF RowsAhead
  <1>4. (p - 1) * PageSize \in Nat /\ p * PageSize \in Nat
    BY Multiples
  <1>5. \A i \in DOMAIN table :
           (RowsAhead(i) >= (p - 1) * PageSize /\ RowsAhead(i) < p * PageSize) <=>
           (i > (p - 1) * PageSize /\ i <= p * PageSize)
    BY <1>1, <1>3, <1>4
  <1>6. QED  BY <1>2, <1>5 DEF PageOf

\* The rows in a stretch of the table are no more than the stretch is long.
LEMMA Stretch ==
    ASSUME ListInv, NEW m \in Nat, NEW n \in Nat, m <= n, NEW ids,
           \A id \in ids : \E i \in DOMAIN table : i > m /\ i <= n /\ table[i] = id
    PROVE  IsFiniteSet(ids) /\ Cardinality(ids) <= n - m
  <1>1. DOMAIN table = 1..Len(table) /\ Len(table) \in Nat
    BY DEF ListInv, ListTypeOK
  <1> DEFINE places == (m + 1)..n
             f == [i \in places |-> IF i \in DOMAIN table THEN table[i] ELSE 0]
             image == {f[i] : i \in places}
  <1>2. IsFiniteSet(places) /\ Cardinality(places) = n - m
    <2>1. IsFiniteSet(places)
          /\ Cardinality(places) = IF m + 1 > n THEN 0 ELSE n - (m + 1) + 1
      BY FS_Interval
    <2>2. QED  BY <2>1
  <1>3. IsFiniteSet(image) /\ Cardinality(image) <= n - m
    <2> HIDE DEF places, f
    <2>1. f \in Surjection(places, image)
      BY DEF f, Surjection
    <2>2. IsFiniteSet(image) /\ Cardinality(image) <= Cardinality(places)
      BY <1>2, <2>1, FS_Surjection
    <2>3. QED  BY <1>2, <2>2
  <1>4. ids \subseteq image
    <2>1. ASSUME NEW id \in ids
          PROVE  id \in image
      <3>1. PICK i \in DOMAIN table : i > m /\ i <= n /\ table[i] = id
        OBVIOUS
      <3>2. i \in places
        BY <1>1, <3>1
      <3>3. f[i] = id
        BY <3>1, <3>2
      <3>4. QED  BY <3>2, <3>3
    <2>2. QED  BY <2>1
  <1> HIDE DEF image
  <1>5. IsFiniteSet(ids) /\ Cardinality(ids) <= Cardinality(image)
    BY <1>3, <1>4, FS_Subset
  <1>6. Cardinality(ids) \in Nat /\ Cardinality(image) \in Nat
    BY <1>3, <1>5, FS_CardinalityType
  <1>7. QED  BY <1>3, <1>5, <1>6

LEMMA InitListings == ListInit => ListingsInv
  <1> SUFFICES ASSUME ListInit PROVE ListingsInv
    OBVIOUS
  <1>1. table = <<>> /\ Len(table) = 0 /\ DOMAIN table = {} /\ table \in Seq(Ids)
    BY DEF ListInit
  <1>2. Cardinality({}) = 0 /\ PageSize \in Nat
    BY FS_EmptySet, ListingsAssumption
  <1>3. reader = [step |-> "nothing", page |-> 1, rows |-> {}, gotRows |-> FALSE,
                  stood |-> 0, total |-> 0, gotTotal |-> FALSE]
    BY DEF ListInit, Reading
  <1>4. memberCount \in [Ids -> 0..MaxMembers]
    BY ListingsAssumption DEF ListInit
  <1>5. ListTypeOK
    <2>1. Cardinality(reader.rows) <= PageSize /\ reader.rows \subseteq Ids
      BY <1>2, <1>3
    <2>2. reader.step \in PageStep /\ reader.page \in Nat \ {0}
      BY <1>3 DEF PageStep
    <2>3. QED  BY <1>1, <1>4, <2>1, <2>2 DEF ListInit, ListTypeOK
  <1>6. ListInv
    BY <1>1, <1>3, <1>5, ListingsAssumption DEF ListInv
  <1>7. PlacesInv
    BY <1>3 DEF ListInit, PlacesInv
  <1>8. QED  BY <1>6, <1>7 DEF ListingsInv
\* A new row, at any place: every other row keeps its place or moves back by one.
LEMMA RowIsInserted ==
    ASSUME ListInv, InsertRow
    PROVE  /\ table' \in Seq(Ids) /\ Len(table') = Len(table) + 1
           /\ \A i \in DOMAIN table :
                 \E j \in DOMAIN table' : j >= i /\ table'[j] = table[i]
           /\ \A i, j \in DOMAIN table' : table'[i] = table'[j] => i = j
           /\ \A i \in DOMAIN table' : table'[i] <= Len(table')
  <1> DEFINE n == Len(table)
             new == n + 1
  <1>1. /\ n \in Nat /\ DOMAIN table = 1..n /\ n < MaxRows /\ MaxRows \in Nat
        /\ table \in Seq(Ids) /\ new \in Ids
    BY ListingsAssumption DEF InsertRow, ListInv, ListTypeOK, Ids
  <1>2. PICK at \in 1..(n + 1) : table' = InsertAt(table, at, new)
    <2>1. PICK later \in 0..MaxOverlap :
             /\ later <= n
             /\ table' = InsertAt(table, IF listing = "directory" THEN n - later + 1
                                         ELSE later + 1, new)
      BY DEF InsertRow
    <2>2. later \in Nat
      BY ListingsAssumption
    <2>3. (IF listing = "directory" THEN n - later + 1 ELSE later + 1) \in 1..(n + 1)
      BY <1>1, <2>1, <2>2
    <2>4. QED  BY <2>1, <2>3
  <1> DEFINE list == [i \in 1..(n + 1) |-> IF i < at THEN table[i]
                                            ELSE IF i = at THEN new ELSE table[i - 1]]
  <1>3. table' = list
    <2> DEFINE head == SubSeq(table, 1, at - 1)
               tail == SubSeq(table, at, n)
               front == head \o <<new>>
    <2>1. /\ head \in Seq(Ids) /\ Len(head) = at - 1
          /\ \A i \in 1..(at - 1) : head[i] = table[i]
      BY <1>1, SubSeqProperties
    <2>2. /\ tail \in Seq(Ids) /\ Len(tail) = n - at + 1
          /\ \A i \in 1..(n - at + 1) : tail[i] = table[at + i - 1]
      BY <1>1, SubSeqProperties
    <2>3. <<new>> \in Seq(Ids) /\ Len(<<new>>) = 1 /\ <<new>>[1] = new
      BY <1>1
    <2> HIDE DEF head, tail
    <2>4. /\ front \in Seq(Ids) /\ Len(front) = at
          /\ \A i \in 1..at : front[i] = IF i < at THEN table[i] ELSE new
      <3>1. front \in Seq(Ids) /\ Len(front) = at
        BY <1>1, <2>1, <2>3
      <3>2. \A i \in 1..at : front[i] = IF i <= Len(head) THEN head[i]
                                       ELSE <<new>>[i - Len(head)]
        BY <1>1, <2>1, <2>3, <3>1
      <3>3. \A i \in 1..at : i \in Nat /\ (i < at => i \in 1..(at - 1) /\ i <= Len(head))
                             /\ (~(i < at) => i - Len(head) = 1 /\ ~(i <= Len(head)))
        BY <1>1, <2>1
      <3>4. QED  BY <2>1, <2>3, <3>1, <3>2, <3>3
    <2> HIDE DEF front
    <2>5. /\ front \o tail \in Seq(Ids) /\ Len(front \o tail) = n + 1
          /\ \A i \in 1..(n + 1) : (front \o tail)[i] =
                IF i <= at THEN front[i] ELSE tail[i - at]
      <3>1. at + (n - at + 1) = n + 1
        BY <1>1
      <3>2. QED  BY <2>2, <2>4, <3>1, ConcatProperties
    <2>6. \A i \in 1..(n + 1) : (front \o tail)[i] = list[i]
      <3>1. ASSUME NEW i \in 1..(n + 1)
            PROVE  (front \o tail)[i] = list[i]
        <4>1. CASE i <= at
          BY <1>1, <2>4, <2>5, <4>1
        <4>2. CASE i > at
          <5>1. i - at \in 1..(n - at + 1) /\ at + (i - at) - 1 = i - 1
            BY <1>1, <4>2
          <5>2. tail[i - at] = table[i - 1]
            BY <2>2, <5>1
          <5>3. ~(i <= at) /\ ~(i < at) /\ i # at
            BY <1>1, <4>2
          <5>4. (front \o tail)[i] = tail[i - at]
            BY <2>5, <5>3
          <5>5. list[i] = table[i - 1]
            BY <5>3
          <5>6. QED  BY <5>2, <5>4, <5>5
        <4>3. i <= at \/ i > at
          BY <1>1
        <4> HIDE DEF list
        <4>4. QED  BY <4>1, <4>2, <4>3
      <3>2. QED  BY <3>1
    <2>7. table' = front \o tail
      BY <1>2 DEF InsertAt, front, head, tail
    <2>8. front \o tail \in [1..(n + 1) -> Ids]
      BY <2>5, LenProperties
    <2> HIDE DEF list
    <2>9. front \o tail = [i \in 1..(n + 1) |-> (front \o tail)[i]]
      BY <2>8
    <2>10. list = [i \in 1..(n + 1) |-> list[i]]
      BY DEF list
    <2>11. QED  BY <2>6, <2>7, <2>9, <2>10
  <1>4. /\ DOMAIN table' = 1..(n + 1)
        /\ \A i \in 1..(n + 1) : table'[i] \in Ids
    <2>1. \A i \in 1..n : table[i] \in Ids
      BY <1>1
    <2>2. \A i \in 1..(n + 1) : (i < at => i \in 1..n) /\ (i > at => i - 1 \in 1..n)
                               /\ (i < at \/ i = at \/ i > at)
      BY <1>1
    <2>3. QED  BY <1>1, <1>3, <2>1, <2>2
  <1>5. table' \in Seq(Ids) /\ Len(table') = n + 1
    BY <1>1, <1>4, <1>3, SeqDef
  <1>6. ASSUME NEW i \in DOMAIN table
        PROVE  \E j \in DOMAIN table' : j >= i /\ table'[j] = table[i]
    <2>1. CASE i < at
      <3>1. i \in 1..(n + 1) /\ i >= i
        BY <1>1
      <3>2. QED  BY <1>3, <1>4, <2>1, <3>1
    <2>2. CASE ~(i < at)
      <3>1. i + 1 \in 1..(n + 1) /\ i + 1 >= i /\ ~(i + 1 < at) /\ i + 1 # at
            /\ i + 1 - 1 = i
        BY <1>1, <2>2
      <3>2. table'[i + 1] = table[i]
        BY <1>3, <3>1
      <3>3. QED  BY <1>4, <3>1, <3>2
    <2>3. QED  BY <2>1, <2>2
  <1>7. \A i \in 1..n : table[i] \in Nat /\ table[i] <= n
    BY <1>1 DEF ListInv, Ids
  <1>8. ASSUME NEW i \in 1..(n + 1)
        PROVE  \/ i = at /\ table'[i] = n + 1
               \/ i < at /\ i \in 1..n /\ table'[i] = table[i]
               \/ i > at /\ i - 1 \in 1..n /\ table'[i] = table[i - 1]
    BY <1>1, <1>3
  <1>9. \A i \in DOMAIN table' : table'[i] <= Len(table')
    <2>1. ASSUME NEW i \in 1..(n + 1)
          PROVE  table'[i] <= n + 1
      <3>1. \A k \in 1..n : table[k] <= n + 1
        BY <1>1, <1>7
      <3>2. n + 1 <= n + 1
        BY <1>1
      <3>3. QED  BY <1>8, <3>1, <3>2
    <2>2. QED  BY <1>4, <1>5, <2>1
  <1>10. ASSUME NEW i \in 1..(n + 1), NEW j \in 1..(n + 1), table'[i] = table'[j]
         PROVE  i = j
    <2>1. \A k, l \in 1..n : table[k] = table[l] => k = l
      BY <1>1 DEF ListInv
    <2> HIDE DEF list
    <2>2. CASE i = at \/ j = at
      BY <1>1, <1>7, <1>8, <1>10, <2>2
    <2>3. CASE i # at /\ j # at
      BY <1>1, <1>8, <1>10, <2>1, <2>3
    <2>4. QED  BY <2>2, <2>3
  <1>11. QED  BY <1>4, <1>5, <1>6, <1>9, <1>10

LEMMA InsertKeepsListings ==
    ASSUME ListingsInv, InsertRow
    PROVE  ListingsInv'
  <1>1. /\ UNCHANGED <<listing, reader, seen, owed>>
        /\ ListInv /\ Len(table) \in Nat /\ Len(table) < MaxRows /\ MaxRows \in Nat
    <2>1. /\ UNCHANGED <<listing, reader, seen, owed>>
          /\ Len(table) < MaxRows
      BY DEF InsertRow
    <2>2. ListInv /\ ListTypeOK
      BY DEF ListingsInv, ListInv
    <2>3. Len(table) \in Nat
      BY <2>2 DEF ListTypeOK
    <2>4. QED  BY <2>1, <2>2, <2>3, ListingsAssumption
  <1>2. memberCount' \in [Ids -> 0..MaxMembers]
    <2>1. 0 \in 0..MaxMembers /\ 1 \in 0..MaxMembers
      BY ListingsAssumption
    <2>2. QED  BY <1>1, <2>1 DEF InsertRow, ListInv, ListTypeOK
  <1>3. ListTypeOK'
    BY <1>1, <1>2, RowIsInserted DEF ListInv, ListTypeOK
  <1>4. ListInv'
    <2>1. Len(table') <= MaxRows
      BY <1>1, RowIsInserted
    <2>2. QED  BY <1>1, <1>3, <2>1, RowIsInserted DEF ListInv
  <1>5. ASSUME NEW ids, NEW n \in Nat, Behind(ids, n)
        PROVE  Behind(ids, n)'
    <2>1. DOMAIN table \subseteq Nat /\ DOMAIN table' \subseteq Nat
      BY <1>1, RowIsInserted DEF ListInv, ListTypeOK
    <2>2. ASSUME NEW id \in ids
          PROVE  \E j \in DOMAIN table' : j > n /\ table'[j] = id
      <3>1. PICK i \in DOMAIN table : i > n /\ table[i] = id
        BY <1>5 DEF Behind
      <3>2. PICK j \in DOMAIN table' : j >= i /\ table'[j] = table[i]
        BY <1>1, RowIsInserted
      <3>3. QED  BY <2>1, <3>1, <3>2
    <2>3. QED  BY <2>2 DEF Behind
  <1>6. PlacesInv'
    <2>1. PICK unshown, left, p, s :
             /\ unshown = Unshown /\ left = Unshown \ reader.rows
             /\ p = reader.page * PageSize /\ s = (reader.page - 1) * PageSize
      OBVIOUS
    <2>2. unshown = Unshown' /\ left = (Unshown \ reader.rows)'
      BY <1>1, <2>1 DEF Unshown
    <2>3. p \in Nat /\ s \in Nat
      BY <1>1, <2>1, Multiples DEF ListInv, ListTypeOK
    <2>4. /\ Behind(unshown, s) => Behind(unshown, s)'
          /\ Behind(unshown, p) => Behind(unshown, p)'
          /\ Behind(left, p) => Behind(left, p)'
      BY <1>5, <2>3
    <2>5. PlacesInv
      BY DEF ListingsInv
    <2>6. QED  BY <1>1, <2>1, <2>2, <2>4, <2>5 DEF PlacesInv, Behind, Fits
  <1>7. QED  BY <1>4, <1>6 DEF ListingsInv
LEMMA MembersKeepListings ==
    ASSUME ListingsInv, NEW id \in Ids, ChangeMembers(id)
    PROVE  ListingsInv'
  <1>1. UNCHANGED <<listing, table, reader, seen, owed>>
    BY DEF ChangeMembers
  <1>2. memberCount' \in [Ids -> 0..MaxMembers]
    BY DEF ChangeMembers, ListingsInv, ListInv, ListTypeOK
  <1>3. ListInv'
    BY <1>1, <1>2 DEF ListingsInv, ListInv, ListTypeOK
  <1>4. PlacesInv'
    BY <1>1 DEF ListingsInv, PlacesInv, Behind, Fits, Unshown
  <1>5. QED  BY <1>3, <1>4 DEF ListingsInv

\* The types of a reader who begins page p.
LEMMA ReaderBegins ==
    ASSUME ListInv, UNCHANGED <<listing, table, memberCount>>,
           NEW p \in Nat \ {0}, reader' = Reading(p), seen' \subseteq Ids, owed' \subseteq Ids
    PROVE  ListInv'
  <1>1. reader' = [step |-> "reading", page |-> p, rows |-> {}, gotRows |-> FALSE,
                   stood |-> 0, total |-> 0, gotTotal |-> FALSE]
    BY DEF Reading
  <1>2. Cardinality(reader'.rows) <= PageSize /\ reader'.rows \subseteq Ids
    BY <1>1, FS_EmptySet, ListingsAssumption
  <1>3. reader'.step \in PageStep /\ reader'.page \in Nat \ {0}
    BY <1>1 DEF PageStep
  <1>4. ListTypeOK'
    BY <1>2, <1>3 DEF ListInv, ListTypeOK
  <1>5. QED  BY <1>1, <1>4 DEF ListInv

LEMMA OpenKeepsListings ==
    ASSUME ListingsInv, NEW raw \in 0..2, OpenPage(raw)
    PROVE  ListingsInv'
  <1>1. PICK p \in Nat \ {0} :
           /\ reader' = Reading(p)
           /\ owed' = {table[place] : place \in {r \in DOMAIN table : r > (p - 1) * PageSize}}
           /\ UNCHANGED <<listing, table, memberCount, seen>>
    <2>1. (IF raw < 1 THEN 1 ELSE raw) \in Nat \ {0}
      OBVIOUS
    <2>2. QED  BY <2>1 DEF OpenPage
  <1>2. owed' \subseteq Ids /\ seen' \subseteq Ids
    BY <1>1 DEF ListingsInv, ListInv, ListTypeOK
  <1>3. ListInv'
    BY <1>1, <1>2, ReaderBegins DEF ListingsInv
  <1>4. reader'.step = "reading" /\ ~reader'.gotRows /\ reader'.page = p
    BY <1>1 DEF Reading
  <1>5. Behind(Unshown, (p - 1) * PageSize)'
    BY <1>1 DEF Behind, Unshown
  <1>6. PlacesInv'
    BY <1>4, <1>5 DEF PlacesInv
  <1>7. QED  BY <1>3, <1>6 DEF ListingsInv

\* What is not on the page stands behind it, among as many rows as there are.
LEMMA RowsKeepListings ==
    ASSUME ListingsInv, ReadRows
    PROVE  ListingsInv'
  <1>0. PICK p : p = reader.page
    OBVIOUS
  <1> DEFINE missed == Unshown \ PageOf(p)
  <1>1. /\ UNCHANGED <<listing, table, memberCount, seen, owed>>
        /\ reader.step = "reading" /\ ~reader.gotRows
        /\ reader' = [reader EXCEPT !.rows = PageOf(p), !.gotRows = TRUE, !.stood = Len(table)]
    BY <1>0 DEF ReadRows
  <1>2. ListInv /\ PlacesInv /\ p \in Nat \ {0} /\ Len(table) \in Nat
        /\ DOMAIN table = 1..Len(table)
    BY <1>0 DEF ListingsInv, ListInv, ListTypeOK
  <1>3. /\ PageOf(p) = {table[i] : i \in {r \in DOMAIN table :
                           r > (p - 1) * PageSize /\ r <= p * PageSize}}
        /\ (p - 1) * PageSize \in Nat /\ p * PageSize \in Nat
        /\ p * PageSize = (p - 1) * PageSize + PageSize
        /\ PageSize \in Nat
    BY <1>2, PageRows, Multiples
  <1>4. reader' = [step |-> "reading", page |-> p, rows |-> PageOf(p), gotRows |-> TRUE,
                   stood |-> Len(table), total |-> reader.total, gotTotal |-> reader.gotTotal]
    BY <1>0, <1>1, <1>2 DEF ListInv
  <1>5. PageOf(p) \subseteq Ids /\ Cardinality(PageOf(p)) <= PageSize
    <2>1. PICK m \in Nat, n \in Nat : m = (p - 1) * PageSize /\ n = p * PageSize
      BY <1>3
    <2>2. \A id \in PageOf(p) : \E i \in DOMAIN table : i > m /\ i <= n /\ table[i] = id
      BY <1>3, <2>1
    <2>3. m <= n /\ n - m = PageSize
      BY <1>3, <2>1
    <2>4. Cardinality(PageOf(p)) <= n - m
      BY <1>2, <2>2, <2>3, Stretch
    <2>5. PageOf(p) \subseteq Ids
      BY <1>2, <2>2 DEF ListInv, ListTypeOK
    <2>6. QED  BY <2>3, <2>4, <2>5
  <1>6. ListInv'
    <2>1. ListTypeOK'
      BY <1>1, <1>2, <1>4, <1>5 DEF ListInv, ListTypeOK, PageStep
    <2>2. QED  BY <1>1, <1>2, <1>4, <2>1 DEF ListInv
  <1>7. ASSUME NEW id \in missed
        PROVE  \E i \in DOMAIN table : i > p * PageSize /\ table[i] = id
    <2>1. PICK i \in DOMAIN table : i > (p - 1) * PageSize /\ table[i] = id
      BY <1>0, <1>1, <1>2, <1>7 DEF PlacesInv, Behind
    <2>2. ~(i <= p * PageSize)
      BY <1>3, <1>7, <2>1
    <2>3. i \in Nat
      BY <1>2, <2>1
    <2>4. QED  BY <1>3, <2>1, <2>2, <2>3
  <1>8. Fits(missed, Len(table) - p * PageSize)
    <2>1. PICK m \in Nat, n \in Nat : m = p * PageSize /\ n = Len(table)
      BY <1>2, <1>3
    <2>2. \A id \in missed : \E i \in DOMAIN table : i > m /\ i <= n /\ table[i] = id
      BY <1>2, <1>7, <2>1
    <2>3. CASE m <= n
      BY <1>2, <2>1, <2>2, <2>3, Stretch DEF Fits
    <2>4. CASE ~(m <= n)
      <3>1. \A i \in DOMAIN table : ~(i > m /\ i <= n)
        BY <1>2, <2>4
      <3>2. missed = {}
        BY <2>2, <3>1
      <3>3. QED  BY <3>2 DEF Fits
    <2>5. QED  BY <2>3, <2>4
  <1>9. PlacesInv'
    <2>1. /\ reader'.step = "reading" /\ reader'.gotRows /\ reader'.page = p
          /\ reader'.stood = Len(table) /\ (Unshown \ reader.rows)' = missed
      <3>1. Unshown' = Unshown
        BY <1>1 DEF Unshown
      <3>2. reader'.rows = PageOf(p)
        BY <1>4
      <3>3. (Unshown \ reader.rows)' = missed
        BY <3>1, <3>2
      <3>4. /\ reader'.step = "reading" /\ reader'.gotRows /\ reader'.page = p
            /\ reader'.stood = Len(table)
        BY <1>4
      <3>5. QED  BY <3>3, <3>4
    <2>2. Behind(Unshown \ reader.rows, p * PageSize)'
      BY <1>1, <1>7, <2>1 DEF Behind
    <2>3. Fits((Unshown \ reader.rows)', reader'.stood - p * PageSize)
      BY <1>8, <2>1
    <2>4. QED  BY <2>1, <2>2, <2>3 DEF PlacesInv, Fits
  <1>10. QED  BY <1>6, <1>9 DEF ListingsInv

LEMMA TotalKeepsListings ==
    ASSUME ListingsInv, ReadTotal
    PROVE  ListingsInv'
  <1>1. /\ UNCHANGED <<listing, table, memberCount, seen, owed>>
        /\ ListInv /\ PlacesInv /\ Len(table) \in Nat
        /\ reader' = [step |-> reader.step, page |-> reader.page, rows |-> reader.rows,
                      gotRows |-> reader.gotRows, stood |-> reader.stood,
                      total |-> Len(table), gotTotal |-> TRUE]
    <2>1. ListInv /\ PlacesInv /\ Len(table) \in Nat
      BY DEF ListingsInv, ListInv, ListTypeOK
    <2>2. UNCHANGED <<listing, table, memberCount, seen, owed>>
          /\ reader' = [reader EXCEPT !.total = Len(table), !.gotTotal = TRUE]
      BY DEF ReadTotal
    <2>3. QED  BY <2>1, <2>2 DEF ListInv
  <1>2. ListTypeOK'
    BY <1>1 DEF ListInv, ListTypeOK
  <1>3. ListInv'
    BY <1>1, <1>2 DEF ListInv
  <1>4. PlacesInv'
    BY <1>1 DEF PlacesInv, Behind, Fits, Unshown
  <1>5. QED  BY <1>3, <1>4 DEF ListingsInv

LEMMA ShowKeepsListings ==
    ASSUME ListingsInv, ShowPage
    PROVE  ListingsInv'
  <1>1. /\ UNCHANGED <<listing, table, memberCount, owed>>
        /\ ListInv /\ PlacesInv /\ reader.step = "reading" /\ reader.gotRows
        /\ seen' = seen \union reader.rows
        /\ reader' = [step |-> "shown", page |-> reader.page, rows |-> reader.rows,
                      gotRows |-> reader.gotRows, stood |-> reader.stood,
                      total |-> reader.total, gotTotal |-> reader.gotTotal]
    BY DEF ShowPage, ListingsInv, ListInv
  <1>2. ListTypeOK'
    BY <1>1 DEF ListInv, ListTypeOK, PageStep
  <1>3. ListInv'
    BY <1>1, <1>2 DEF ListInv
  <1>4. Unshown' = Unshown \ reader.rows
    BY <1>1 DEF Unshown
  <1>5. PlacesInv'
    BY <1>1, <1>4 DEF PlacesInv, Behind, Fits
  <1>6. QED  BY <1>3, <1>5 DEF ListingsInv

\* Next, and Previous: what was not shown stands behind the page that was.
LEMMA TurnKeepsListings ==
    ASSUME ListingsInv, NextPage \/ PrevPage
    PROVE  ListingsInv'
  <1>1. /\ UNCHANGED <<listing, table, memberCount, seen, owed>>
        /\ ListInv /\ PlacesInv /\ reader.step = "shown" /\ reader.page \in Nat \ {0}
        /\ seen \subseteq Ids /\ owed \subseteq Ids
    BY DEF NextPage, PrevPage, ListingsInv, ListInv, ListTypeOK
  <1> DEFINE at == reader.page
  <1>2. at \in Nat \ {0} /\ (PrevPage => at > 1)
    BY <1>1 DEF PrevPage, hasPrev
  <1> HIDE DEF at
  <1>3. PICK p \in Nat \ {0} : reader' = Reading(p) /\ p \in {at + 1, at - 1}
    <2>1. CASE NextPage
      <3>1. at + 1 \in Nat \ {0} /\ reader' = Reading(at + 1)
        BY <1>2, <2>1 DEF NextPage, at
      <3>2. QED  BY <3>1
    <2>2. CASE PrevPage
      <3>1. at - 1 \in Nat \ {0} /\ reader' = Reading(at - 1)
        BY <1>2, <2>2 DEF PrevPage, at
      <3>2. QED  BY <3>1
    <2>3. QED  BY <2>1, <2>2
  <1>4. ListInv' /\ (p - 1) * PageSize <= at * PageSize
    <2>1. ListInv'
      BY <1>1, <1>3, ReaderBegins
    <2>2. CASE p = at + 1
      <3>1. p - 1 = at
        BY <1>2, <2>2
      <3>2. at * PageSize \in Nat
        BY <1>2, Multiples
      <3>3. QED  BY <2>1, <3>1, <3>2
    <2>3. CASE p = at - 1
      <3>1. p - 1 = at - 2
        BY <1>2, <2>3
      <3>2. QED  BY <1>2, <2>1, <3>1, Multiples
    <2>4. QED  BY <1>3, <2>2, <2>3
  <1>5. PICK m \in Int, n \in Int : m = (p - 1) * PageSize /\ n = at * PageSize
    BY <1>2, <1>3, Multiples
  <1>6. Behind(Unshown, n)
    BY <1>1, <1>5 DEF PlacesInv, at
  <1>7. Behind(Unshown, m)
    <2>1. m <= n /\ DOMAIN table \subseteq Int
      BY <1>1, <1>4, <1>5 DEF ListInv, ListTypeOK
    <2>2. \A i \in DOMAIN table : i > n => i > m
      BY <2>1
    <2>3. QED  BY <1>6, <2>2 DEF Behind
  <1>8. reader'.step = "reading" /\ ~reader'.gotRows /\ reader'.page = p
    BY <1>3 DEF Reading
  <1>9. Behind(Unshown, (reader.page - 1) * PageSize)'
    BY <1>1, <1>5, <1>7, <1>8 DEF Behind, Unshown
  <1>10. PlacesInv'
    BY <1>8, <1>9 DEF PlacesInv
  <1>11. QED  BY <1>4, <1>10 DEF ListingsInv

LEMMA NextListings == ListingsInv /\ [ListNext]_listVars => ListingsInv'
  <1>1. ASSUME ListingsInv, UNCHANGED listVars
        PROVE  ListingsInv'
    BY <1>1 DEF listVars, ListingsInv, ListInv, ListTypeOK, PlacesInv, Behind, Fits, Unshown
  <1>2. QED
    BY <1>1, InsertKeepsListings, MembersKeepListings, OpenKeepsListings, RowsKeepListings,
       TotalKeepsListings, ShowKeepsListings, TurnKeepsListings DEF ListNext

\* The lists' invariant.
THEOREM ListingsInvariance == ListSpec => []ListingsInv
  BY InitListings, NextListings, PTL DEF ListSpec

\* Listings' types.
THEOREM ListingsTypeCorrect == ListSpec => []ListTypeOK
  <1>1. ListingsInv => ListTypeOK
    BY DEF ListingsInv, ListInv
  <1>2. QED  BY <1>1, ListingsInvariance, PTL

\* Whoever follows Next to the end has been shown all he began with, but for what
\* was inserted between the two reads of the last page, for lists of any length,
\* pages of any size and any number of rows that overtake others.
THEOREM NothingIsMissed == ListSpec => []PagesMissNothing
  <1>1. ListingsInv => PagesMissNothing
    <2> SUFFICES ASSUME ListingsInv, reader.step = "shown", ~hasNext, Unshown # {}
                 PROVE  Cardinality(Unshown) <= reader.stood - reader.total
      BY DEF PagesMissNothing, Unshown
    <2>1. /\ reader.page \in Nat \ {0} /\ reader.total \in Nat /\ reader.stood \in Nat
          /\ PlacesInv
      BY DEF ListingsInv, ListInv, ListTypeOK
    <2>2. PICK n \in Nat : n = reader.page * PageSize
      BY <2>1, Multiples
    <2>3. reader.total <= n
      BY <2>1, <2>2, LastPage DEF hasNext
    <2>4. Fits(Unshown, reader.stood - n)
      BY <2>1, <2>2 DEF PlacesInv
    <2>5. Cardinality(Unshown) <= reader.stood - n
      BY <2>4 DEF Fits
    <2>6. IsFiniteSet(Unshown)
      <3>1. IsFiniteSet(Ids) /\ Unshown \subseteq Ids
        BY ListingsAssumption, FirstNaturals DEF Ids, Unshown, ListingsInv, ListInv, ListTypeOK
      <3>2. QED  BY <3>1, FS_Subset
    <2>7. Cardinality(Unshown) \in Nat
      BY <2>6, FS_CardinalityType
    <2>8. QED  BY <2>1, <2>2, <2>3, <2>5, <2>7
  <1>2. QED  BY <1>1, ListingsInvariance, PTL

-------------------------------------------------------------------------------
(***************************************************************************)
(* The services side by side.                                              *)
(***************************************************************************)

\* While one of the services moves the others stand still, and each keeps its
\* invariant.
ServicesInv ==
    /\ McpInv
    /\ RateInv
    /\ RowsInv
    /\ AgentInv
    /\ NotesInv
    /\ PageInv
    /\ FormInv
    /\ GuardInv
    /\ ListingsInv
    /\ FeedsInv
    /\ OutcomesInv

LEMMA OneAtATime ==
    ASSUME [ServicesNext]_servicesVars
    PROVE  /\ [McpNext]_mcpVars
           /\ [RateNext]_rateVars
           /\ [TrNext]_trVars
           /\ [AgentNext]_agentVars
           /\ [NotesNext]_noteVars
           /\ [PageNext]_pageVars
           /\ [FormNext]_formVars
           /\ [GuardNext]_guardVars
           /\ [ListNext]_listVars
           /\ [FeedsNext]_feedVars
           /\ [OutcomesNext]_outcomeVars
  BY DEF ServicesNext, servicesVars, NotMcpServer, NotRateLimit, NotTranslationCache,
     NotCommunityAgent, NotNotifications, NotPostPage, NotPostForm, NotGuardAdapter,
     NotListings, NotFeeds, NotOutcomes

\* The services keep their types, whichever of them is in use.
THEOREM ServicesTypeCorrect == ServicesSpec => []ServicesTypeOK
  <1>1. ServicesInit => ServicesInv
    BY InitMcpInv, InitRate, InitRows, InitAgentInv, InitNotesInv, InitThread, InitForm,
       InitGuard, InitListings, InitFeeds, InitOutcomes
    DEF ServicesInit, Inits, ServicesInv
  <1>2. ServicesInv /\ [ServicesNext]_servicesVars => ServicesInv'
    BY OneAtATime, NextMcpInv, NextRate, NextRows, NextAgentInv, NextNotesInv, NextThread,
       NextForm, NextGuard, NextListings, NextFeeds, NextOutcomes
    DEF ServicesInv
  <1>3. ServicesInv => ServicesTypeOK
    BY OutcomesTypes
    DEF ServicesInv, ServicesTypeOK, McpInv, RateInv, RowsInv, AgentInv, NotesInv,
        NotesTypeInv, PageInv, FormInv, GuardInv, ListingsInv, ListInv, FeedsInv
  <1> QED
    BY <1>1, <1>2, <1>3, PTL DEF ServicesSpec
===============================================================================
