-------------------------- MODULE NotificationsProofs --------------------------
(***************************************************************************)
(* Proofs about Notifications, for any finite set of notifications, any    *)
(* number of tabs and any size of the bell.                                *)
(*                                                                         *)
(* A bell is filled from the layout's query and from the stream, and both  *)
(* name rows as they were some steps ago.  The invariant therefore also    *)
(* speaks of what is on its way: an event to be emitted or on the wire has *)
(* its row (WayInv), and while a tab waits for the answer to a mark, what  *)
(* the answer will mark is read, or the update has not reached it: it came *)
(* afterwards, or there was no session (MarkingInv).                       *)
(***************************************************************************)
EXTENDS Notifications, FiniteSetTheorems, SequenceTheorems, TLAPS

Entry == [id : Notes, read : BOOLEAN]

Distinct(entries) ==
    \A i, j \in DOMAIN entries : entries[i].id = entries[j].id => i = j

\* Only what has a row is on its way to tab t.
WayInv(t) == \A i \in DOMAIN wire[t] : row[wire[t][i]] # "absent"

\* The row is read, or it is known why the bell of tab t may say so.
Accounted(t, n) == row[n] = "read" \/ n \in unsaved[t]

\* The same after a step, of a notification named before it.
AccountedNext(t, n) == row'[n] = "read" \/ n \in unsaved'[t]

BellInv(t) ==
    /\ Len(bell[t]) <= BellSize
    /\ Distinct(bell[t])
    /\ \A i \in DOMAIN bell[t] :
          /\ row[bell[t][i].id] # "absent"
          /\ bell[t][i].read => Accounted(t, bell[t][i].id)

\* What the answer that tab t waits for will mark is accounted for.
MarkingInv(t) ==
    /\ marking[t] \in Notes => Accounted(t, marking[t])
    /\ marking[t] = All => \A i \in DOMAIN bell[t] : Accounted(t, bell[t][i].id)

\* Nothing goes on in a tab before its layout is loaded.
UnmountedInv(t) ==
    stream[t] = "unmounted" => wire[t] = <<>> /\ bell[t] = <<>> /\ marking[t] = None

TabInv(t) == WayInv(t) /\ BellInv(t) /\ MarkingInv(t) /\ UnmountedInv(t)

NotesTypeInv ==
    /\ NotesTypeOK
    /\ drops \in 0..MaxDrops
    /\ deadListeners <= drops

NotesInv ==
    /\ NotesTypeInv
    /\ \A n \in emitting : row[n] # "absent"
    /\ \A t \in Tabs : TabInv(t)

-------------------------------------------------------------------------------
(***************************************************************************)
(* The bell's operators.                                                   *)
(***************************************************************************)

LEMMA EntriesNamed ==
    ASSUME NEW s \in Seq(Entry)
    PROVE  \A i \in DOMAIN s : s[i] \in Entry /\ s[i].id \in Notes /\ s[i].read \in BOOLEAN
  <1>1. \A i \in DOMAIN s : s[i] \in Entry
    OBVIOUS
  <1>2. QED  BY <1>1 DEF Entry

\* slice(0, BellSize).
LEMMA CutProperties ==
    ASSUME NEW s \in Seq(Entry)
    PROVE  /\ Cut(s) \in Seq(Entry)
           /\ Len(Cut(s)) <= BellSize
           /\ \A i \in DOMAIN Cut(s) : i \in DOMAIN s /\ Cut(s)[i] = s[i]
  <1>1. Len(s) \in Nat /\ DOMAIN s = 1..Len(s) /\ BellSize \in Nat \ {0}
    BY NotificationAssumption
  <1>2. CASE Len(s) > BellSize
    <2>1. Cut(s) = SubSeq(s, 1, BellSize)
      BY <1>2 DEF Cut
    <2>2. \A i \in 1..BellSize : i \in DOMAIN s /\ s[i] \in Entry
      BY <1>1, <1>2
    <2>3. /\ SubSeq(s, 1, BellSize) \in Seq(Entry)
          /\ Len(SubSeq(s, 1, BellSize)) = BellSize
          /\ \A i \in 1..BellSize : SubSeq(s, 1, BellSize)[i] = s[i]
      BY <1>1, <2>2
    <2>4. DOMAIN SubSeq(s, 1, BellSize) = 1..BellSize
      BY <2>3
    <2>5. QED  BY <1>1, <2>1, <2>2, <2>3, <2>4
  <1>3. CASE ~(Len(s) > BellSize)
    BY <1>1, <1>3 DEF Cut
  <1>4. QED  BY <1>2, <1>3

\* What an event leaves in the bell: what was there, and its own entry at most
\* once.
LEMMA WithProperties ==
    ASSUME NEW s \in Seq(Entry), NEW n \in Notes, Len(s) <= BellSize, Distinct(s)
    PROVE  /\ With(s, n) \in Seq(Entry)
           /\ Len(With(s, n)) <= BellSize
           /\ Distinct(With(s, n))
           /\ \A i \in DOMAIN With(s, n) :
                 \/ \E k \in DOMAIN s : With(s, n)[i] = s[k]
                 \/ With(s, n)[i] = [id |-> n, read |-> FALSE]
  <1>1. CASE n \in Names(s)
    BY <1>1 DEF With
  <1>2. CASE n \notin Names(s)
    <2> DEFINE e == [id |-> n, read |-> FALSE]
               u == <<e>> \o s
    <2>1. e \in Entry /\ e.id = n
      BY DEF Entry
    <2> HIDE DEF e
    <2>2. /\ u \in Seq(Entry) /\ Len(u) = Len(s) + 1 /\ Len(s) \in Nat
          /\ DOMAIN u = 1..Len(s) + 1 /\ DOMAIN s = 1..Len(s)
          /\ u[1] = e
          /\ \A i \in 2..Len(s) + 1 : i - 1 \in DOMAIN s /\ u[i] = s[i - 1]
      BY <2>1
    <2>3. \A k \in DOMAIN s : s[k].id # n
      BY <1>2 DEF Names
    <2> HIDE DEF u
    <2>4. Distinct(u)
      <3> SUFFICES ASSUME NEW i \in DOMAIN u, NEW j \in DOMAIN u, u[i].id = u[j].id
                   PROVE  i = j
        BY DEF Distinct
      <3>1. CASE i = 1 /\ j = 1
        BY <3>1
      <3>2. CASE i = 1 /\ j # 1
        BY <2>1, <2>2, <2>3, <3>2
      <3>3. CASE i # 1 /\ j = 1
        BY <2>1, <2>2, <2>3, <3>3
      <3>4. CASE i # 1 /\ j # 1
        <4>1. i - 1 \in DOMAIN s /\ j - 1 \in DOMAIN s /\ s[i - 1].id = s[j - 1].id
          BY <2>2, <3>4
        <4>2. i - 1 = j - 1
          BY <4>1 DEF Distinct
        <4>3. QED  BY <2>2, <4>2
      <3>5. QED  BY <3>1, <3>2, <3>3, <3>4
    <2>5. With(s, n) = Cut(u)
      BY <1>2 DEF With, u, e
    <2>6. /\ Cut(u) \in Seq(Entry) /\ Len(Cut(u)) <= BellSize
          /\ \A i \in DOMAIN Cut(u) : i \in DOMAIN u /\ Cut(u)[i] = u[i]
      BY <2>2, CutProperties
    <2>7. Distinct(Cut(u))
      BY <2>4, <2>6 DEF Distinct
    <2>8. \A i \in DOMAIN Cut(u) :
             (\E k \in DOMAIN s : Cut(u)[i] = s[k]) \/ Cut(u)[i] = e
      <3> SUFFICES ASSUME NEW i \in DOMAIN Cut(u)
                   PROVE  (\E k \in DOMAIN s : Cut(u)[i] = s[k]) \/ Cut(u)[i] = e
        OBVIOUS
      <3>1. i \in 1..Len(s) + 1 /\ Cut(u)[i] = u[i]
        BY <2>2, <2>6
      <3>2. CASE i = 1
        BY <2>2, <3>1, <3>2
      <3>3. CASE i # 1
        <4>1. i \in 2..Len(s) + 1
          BY <2>2, <3>1, <3>3
        <4>2. i - 1 \in DOMAIN s /\ Cut(u)[i] = s[i - 1]
          BY <2>2, <3>1, <4>1
        <4>3. QED  BY <4>2
      <3>4. QED  BY <3>2, <3>3
    <2>9. QED  BY <2>5, <2>6, <2>7, <2>8 DEF e
  <1>3. QED  BY <1>1, <1>2

\* The layout's bell: some of the unread rows, each once, unread.
LEMMA LayoutProperties ==
    ASSUME NEW unread \in SUBSET Notes, NEW order \in SetToSeqs(unread)
    PROVE  LET loaded == Cut([i \in DOMAIN order |-> [id |-> order[i], read |-> FALSE]])
           IN  /\ loaded \in Seq(Entry)
               /\ Len(loaded) <= BellSize
               /\ Distinct(loaded)
               /\ \A i \in DOMAIN loaded : loaded[i].id \in unread /\ ~loaded[i].read
  <1> DEFINE N == Cardinality(unread)
             s == [i \in DOMAIN order |-> [id |-> order[i], read |-> FALSE]]
  <1>1. N \in Nat
    BY NotificationAssumption, FS_Subset, FS_CardinalityType
  <1>2. /\ order \in [1..N -> unread]
        /\ \A i, j \in 1..N : i # j => order[i] # order[j]
    BY DEF SetToSeqs
  <1> HIDE DEF N
  <1>3. s \in [1..N -> Entry] /\ \A i \in 1..N : s[i].id = order[i] /\ ~s[i].read
    BY <1>2 DEF Entry
  <1>4. s \in Seq(Entry) /\ DOMAIN s = 1..N
    BY <1>1, <1>3, SeqDef
  <1> HIDE DEF s
  <1>5. /\ Cut(s) \in Seq(Entry) /\ Len(Cut(s)) <= BellSize
        /\ \A i \in DOMAIN Cut(s) : i \in DOMAIN s /\ Cut(s)[i] = s[i]
    BY <1>4, CutProperties
  <1>6. Distinct(Cut(s))
    BY <1>2, <1>3, <1>4, <1>5 DEF Distinct
  <1>7. \A i \in DOMAIN Cut(s) : Cut(s)[i].id \in unread /\ ~Cut(s)[i].read
    BY <1>2, <1>3, <1>4, <1>5
  <1>8. QED  BY <1>5, <1>6, <1>7 DEF s

-------------------------------------------------------------------------------
(***************************************************************************)
(* The properties follow from the invariant, and it holds initially.       *)
(***************************************************************************)

LEMMA BellsAreRight == NotesInv => BellNamesOnce /\ BellReadIsRowRead
  <1> SUFFICES ASSUME NotesInv PROVE BellNamesOnce /\ BellReadIsRowRead
    OBVIOUS
  <1>1. \A t \in Tabs : BellInv(t)
    BY DEF NotesInv, TabInv
  <1>2. BellNamesOnce
    BY <1>1 DEF BellInv, Distinct, BellNamesOnce, Names
  <1>3. BellReadIsRowRead
    BY <1>1 DEF BellInv, BellReadIsRowRead, Accounted
  <1>4. QED  BY <1>2, <1>3

LEMMA InitNotesInv == NotesInit => NotesInv
  <1> SUFFICES ASSUME NotesInit PROVE NotesInv
    OBVIOUS
  <1>1. NotesTypeInv
    BY NotificationAssumption DEF NotesInit, NotesTypeInv, NotesTypeOK
  <1>2. ASSUME NEW t \in Tabs PROVE TabInv(t)
    <2>1. wire[t] = <<>> /\ bell[t] = <<>> /\ marking[t] = None
      BY <1>2 DEF NotesInit
    <2>2. BellSize \in Nat /\ None \notin Notes /\ None # All
      BY NotificationAssumption DEF None, All
    <2>3. QED
      BY <2>1, <2>2 DEF TabInv, WayInv, BellInv, Distinct, MarkingInv, UnmountedInv
  <1>3. QED  BY <1>1, <1>2 DEF NotesInv, NotesInit

-------------------------------------------------------------------------------
(***************************************************************************)
(* Every step keeps it.                                                    *)
(***************************************************************************)

\* A row stays, and stays read.
RowsKept ==
    \A n \in Notes :
        /\ row[n] # "absent" => row'[n] # "absent"
        /\ row[n] = "read" => row'[n] = "read"

AccountsKept(t) == \A n \in Notes : Accounted(t, n) => AccountedNext(t, n)

\* What is no longer noted as unsaved is read.
LEMMA StillAccounted ==
    ASSUME NotesTypeInv, RowsKept, NEW rows, row' = rows,
           NEW entries \in [Tabs -> SUBSET Notes], unsaved' = StillUnread(entries, rows)
    PROVE  /\ unsaved' \in [Tabs -> SUBSET Notes]
           /\ \A t \in Tabs : \A n \in entries[t] : AccountedNext(t, n)
           /\ \A t \in Tabs : unsaved[t] \subseteq entries[t] => AccountsKept(t)
  <1>1. unsaved' = [t \in Tabs |-> {n \in entries[t] : row'[n] # "read"}]
    BY DEF StillUnread
  <1>2. unsaved' \in [Tabs -> SUBSET Notes]
    BY <1>1
  <1>3. ASSUME NEW t \in Tabs, NEW n \in entries[t] PROVE AccountedNext(t, n)
    BY <1>1, <1>3 DEF AccountedNext
  <1>4. ASSUME NEW t \in Tabs, unsaved[t] \subseteq entries[t] PROVE AccountsKept(t)
    BY <1>3, <1>4 DEF AccountsKept, Accounted, AccountedNext, RowsKept
  <1>5. QED  BY <1>2, <1>3, <1>4

\* A tab that a step leaves alone: an update of the rows does it no harm.
LEMMA TabStays ==
    ASSUME NotesTypeInv, RowsKept, NEW t \in Tabs, TabInv(t), wire'[t] = wire[t],
           bell'[t] = bell[t], marking'[t] = marking[t],
           unsaved'[t] = unsaved[t] \/ AccountsKept(t),
           stream'[t] = stream[t] \/ stream'[t] # "unmounted"
    PROVE  TabInv(t)'
  <1>1. /\ wire[t] \in Seq(Notes)
        /\ bell[t] \in Seq(Entry)
    BY DEF NotesTypeInv, NotesTypeOK, Entry
  <1>2. \A i \in DOMAIN wire[t] : wire[t][i] \in Notes
    BY <1>1
  <1>3. \A i \in DOMAIN bell[t] : bell[t][i].id \in Notes
    BY <1>1, EntriesNamed
  <1>4. AccountsKept(t)
    BY DEF AccountsKept, Accounted, AccountedNext, RowsKept
  <1>5. WayInv(t)'
    <2>1. WayInv(t)
      BY DEF TabInv
    <2>2. \A i \in DOMAIN wire[t] : row'[wire[t][i]] # "absent"
      BY <1>2, <2>1 DEF WayInv, RowsKept
    <2>3. QED  BY <2>2 DEF WayInv
  <1>6. BellInv(t)'
    BY <1>3, <1>4 DEF TabInv, BellInv, RowsKept, AccountsKept, Accounted, AccountedNext
  <1>7. MarkingInv(t)'
    <2>1. MarkingInv(t)
      BY DEF TabInv
    <2>2. marking[t] \in Notes => Accounted(t, marking[t])'
      BY <1>4, <2>1 DEF MarkingInv, AccountsKept, Accounted, AccountedNext
    <2>3. ASSUME marking[t] = All, NEW i \in DOMAIN bell[t]
          PROVE  Accounted(t, bell[t][i].id)'
      BY <1>3, <1>4, <2>1, <2>3 DEF MarkingInv, AccountsKept, Accounted, AccountedNext
    <2>4. QED  BY <2>2, <2>3 DEF MarkingInv
  <1>8. UnmountedInv(t)'
    BY DEF TabInv, UnmountedInv
  <1>9. QED  BY <1>5, <1>6, <1>7, <1>8 DEF TabInv

\* What the bell of one tab shows is replaced by s.
LEMMA BellType ==
    ASSUME NotesTypeOK, NEW t \in Tabs, NEW s \in Seq(Entry),
           bell' = [bell EXCEPT ![t] = s]
    PROVE  /\ bell' \in [Tabs -> Seq(Entry)]
           /\ bell'[t] = s
           /\ \A o \in Tabs \ {t} : bell'[o] = bell[o]
  <1>1. bell \in [Tabs -> Seq(Entry)]
    BY DEF NotesTypeOK, Entry
  <1>2. QED  BY <1>1

LEMMA InsertNotesInv ==
    ASSUME NotesInv, NEW n \in Notes, InsertNote(n)
    PROVE  NotesInv'
  <1>1. /\ row' = [row EXCEPT ![n] = "unread"] /\ row[n] = "absent"
        /\ emitting' \subseteq emitting \union {n}
        /\ UNCHANGED <<signedIn, stream, listener, deadListeners, wire, drops, bell,
                       marking, unsaved>>
    BY DEF InsertNote, streamVars, bellVars
  <1>2. /\ NotesTypeInv /\ row \in [Notes -> {"absent", "unread", "read"}]
        /\ emitting \subseteq Notes
    BY DEF NotesInv, NotesTypeInv, NotesTypeOK
  <1>3. NotesTypeInv'
    BY <1>1, <1>2 DEF NotesTypeInv, NotesTypeOK
  <1>4. RowsKept /\ row'[n] # "absent"
    BY <1>1, <1>2 DEF RowsKept
  <1>5. \A m \in emitting' : row'[m] # "absent"
    BY <1>1, <1>2, <1>4 DEF NotesInv, RowsKept
  <1>6. \A t \in Tabs : TabInv(t)'
    BY <1>1, <1>2, <1>4, TabStays DEF NotesInv
  <1>7. QED  BY <1>3, <1>5, <1>6 DEF NotesInv

LEMMA EmitNotesInv ==
    ASSUME NotesInv, NEW n \in Notes, EmitNote(n)
    PROVE  NotesInv'
  <1>1. /\ n \in emitting /\ emitting' = emitting \ {n} /\ deadListeners' = 0
        /\ wire' = [t \in Tabs |-> IF t \in listener THEN Append(wire[t], n) ELSE wire[t]]
        /\ UNCHANGED <<signedIn, row, stream, listener, drops, bell, marking,
                       unsaved>>
    BY DEF EmitNote, bellVars
  <1>2. NotesTypeInv /\ wire \in [Tabs -> Seq(Notes)] /\ row[n] # "absent"
    BY <1>1 DEF NotesInv, NotesTypeInv, NotesTypeOK
  <1>3. NotesTypeInv'
    <2>1. wire' \in [Tabs -> Seq(Notes)]
      BY <1>1, <1>2
    <2>2. 0 \in 0..MaxDrops /\ drops >= 0
      BY <1>2, NotificationAssumption DEF NotesTypeInv
    <2>3. QED  BY <1>1, <1>2, <2>1, <2>2 DEF NotesTypeInv, NotesTypeOK
  <1>4. ASSUME NEW t \in Tabs PROVE TabInv(t)'
    <2>1. WayInv(t) /\ BellInv(t) /\ MarkingInv(t) /\ UnmountedInv(t)
      BY DEF NotesInv, TabInv
    <2>2. WayInv(t)'
      <3>1. wire[t] \in Seq(Notes)
        BY <1>2
      <3>2. CASE t \in listener
        <4>1. wire'[t] = Append(wire[t], n)
          BY <1>1, <3>2
        <4>2. \A i \in DOMAIN wire'[t] :
                 wire'[t][i] = n \/ (i \in DOMAIN wire[t] /\ wire'[t][i] = wire[t][i])
          BY <3>1, <4>1
        <4>3. QED  BY <1>1, <1>2, <2>1, <4>2 DEF WayInv
      <3>3. CASE t \notin listener
        BY <1>1, <2>1, <3>3 DEF WayInv
      <3>4. QED  BY <3>2, <3>3
    <2>3. (BellInv(t) /\ MarkingInv(t))'
      BY <1>1, <2>1 DEF BellInv, MarkingInv, Accounted
    <2>4. UnmountedInv(t)'
      BY <1>1, <1>2, <2>1 DEF UnmountedInv, NotesTypeInv, NotesTypeOK
    <2>5. QED  BY <2>2, <2>3, <2>4 DEF TabInv
  <1>5. QED  BY <1>1, <1>3, <1>4 DEF NotesInv

LEMMA LoadNotesInv ==
    ASSUME NotesInv, NEW t \in Tabs, LoadLayout(t)
    PROVE  NotesInv'
  <1> DEFINE unread == {n \in Notes : row[n] = "unread"}
  <1>1. NotesTypeInv
    BY DEF NotesInv
  <1>2. PICK order \in SetToSeqs(unread) :
            bell' = [bell EXCEPT ![t] =
                        Cut([i \in DOMAIN order |-> [id |-> order[i], read |-> FALSE]])]
    BY DEF LoadLayout
  <1> DEFINE loaded == Cut([i \in DOMAIN order |-> [id |-> order[i], read |-> FALSE]])
  <1>3. /\ loaded \in Seq(Entry) /\ Len(loaded) <= BellSize /\ Distinct(loaded)
        /\ \A i \in DOMAIN loaded : loaded[i].id \in unread /\ ~loaded[i].read
    BY LayoutProperties
  <1>4. bell' = [bell EXCEPT ![t] = loaded]
    BY <1>2
  <1> HIDE DEF loaded
  <1>5. /\ stream' = [stream EXCEPT ![t] = "down"] /\ stream[t] = "unmounted"
        /\ UNCHANGED <<signedIn, row, emitting, listener, deadListeners, wire, drops,
                       marking, unsaved>>
    BY DEF LoadLayout
  <1>6. /\ bell' \in [Tabs -> Seq(Entry)] /\ bell'[t] = loaded
        /\ \A o \in Tabs \ {t} : bell'[o] = bell[o]
    BY <1>1, <1>3, <1>4, BellType DEF NotesTypeInv
  <1>7. NotesTypeInv'
    BY <1>1, <1>5, <1>6 DEF NotesTypeInv, NotesTypeOK, Entry
  <1>8. TabInv(t)'
    <2>1. WayInv(t) /\ marking[t] = None
      BY <1>5 DEF NotesInv, TabInv, UnmountedInv
    <2>2. BellInv(t)'
      BY <1>3, <1>5, <1>6 DEF BellInv
    <2>3. None \notin Notes /\ None # All /\ stream'[t] = "down"
      BY <1>1, <1>5, NotificationAssumption DEF NotesTypeInv, NotesTypeOK, None, All
    <2>4. QED
      BY <1>5, <1>6, <2>1, <2>2, <2>3 DEF TabInv, WayInv, MarkingInv, UnmountedInv
  <1>9. ASSUME NEW o \in Tabs \ {t} PROVE TabInv(o)'
    <2>1. stream'[o] = stream[o]
      BY <1>1, <1>5 DEF NotesTypeInv, NotesTypeOK
    <2>2. QED  BY <1>1, <1>5, <1>6, <2>1, TabStays DEF NotesInv, RowsKept
  <1>10. QED  BY <1>5, <1>7, <1>8, <1>9 DEF NotesInv
LEMMA SubscribeNotesInv ==
    ASSUME NotesInv, NEW t \in Tabs, Subscribe(t)
    PROVE  NotesInv'
  <1>1. /\ stream' = [stream EXCEPT ![t] = "open"] /\ listener' = listener \union {t}
        /\ UNCHANGED <<signedIn, row, emitting, deadListeners, wire, drops, bell,
                       marking, unsaved>>
    BY DEF Subscribe, bellVars
  <1>2. NotesTypeInv /\ stream \in [Tabs -> {"unmounted", "open", "down", "refused"}]
        /\ listener = {o \in Tabs : stream[o] = "open"}
    BY DEF NotesInv, NotesTypeInv, NotesTypeOK
  <1>3. NotesTypeInv'
    <2>1. /\ stream' \in [Tabs -> {"unmounted", "open", "down", "refused"}]
          /\ listener' = {o \in Tabs : stream'[o] = "open"}
      BY <1>1, <1>2
    <2>2. QED  BY <1>1, <1>2, <2>1 DEF NotesTypeInv, NotesTypeOK
  <1>4. ASSUME NEW o \in Tabs PROVE TabInv(o)'
    <2>1. stream'[o] = stream[o] \/ stream'[o] # "unmounted"
      BY <1>1, <1>2
    <2>2. QED  BY <1>1, <1>2, <2>1, TabStays DEF NotesInv, RowsKept
  <1>5. QED  BY <1>1, <1>3, <1>4 DEF NotesInv

LEMMA RefusedNotesInv ==
    ASSUME NotesInv, NEW t \in Tabs, SubscribeRefused(t)
    PROVE  NotesInv'
  <1>1. /\ stream' = [stream EXCEPT ![t] = "refused"] /\ stream[t] = "down"
        /\ UNCHANGED <<signedIn, row, emitting, listener, deadListeners, wire, drops,
                       bell, marking, unsaved>>
    BY DEF SubscribeRefused, bellVars
  <1>2. NotesTypeInv /\ stream \in [Tabs -> {"unmounted", "open", "down", "refused"}]
        /\ listener = {o \in Tabs : stream[o] = "open"}
    BY DEF NotesInv, NotesTypeInv, NotesTypeOK
  <1>3. NotesTypeInv'
    <2>1. /\ stream' \in [Tabs -> {"unmounted", "open", "down", "refused"}]
          /\ listener' = {o \in Tabs : stream'[o] = "open"}
      BY <1>1, <1>2
    <2>2. QED  BY <1>1, <1>2, <2>1 DEF NotesTypeInv, NotesTypeOK
  <1>4. ASSUME NEW o \in Tabs PROVE TabInv(o)'
    <2>1. stream'[o] = stream[o] \/ stream'[o] # "unmounted"
      BY <1>1, <1>2
    <2>2. QED  BY <1>1, <1>2, <2>1, TabStays DEF NotesInv, RowsKept
  <1>5. QED  BY <1>1, <1>3, <1>4 DEF NotesInv

LEMMA DropNotesInv ==
    ASSUME NotesInv, NEW t \in Tabs, DropStream(t)
    PROVE  NotesInv'
  <1>1. /\ stream' = [stream EXCEPT ![t] = "down"] /\ listener' = listener \ {t}
        /\ deadListeners' = deadListeners + 1 /\ drops' = drops + 1 /\ drops < MaxDrops
        /\ wire' = [wire EXCEPT ![t] = <<>>]
        /\ UNCHANGED <<signedIn, row, emitting, bell, marking, unsaved>>
    BY DEF DropStream, bellVars
  <1>2. NotesTypeInv /\ stream \in [Tabs -> {"unmounted", "open", "down", "refused"}]
        /\ listener = {o \in Tabs : stream[o] = "open"}
        /\ wire \in [Tabs -> Seq(Notes)]
        /\ deadListeners \in 0..MaxDrops /\ drops \in 0..MaxDrops /\ deadListeners <= drops
    BY DEF NotesInv, NotesTypeInv, NotesTypeOK
  <1>3. NotesTypeInv'
    <2>1. /\ stream' \in [Tabs -> {"unmounted", "open", "down", "refused"}]
          /\ listener' = {o \in Tabs : stream'[o] = "open"}
          /\ wire' \in [Tabs -> Seq(Notes)]
      BY <1>1, <1>2
    <2>2. /\ deadListeners' \in 0..MaxDrops /\ drops' \in 0..MaxDrops
          /\ deadListeners' <= drops'
      BY <1>1, <1>2, NotificationAssumption
    <2>3. QED  BY <1>1, <1>2, <2>1, <2>2 DEF NotesTypeInv, NotesTypeOK
  <1>4. TabInv(t)'
    <2>1. BellInv(t) /\ MarkingInv(t)
      BY DEF NotesInv, TabInv
    <2>2. wire'[t] = <<>> /\ stream'[t] = "down"
      BY <1>1, <1>2
    <2>3. QED
      BY <1>1, <2>1, <2>2 DEF TabInv, WayInv, BellInv, MarkingInv, UnmountedInv, Accounted
  <1>5. ASSUME NEW o \in Tabs \ {t} PROVE TabInv(o)'
    <2>1. stream'[o] = stream[o] /\ wire'[o] = wire[o]
      BY <1>1, <1>2
    <2>2. QED  BY <1>1, <1>2, <2>1, TabStays DEF NotesInv, RowsKept
  <1>6. QED  BY <1>1, <1>3, <1>4, <1>5 DEF NotesInv

LEMMA DeliverNotesInv ==
    ASSUME NotesInv, NEW t \in Tabs, Deliver(t)
    PROVE  NotesInv'
  <1> DEFINE n == Head(wire[t])
             s == With(bell[t], n)
  <1>1. /\ wire[t] # <<>> /\ wire' = [wire EXCEPT ![t] = Tail(@)]
        /\ \/ marking[t] # All /\ unsaved' = unsaved
           \/ unsaved' = StillUnread([unsaved EXCEPT ![t] = @ \union {n}], row)
        /\ UNCHANGED <<signedIn, row, emitting, stream, listener, deadListeners, drops,
                       marking>>
    BY DEF Deliver
  <1>2. /\ NotesTypeInv /\ WayInv(t) /\ BellInv(t) /\ MarkingInv(t) /\ UnmountedInv(t)
        /\ wire \in [Tabs -> Seq(Notes)] /\ bell \in [Tabs -> Seq(Entry)]
        /\ unsaved \in [Tabs -> SUBSET Notes]
    BY DEF NotesInv, TabInv, NotesTypeInv, NotesTypeOK, Entry
  <1>3. /\ n \in Notes /\ row[n] # "absent"
        /\ Tail(wire[t]) \in Seq(Notes)
        /\ \A i \in DOMAIN Tail(wire[t]) : row[Tail(wire[t])[i]] # "absent"
    <2>1. wire[t] \in Seq(Notes)
      BY <1>2
    <2>2. /\ Len(wire[t]) \in Nat \ {0} /\ DOMAIN wire[t] = 1..Len(wire[t])
          /\ n = wire[t][1] /\ n \in Notes
          /\ Tail(wire[t]) \in Seq(Notes) /\ Len(Tail(wire[t])) = Len(wire[t]) - 1
          /\ \A i \in 1..Len(wire[t]) - 1 : Tail(wire[t])[i] = wire[t][i + 1]
      BY <1>1, <2>1
    <2>3. row[n] # "absent"
      <3>1. \A i \in DOMAIN wire[t] : row[wire[t][i]] # "absent"
        BY <1>2 DEF WayInv
      <3>2. 1 \in DOMAIN wire[t] /\ n = wire[t][1]
        BY <2>2
      <3> HIDE DEF n
      <3>3. QED  BY <3>1, <3>2
    <2>4. ASSUME NEW i \in DOMAIN Tail(wire[t])
          PROVE  row[Tail(wire[t])[i]] # "absent"
      <3>1. i + 1 \in DOMAIN wire[t] /\ Tail(wire[t])[i] = wire[t][i + 1]
        BY <2>2
      <3>2. QED  BY <1>2, <3>1 DEF WayInv
    <2>5. QED  BY <2>2, <2>3, <2>4
  <1>4. bell[t] \in Seq(Entry) /\ Len(bell[t]) <= BellSize /\ Distinct(bell[t])
    BY <1>2 DEF BellInv
  <1>5. bell' = [bell EXCEPT ![t] = s]
    BY <1>2 DEF Deliver
  <1> HIDE DEF n
  <1>6. /\ s \in Seq(Entry) /\ Len(s) <= BellSize /\ Distinct(s)
        /\ \A i \in DOMAIN s :
              \/ \E k \in DOMAIN bell[t] : s[i] = bell[t][k]
              \/ s[i] = [id |-> n, read |-> FALSE]
    BY <1>3, <1>4, WithProperties
  <1> HIDE DEF s
  <1>7. /\ bell' \in [Tabs -> Seq(Entry)] /\ bell'[t] = s
        /\ \A o \in Tabs \ {t} : bell'[o] = bell[o]
    BY <1>2, <1>5, <1>6, BellType DEF NotesTypeInv
  <1>8. /\ wire' \in [Tabs -> Seq(Notes)] /\ wire'[t] = Tail(wire[t])
        /\ \A o \in Tabs \ {t} : wire'[o] = wire[o]
    BY <1>1, <1>2, <1>3
  <1>9. /\ unsaved' \in [Tabs -> SUBSET Notes]
        /\ \A o \in Tabs : AccountsKept(o)
        /\ marking[t] = All => AccountedNext(t, n)
    <2>1. RowsKept
      BY <1>1 DEF RowsKept
    <2>2. CASE unsaved' = unsaved /\ marking[t] # All
      BY <1>1, <1>2, <2>2 DEF AccountsKept, Accounted, AccountedNext
    <2>3. CASE unsaved' = StillUnread([unsaved EXCEPT ![t] = @ \union {n}], row)
      <3> DEFINE entries == [unsaved EXCEPT ![t] = @ \union {n}]
      <3>1. /\ entries \in [Tabs -> SUBSET Notes] /\ n \in entries[t]
            /\ \A o \in Tabs : unsaved[o] \subseteq entries[o]
        BY <1>2, <1>3
      <3>2. unsaved' = StillUnread(entries, row) /\ row' = row
        BY <1>1, <2>3
      <3> HIDE DEF entries
      <3>3. QED  BY <1>2, <2>1, <3>1, <3>2, StillAccounted
    <2>4. QED  BY <1>1, <2>2, <2>3
  <1>10. NotesTypeInv'
    BY <1>1, <1>2, <1>7, <1>8, <1>9 DEF NotesTypeInv, NotesTypeOK, Entry
  <1>11. TabInv(t)'
    <2>1. WayInv(t)'
      BY <1>1, <1>3, <1>8 DEF WayInv
    <2>2. ASSUME NEW i \in DOMAIN s
          PROVE  /\ row[s[i].id] # "absent"
                 /\ s[i].read => AccountedNext(t, s[i].id)
                 /\ marking[t] = All => AccountedNext(t, s[i].id)
      <3>1. CASE \E k \in DOMAIN bell[t] : s[i] = bell[t][k]
        <4>1. PICK k \in DOMAIN bell[t] : s[i] = bell[t][k]
          BY <3>1
        <4>2. s[i].id \in Notes /\ AccountsKept(t)
          BY <1>4, <1>9, <4>1, EntriesNamed
        <4>3. QED  BY <1>1, <1>2, <4>1, <4>2 DEF BellInv, MarkingInv, AccountsKept
      <3>2. CASE s[i] = [id |-> n, read |-> FALSE]
        BY <1>1, <1>3, <1>9, <3>2 DEF AccountedNext
      <3>3. QED  BY <1>6, <3>1, <3>2
    <2>3. BellInv(t)'
      BY <1>1, <1>6, <1>7, <2>2 DEF BellInv, Accounted, AccountedNext
    <2>4. MarkingInv(t)'
      BY <1>1, <1>2, <1>7, <1>9, <2>2
      DEF MarkingInv, AccountsKept, Accounted, AccountedNext
    <2>5. UnmountedInv(t)'
      BY <1>1, <1>2 DEF UnmountedInv
    <2>6. QED  BY <2>1, <2>3, <2>4, <2>5 DEF TabInv
  <1>12. ASSUME NEW o \in Tabs \ {t} PROVE TabInv(o)'
    BY <1>1, <1>2, <1>7, <1>8, <1>9, TabStays DEF NotesInv, RowsKept
  <1>13. QED  BY <1>1, <1>10, <1>11, <1>12 DEF NotesInv

\* One row is read, which the tab waits for, or its entry is noted as unsaved.
LEMMA MarkRowNotesInv ==
    ASSUME NotesInv, NEW t \in Tabs, MarkRow(t)
    PROVE  NotesInv'
  <1>1. /\ NotesTypeInv /\ BellInv(t) /\ WayInv(t) /\ UnmountedInv(t)
        /\ row \in [Notes -> {"absent", "unread", "read"}]
        /\ marking \in [Tabs -> Notes \union {None, All}]
        /\ unsaved \in [Tabs -> SUBSET Notes]
        /\ bell[t] \in Seq(Entry) /\ emitting \subseteq Notes
    BY DEF NotesInv, TabInv, NotesTypeInv, NotesTypeOK, Entry
  <1>2. PICK i \in DOMAIN bell[t] :
            /\ marking' = [marking EXCEPT ![t] = bell[t][i].id]
            /\ \/ /\ row' = [row EXCEPT ![bell[t][i].id] = "read"]
                  /\ unsaved' = StillUnread(unsaved, row')
               \/ /\ unsaved' = StillUnread([unsaved EXCEPT
                                    ![t] = @ \union {bell[t][i].id}], row)
                  /\ row' = row
    BY DEF MarkRow
  <1> DEFINE n == bell[t][i].id
  <1>3. n \in Notes /\ row[n] # "absent"
    BY <1>1, EntriesNamed DEF BellInv
  <1>4. /\ marking' = [marking EXCEPT ![t] = n]
        /\ \/ /\ row' = [row EXCEPT ![n] = "read"]
              /\ unsaved' = StillUnread(unsaved, row')
           \/ /\ unsaved' = StillUnread([unsaved EXCEPT ![t] = @ \union {n}], row)
              /\ row' = row
    BY <1>2
  <1>5. bell[t] # <<>>
    BY <1>1, <1>2
  <1> HIDE DEF n
  <1>6. UNCHANGED <<signedIn, emitting, stream, listener, deadListeners, wire, drops, bell>>
    BY DEF MarkRow, streamVars
  <1>7. /\ row' \in [Notes -> {"absent", "unread", "read"}] /\ RowsKept
        /\ unsaved' \in [Tabs -> SUBSET Notes]
        /\ \A o \in Tabs : AccountsKept(o)
        /\ AccountedNext(t, n)
    <2>1. row' \in [Notes -> {"absent", "unread", "read"}] /\ RowsKept
      BY <1>1, <1>3, <1>4 DEF RowsKept
    <2>2. CASE row' = [row EXCEPT ![n] = "read"] /\ unsaved' = StillUnread(unsaved, row')
      <3>1. row'[n] = "read"
        BY <1>1, <1>3, <2>2
      <3>2. unsaved' \in [Tabs -> SUBSET Notes] /\ \A o \in Tabs : AccountsKept(o)
        <4>1. unsaved' = [o \in Tabs |-> {m \in unsaved[o] : row'[m] # "read"}]
          BY <2>2 DEF StillUnread
        <4>2. unsaved \in [Tabs -> SUBSET Notes]
          BY <1>1 DEF NotesTypeInv, NotesTypeOK
        <4>3. QED  BY <2>1, <4>1, <4>2 DEF AccountsKept, Accounted, AccountedNext, RowsKept
      <3>3. QED  BY <2>1, <3>1, <3>2 DEF AccountedNext
    <2>3. CASE /\ unsaved' = StillUnread([unsaved EXCEPT ![t] = @ \union {n}], row)
               /\ row' = row
      <3> DEFINE entries == [unsaved EXCEPT ![t] = @ \union {n}]
      <3>1. /\ entries \in [Tabs -> SUBSET Notes] /\ n \in entries[t]
            /\ \A o \in Tabs : unsaved[o] \subseteq entries[o]
        BY <1>1, <1>3
      <3>2. unsaved' = StillUnread(entries, row) /\ row' = row
        BY <2>3
      <3> HIDE DEF entries
      <3>3. QED  BY <1>1, <2>1, <3>1, <3>2, StillAccounted
    <2>4. QED  BY <1>4, <2>2, <2>3
  <1>8. /\ marking' \in [Tabs -> Notes \union {None, All}] /\ marking'[t] = n
        /\ \A o \in Tabs \ {t} : marking'[o] = marking[o]
    BY <1>1, <1>3, <1>4
  <1>9. NotesTypeInv'
    BY <1>1, <1>6, <1>7, <1>8 DEF NotesTypeInv, NotesTypeOK
  <1>10. TabInv(t)'
    <2>1. n # All /\ (marking'[t] \in Notes => Accounted(t, marking[t])')
      BY <1>3, <1>7, <1>8, NotificationAssumption DEF Accounted, AccountedNext, All
    <2>2. \A k \in DOMAIN bell[t] : bell[t][k].id \in Notes
      BY <1>1, EntriesNamed
    <2>3. BellInv(t)'
      BY <1>1, <1>6, <1>7, <2>2
      DEF BellInv, RowsKept, AccountsKept, Accounted, AccountedNext
    <2>4. WayInv(t)'
      <3>1. wire[t] \in Seq(Notes)
        BY <1>1 DEF NotesTypeInv, NotesTypeOK
      <3>2. \A k \in DOMAIN wire[t] : wire[t][k] \in Notes
        BY <3>1
      <3>3. \A k \in DOMAIN wire[t] : row'[wire[t][k]] # "absent"
        BY <1>1, <1>7, <3>2 DEF WayInv, RowsKept
      <3>4. QED  BY <1>6, <3>3 DEF WayInv
    <2>5. MarkingInv(t)'
      BY <1>8, <2>1 DEF MarkingInv
    <2>6. UnmountedInv(t)'
      BY <1>1, <1>5, <1>6 DEF UnmountedInv
    <2>7. QED  BY <2>3, <2>4, <2>5, <2>6 DEF TabInv
  <1>11. ASSUME NEW o \in Tabs \ {t} PROVE TabInv(o)'
    BY <1>1, <1>6, <1>7, <1>8, TabStays DEF NotesInv
  <1>12. \A m \in emitting' : row'[m] # "absent"
    BY <1>1, <1>6, <1>7 DEF NotesInv, RowsKept
  <1>13. QED  BY <1>9, <1>10, <1>11, <1>12 DEF NotesInv

\* Every unread row is read now.
LEMMA AllRowsMarked ==
    ASSUME NotesInv,
           row' = AllRead
    PROVE  /\ row' \in [Notes -> {"absent", "unread", "read"}]
           /\ RowsKept
           /\ \A n \in Notes : row[n] # "absent" => row'[n] = "read"
           /\ \A m \in emitting : row'[m] # "absent"
  <1>1. row \in [Notes -> {"absent", "unread", "read"}] /\ emitting \subseteq Notes
    BY DEF NotesInv, NotesTypeInv, NotesTypeOK
  <1>2. /\ row' \in [Notes -> {"absent", "unread", "read"}]
        /\ \A n \in Notes : row[n] # "absent" => row'[n] = "read"
    BY <1>1 DEF AllRead
  <1>3. RowsKept
    BY <1>1, <1>2 DEF RowsKept
  <1>4. QED  BY <1>1, <1>2, <1>3 DEF NotesInv

LEMMA MarkAllRowsNotesInv ==
    ASSUME NotesInv, NEW t \in Tabs, MarkAllRows(t)
    PROVE  NotesInv'
  <1>1. /\ NotesTypeInv /\ TabInv(t) /\ marking \in [Tabs -> Notes \union {None, All}]
        /\ row \in [Notes -> {"absent", "unread", "read"}]
        /\ unsaved \in [Tabs -> SUBSET Notes]
        /\ bell[t] \in Seq(Entry) /\ wire[t] \in Seq(Notes)
    BY DEF NotesInv, NotesTypeInv, NotesTypeOK, Entry
  <1>2. /\ marking' = [marking EXCEPT ![t] = All]
        /\ UNCHANGED <<signedIn, emitting, stream, listener, deadListeners, wire, drops,
                       bell>>
        /\ \E i \in DOMAIN bell[t] : ~bell[t][i].read
        /\ \/ row' = AllRead /\ unsaved' = StillUnread(unsaved, AllRead)
           \/ /\ unsaved' = StillUnread([unsaved EXCEPT
                                ![t] = @ \union Names(bell[t])], row)
              /\ row' = row
    BY DEF MarkAllRows, streamVars
  <1>3. \A i \in DOMAIN bell[t] :
           bell[t][i].id \in Notes /\ row[bell[t][i].id] # "absent"
    BY <1>1, EntriesNamed DEF TabInv, BellInv
  <1>4. /\ row' \in [Notes -> {"absent", "unread", "read"}] /\ RowsKept
        /\ \A m \in emitting' : row'[m] # "absent"
        /\ unsaved' \in [Tabs -> SUBSET Notes]
        /\ \A o \in Tabs : AccountsKept(o)
        /\ \A i \in DOMAIN bell[t] : AccountedNext(t, bell[t][i].id)
    <2>1. CASE row' = AllRead /\ unsaved' = StillUnread(unsaved, AllRead)
      <3>1. /\ row' \in [Notes -> {"absent", "unread", "read"}] /\ RowsKept
            /\ \A n \in Notes : row[n] # "absent" => row'[n] = "read"
            /\ \A m \in emitting' : row'[m] # "absent"
        BY <1>2, <2>1, AllRowsMarked
      <3>2. unsaved' \in [Tabs -> SUBSET Notes] /\ \A o \in Tabs : AccountsKept(o)
        BY <1>1, <2>1, <3>1, StillAccounted
      <3>3. QED  BY <1>3, <3>1, <3>2 DEF AccountedNext
    <2>2. CASE /\ unsaved' = StillUnread([unsaved EXCEPT
                                ![t] = @ \union Names(bell[t])], row)
               /\ row' = row
      <3>1. /\ Names(bell[t]) \subseteq Notes
            /\ \A i \in DOMAIN bell[t] : bell[t][i].id \in Names(bell[t])
        BY <1>3 DEF Names
      <3> DEFINE entries == [unsaved EXCEPT ![t] = @ \union Names(bell[t])]
      <3>2. /\ entries \in [Tabs -> SUBSET Notes] /\ Names(bell[t]) \subseteq entries[t]
            /\ \A o \in Tabs : unsaved[o] \subseteq entries[o]
        BY <1>1, <3>1
      <3>3. RowsKept /\ \A m \in emitting' : row'[m] # "absent"
        BY <1>2, <2>2 DEF RowsKept, NotesInv
      <3>4. unsaved' = StillUnread(entries, row) /\ row' = row
        BY <2>2
      <3> HIDE DEF entries
      <3>5. /\ unsaved' \in [Tabs -> SUBSET Notes] /\ \A o \in Tabs : AccountsKept(o)
            /\ \A n \in entries[t] : AccountedNext(t, n)
        BY <1>1, <3>2, <3>3, <3>4, StillAccounted
      <3>6. QED  BY <1>1, <3>1, <3>2, <3>3, <3>4, <3>5
    <2>3. QED  BY <1>2, <2>1, <2>2
  <1>5. /\ marking' \in [Tabs -> Notes \union {None, All}] /\ marking'[t] = All
        /\ \A o \in Tabs \ {t} : marking'[o] = marking[o]
    BY <1>1, <1>2
  <1>6. NotesTypeInv'
    BY <1>1, <1>2, <1>4, <1>5 DEF NotesTypeInv, NotesTypeOK
  <1>7. TabInv(t)'
    <2>1. \A i \in DOMAIN bell[t] : row'[bell[t][i].id] # "absent"
      BY <1>3, <1>4 DEF RowsKept
    <2>2. BellInv(t)'
      BY <1>1, <1>2, <1>4, <2>1 DEF TabInv, BellInv, Accounted, AccountedNext
    <2>3. WayInv(t)'
      <3>1. \A i \in DOMAIN wire[t] : wire[t][i] \in Notes
        BY <1>1
      <3>2. \A i \in DOMAIN wire[t] : row'[wire[t][i]] # "absent"
        BY <1>1, <1>4, <3>1 DEF TabInv, WayInv, RowsKept
      <3>3. QED  BY <1>2, <3>2 DEF WayInv
    <2>4. MarkingInv(t)'
      BY <1>2, <1>4, <1>5, NotificationAssumption
      DEF MarkingInv, Accounted, AccountedNext, All
    <2>5. UnmountedInv(t)'
      <3>1. bell[t] # <<>>
        BY <1>2
      <3>2. QED  BY <1>1, <1>2, <3>1 DEF TabInv, UnmountedInv
    <2>6. QED  BY <2>2, <2>3, <2>4, <2>5 DEF TabInv
  <1>8. ASSUME NEW o \in Tabs \ {t} PROVE TabInv(o)'
    BY <1>1, <1>2, <1>4, <1>5, TabStays DEF NotesInv
  <1>9. QED  BY <1>4, <1>6, <1>7, <1>8 DEF NotesInv

LEMMA PageNotesInv ==
    ASSUME NotesInv, MarkAllOnPage
    PROVE  NotesInv'
  <1>1. /\ row' = AllRead /\ unsaved' = StillUnread(unsaved, AllRead)
        /\ UNCHANGED <<signedIn, emitting, stream, listener, deadListeners, wire, drops,
                       bell, marking>>
    BY DEF MarkAllOnPage, streamVars
  <1>2. /\ row' \in [Notes -> {"absent", "unread", "read"}] /\ RowsKept
        /\ \A m \in emitting' : row'[m] # "absent"
    BY <1>1, AllRowsMarked
  <1>3. unsaved' \in [Tabs -> SUBSET Notes] /\ \A o \in Tabs : AccountsKept(o)
    <2>1. NotesTypeInv /\ unsaved \in [Tabs -> SUBSET Notes]
      BY DEF NotesInv, NotesTypeInv, NotesTypeOK
    <2>2. QED  BY <1>1, <1>2, <2>1, StillAccounted
  <1>4. NotesTypeInv /\ NotesTypeInv'
    BY <1>1, <1>2, <1>3 DEF NotesInv, NotesTypeInv, NotesTypeOK
  <1>5. ASSUME NEW t \in Tabs PROVE TabInv(t)'
    BY <1>1, <1>2, <1>3, <1>4, TabStays DEF NotesInv
  <1>6. QED  BY <1>2, <1>4, <1>5 DEF NotesInv

\* A session ends or begins: nothing that a tab shows depends on it.
LEMMA SessionNotesInv ==
    ASSUME NotesInv, SessionEnds \/ SignIn
    PROVE  NotesInv'
  <1>1. /\ signedIn' \in BOOLEAN
        /\ UNCHANGED <<row, emitting, stream, listener, deadListeners, wire, drops, bell,
                       marking, unsaved>>
    BY DEF SessionEnds, SignIn, streamVars, bellVars
  <1>2. NotesTypeInv /\ NotesTypeInv'
    BY <1>1 DEF NotesInv, NotesTypeInv, NotesTypeOK
  <1>3. ASSUME NEW t \in Tabs PROVE TabInv(t)'
    BY <1>1, <1>2, TabStays DEF NotesInv, RowsKept
  <1>4. QED  BY <1>1, <1>2, <1>3 DEF NotesInv

\* An answer that does not come marks nothing.
LEMMA MarkFailsNotesInv ==
    ASSUME NotesInv, NEW t \in Tabs, MarkFails(t)
    PROVE  NotesInv'
  <1>1. /\ marking' = [marking EXCEPT ![t] = None]
        /\ UNCHANGED <<signedIn, row, emitting, stream, listener, deadListeners, wire,
                       drops, bell, unsaved>>
    BY DEF MarkFails, streamVars
  <1>2. NotesTypeInv /\ marking \in [Tabs -> Notes \union {None, All}]
    BY DEF NotesInv, NotesTypeInv, NotesTypeOK
  <1>3. /\ marking' \in [Tabs -> Notes \union {None, All}] /\ marking'[t] = None
        /\ \A o \in Tabs \ {t} : marking'[o] = marking[o]
    BY <1>1, <1>2
  <1>4. NotesTypeInv'
    BY <1>1, <1>2, <1>3 DEF NotesTypeInv, NotesTypeOK
  <1>5. TabInv(t)'
    <2>1. None \notin Notes /\ None # All
      BY NotificationAssumption DEF None, All
    <2>2. WayInv(t) /\ BellInv(t) /\ UnmountedInv(t)
      BY DEF NotesInv, TabInv
    <2>3. MarkingInv(t)'
      BY <1>3, <2>1 DEF MarkingInv
    <2>4. WayInv(t)' /\ BellInv(t)' /\ UnmountedInv(t)'
      BY <1>1, <1>3, <2>2 DEF WayInv, BellInv, UnmountedInv, Accounted
    <2>5. QED  BY <2>3, <2>4 DEF TabInv
  <1>6. ASSUME NEW o \in Tabs \ {t} PROVE TabInv(o)'
    BY <1>1, <1>2, <1>3, TabStays DEF NotesInv, RowsKept
  <1>7. QED  BY <1>1, <1>4, <1>5, <1>6 DEF NotesInv

\* The answer: what it marks is what MarkingInv speaks of.
LEMMA MarkBellNotesInv ==
    ASSUME NotesInv, NEW t \in Tabs, MarkBell(t)
    PROVE  NotesInv'
  <1> DEFINE old == bell[t]
             mark(i) == Answered(old[i], marking[t])
             s == [i \in DOMAIN old |-> mark(i)]
  <1>1. /\ NotesTypeInv /\ WayInv(t) /\ BellInv(t) /\ MarkingInv(t) /\ UnmountedInv(t)
        /\ marking \in [Tabs -> Notes \union {None, All}]
        /\ bell \in [Tabs -> Seq(Entry)]
    BY DEF NotesInv, TabInv, NotesTypeInv, NotesTypeOK, Entry
  <1>2. /\ marking[t] # None /\ marking' = [marking EXCEPT ![t] = None]
        /\ UNCHANGED <<signedIn, row, emitting, stream, listener, deadListeners, wire,
                       drops, unsaved>>
    BY DEF MarkBell, streamVars
  <1>3. bell' = [bell EXCEPT ![t] = s]
    BY <1>1 DEF MarkBell
  <1>4. /\ old \in Seq(Entry) /\ Len(old) \in Nat /\ DOMAIN old = 1..Len(old)
        /\ \A i \in DOMAIN old : old[i] \in Entry
    BY <1>1
  <1>5. \A i \in DOMAIN old :
           /\ mark(i) \in Entry
           /\ mark(i).id = old[i].id
           /\ mark(i).read <=> old[i].read \/ Marked(marking[t], old[i].id)
    <2> SUFFICES ASSUME NEW i \in DOMAIN old
                 PROVE  /\ mark(i) \in Entry /\ mark(i).id = old[i].id
                        /\ mark(i).read <=> old[i].read \/ Marked(marking[t], old[i].id)
      OBVIOUS
    <2> DEFINE e == old[i]
               b == e.read \/ Marked(marking[t], e.id)
    <2>1. e \in Entry /\ b \in BOOLEAN
      BY <1>4 DEF Marked, Entry
    <2>2. mark(i) = [e EXCEPT !.read = b]
      BY DEF Answered
    <2> HIDE DEF e, b, mark
    <2>3. mark(i) \in Entry /\ mark(i).id = e.id /\ mark(i).read = b
      BY <2>1, <2>2 DEF Entry
    <2>4. QED  BY <2>3 DEF e, b
  <1> HIDE DEF mark
  <1>6. /\ s \in Seq(Entry) /\ DOMAIN s = DOMAIN old /\ Len(s) = Len(old)
        /\ \A i \in DOMAIN s : s[i] = mark(i)
    BY <1>4, <1>5
  <1> HIDE DEF s
  <1>7. /\ bell' \in [Tabs -> Seq(Entry)] /\ bell'[t] = s
        /\ \A o \in Tabs \ {t} : bell'[o] = bell[o]
    BY <1>1, <1>3, <1>6, BellType DEF NotesTypeInv
  <1>8. /\ marking' \in [Tabs -> Notes \union {None, All}] /\ marking'[t] = None
        /\ \A o \in Tabs \ {t} : marking'[o] = marking[o]
    BY <1>1, <1>2
  <1>9. NotesTypeInv'
    BY <1>1, <1>2, <1>7, <1>8 DEF NotesTypeInv, NotesTypeOK, Entry
  <1>10. TabInv(t)'
    <2>1. Distinct(s)
      BY <1>1, <1>5, <1>6 DEF Distinct, BellInv
    <2>2. ASSUME NEW i \in DOMAIN s
          PROVE  /\ row[s[i].id] # "absent"
                 /\ s[i].read => Accounted(t, s[i].id)
      <3>1. /\ i \in DOMAIN old /\ s[i].id = old[i].id /\ old[i].id \in Notes
            /\ s[i].read => old[i].read \/ Marked(marking[t], old[i].id)
        BY <1>4, <1>5, <1>6, EntriesNamed
      <3>2. row[old[i].id] # "absent"
            /\ (old[i].read => Accounted(t, old[i].id))
        BY <1>1, <3>1 DEF BellInv
      <3>3. CASE Marked(marking[t], old[i].id)
        <4>1. CASE marking[t] = All
          BY <1>1, <3>1, <3>2, <4>1 DEF MarkingInv
        <4>2. CASE marking[t] = old[i].id
          BY <1>1, <3>1, <3>2, <4>2 DEF MarkingInv
        <4>3. QED  BY <3>3, <4>1, <4>2 DEF Marked
      <3>4. QED  BY <3>1, <3>2, <3>3
    <2>3. BellInv(t)'
      BY <1>1, <1>2, <1>6, <1>7, <2>1, <2>2 DEF BellInv, Accounted
    <2>4. MarkingInv(t)' /\ WayInv(t)'
      <3>1. MarkingInv(t)'
        BY <1>1, <1>2, <1>8, NotificationAssumption DEF MarkingInv, None, All
      <3>2. WayInv(t)'
        BY <1>1, <1>2, <1>8 DEF WayInv
      <3>3. QED  BY <3>1, <3>2
    <2>5. UnmountedInv(t)'
      BY <1>1, <1>2 DEF UnmountedInv
    <2>6. QED  BY <2>3, <2>4, <2>5 DEF TabInv
  <1>11. ASSUME NEW o \in Tabs \ {t} PROVE TabInv(o)'
    BY <1>1, <1>2, <1>7, <1>8, TabStays DEF NotesInv, RowsKept
  <1>12. QED  BY <1>2, <1>9, <1>10, <1>11 DEF NotesInv

LEMMA NextNotesInv == NotesInv /\ [NotesNext]_noteVars => NotesInv'
  <1> SUFFICES ASSUME NotesInv, [NotesNext]_noteVars PROVE NotesInv'
    OBVIOUS
  <1>1. ASSUME UNCHANGED noteVars PROVE NotesInv'
    <2>1. UNCHANGED <<signedIn, row, emitting, stream, listener, deadListeners, wire, drops,
                      bell, marking, unsaved>>
      BY <1>1 DEF noteVars, streamVars, bellVars
    <2>2. NotesTypeInv'
      BY <2>1 DEF NotesInv, NotesTypeInv, NotesTypeOK
    <2>3. ASSUME NEW t \in Tabs PROVE TabInv(t)'
      BY <2>1, TabStays DEF NotesInv, RowsKept
    <2>4. \A n \in emitting' : row'[n] # "absent"
      BY <2>1 DEF NotesInv
    <2>5. QED  BY <2>2, <2>3, <2>4 DEF NotesInv
  <1>2. QED
    BY <1>1, InsertNotesInv, EmitNotesInv, LoadNotesInv, SubscribeNotesInv,
       RefusedNotesInv, DropNotesInv, DeliverNotesInv, MarkRowNotesInv,
       MarkAllRowsNotesInv, MarkBellNotesInv, MarkFailsNotesInv, PageNotesInv,
       SessionNotesInv
    DEF NotesNext

-------------------------------------------------------------------------------
(***************************************************************************)
(* Theorems.                                                               *)
(***************************************************************************)

\* The strengthened invariant: what is on the wire, or waits for an answer,
\* agrees with the rows.
THEOREM NotesInvariance == NotesSpec => []NotesInv
  BY InitNotesInv, NextNotesInv, PTL DEF NotesSpec

\* Every variable has its type; the listeners are those of the open streams, and
\* a dead one was left by a connection that was lost.
THEOREM NotesTypeCorrect == NotesSpec => []NotesTypeOK
  <1>1. NotesInv => NotesTypeOK
    BY DEF NotesInv, NotesTypeInv
  <1>2. QED  BY <1>1, NotesInvariance, PTL

\* A bell names each notification once and none without a row, although the
\* layout and the stream may both bring it.
THEOREM NamedOnce == NotesSpec => []BellNamesOnce
  BY BellsAreRight, NotesInvariance, PTL

\* What a bell shows as read is read in the table, but for what came while the
\* tab waited for mark-all and what it marked when the browser had no session,
\* until that is read, too.
THEOREM ReadIsRead == NotesSpec => []BellReadIsRowRead
  BY BellsAreRight, NotesInvariance, PTL
===============================================================================
