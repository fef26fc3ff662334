----------------------------- MODULE Notifications -----------------------------
(***************************************************************************)
(* The notifications of one user: rows in Postgres, the emitter of the app *)
(* process, the event stream to each tab, and the bell a tab shows.  Where *)
(* the browser has lost the user's session, the actions return without an  *)
(* UPDATE and the bell does not know.                                      *)
(***************************************************************************)
EXTENDS Integers, SequencesExt

CONSTANTS
    Notes,             \* notifications, numbered in the order of their INSERT
    Tabs,
    BellSize,          \* entries of a bell
    MaxDrops           \* bound on connections lost

None == 0              \* a tab that marks nothing
All == -1              \* a tab that marks all it can

ASSUME NotificationAssumption ==
    /\ BellSize \in Nat \ {0}
    /\ MaxDrops \in Nat
    /\ Notes \subseteq Nat \ {0}
    /\ IsFiniteSet(Notes)

VARIABLES
    signedIn,          \* the browser has a session of the user
    row,               \* readAt of a row
    emitting,          \* rows inserted in the app process, to be emitted
    stream,            \* of a tab: its EventSource
    listener,          \* tabs with a listener on the emitter that writes to them
    deadListeners,     \* listeners of streams that are closed
    wire,              \* events under way to a tab
    bell,              \* entries of a tab's bell, the newest first
    marking,           \* the update a tab waits for
    unsaved,           \* unread rows whose entries a tab marks all the same (history)
    drops

streamVars == <<stream, listener, deadListeners, wire, drops>>
bellVars == <<bell, marking, unsaved>>
noteVars == <<signedIn, row, emitting, streamVars, bellVars>>

NotesInit ==
    /\ signedIn = TRUE
    /\ row = [n \in Notes |-> "absent"]
    /\ emitting = {}
    /\ stream = [t \in Tabs |-> "unmounted"]
    /\ listener = {}
    /\ deadListeners = 0
    /\ wire = [t \in Tabs |-> <<>>]
    /\ bell = [t \in Tabs |-> <<>>]
    /\ marking = [t \in Tabs |-> None]
    /\ unsaved = [t \in Tabs |-> {}]
    /\ drops = 0

Names(entries) == {entries[i].id : i \in DOMAIN entries}

\* What is left of unsaved entries, given the rows.
StillUnread(entries, rows) == [t \in Tabs |-> {n \in entries[t] : rows[n] # "read"}]

Cut(entries) == IF Len(entries) > BellSize THEN SubSeq(entries, 1, BellSize) ELSE entries

-------------------------------------------------------------------------------
(***************************************************************************)
(* notify.                                                                 *)
(***************************************************************************)

\* The insert, in the app process or in the worker, whose emitter nobody hears.
InsertNote(n) ==
    /\ row[n] = "absent"
    /\ \A earlier \in Notes : earlier < n => row[earlier] # "absent"
    /\ row' = [row EXCEPT ![n] = "unread"]
    /\ emitting' = emitting \union {n} \/ UNCHANGED emitting
    /\ UNCHANGED <<signedIn, streamVars, bellVars>>

\* The emit after it: live listeners write, dead ones take themselves off.
EmitNote(n) ==
    /\ n \in emitting
    /\ emitting' = emitting \ {n}
    /\ wire' = [t \in Tabs |-> IF t \in listener THEN Append(wire[t], n) ELSE wire[t]]
    /\ deadListeners' = 0
    /\ UNCHANGED <<signedIn, row, stream, listener, drops, bellVars>>

-------------------------------------------------------------------------------
(***************************************************************************)
(* getSession.                                                             *)
(***************************************************************************)

\* Signed out in another tab, expired, or revoked; a new session.
SessionEnds ==
    /\ signedIn
    /\ signedIn' = FALSE
    /\ UNCHANGED <<row, emitting, streamVars, bellVars>>

SignIn ==
    /\ ~signedIn
    /\ signedIn' = TRUE
    /\ UNCHANGED <<row, emitting, streamVars, bellVars>>

-------------------------------------------------------------------------------
(***************************************************************************)
(* The tab.                                                                *)
(***************************************************************************)

\* The layout's query: unread rows by creation, which may be any order, ten at
\* most.  There is a bell for a user only.
LoadLayout(t) ==
    /\ signedIn
    /\ stream[t] = "unmounted"
    /\ \E order \in SetToSeqs({n \in Notes : row[n] = "unread"}) :
          bell' = [bell EXCEPT ![t] =
                      Cut([i \in DOMAIN order |-> [id |-> order[i], read |-> FALSE]])]
    /\ stream' = [stream EXCEPT ![t] = "down"]
    /\ UNCHANGED <<signedIn, row, emitting, listener, deadListeners, wire, drops, marking,
                   unsaved>>

\* GET /api/notifications/stream, on mounting and after every loss.  The session
\* is not looked at again while the stream is open.
Subscribe(t) ==
    /\ signedIn
    /\ stream[t] = "down"
    /\ stream' = [stream EXCEPT ![t] = "open"]
    /\ listener' = listener \union {t}
    /\ UNCHANGED <<signedIn, row, emitting, deadListeners, wire, drops, bellVars>>

\* 401: an EventSource does not try again.
SubscribeRefused(t) ==
    /\ ~signedIn
    /\ stream[t] = "down"
    /\ stream' = [stream EXCEPT ![t] = "refused"]
    /\ UNCHANGED <<signedIn, row, emitting, listener, deadListeners, wire, drops, bellVars>>

\* The connection is lost.  start() returns its clean-up to nobody: the listener
\* stays on the emitter.
DropStream(t) ==
    /\ drops < MaxDrops
    /\ stream[t] = "open"
    /\ stream' = [stream EXCEPT ![t] = "down"]
    /\ listener' = listener \ {t}
    /\ deadListeners' = deadListeners + 1
    /\ wire' = [wire EXCEPT ![t] = <<>>]
    /\ drops' = drops + 1
    /\ UNCHANGED <<signedIn, row, emitting, bellVars>>

\* Mutant: no look for duplicates.
WithAlways(entries, n) == Cut(<<[id |-> n, read |-> FALSE]>> \o entries)

With(entries, n) ==
    IF n \in Names(entries) THEN entries
    ELSE Cut(<<[id |-> n, read |-> FALSE]>> \o entries)

\* onmessage.
Deliver(t) ==
    /\ wire[t] # <<>>
    /\ wire' = [wire EXCEPT ![t] = Tail(@)]
    /\ bell' = [bell EXCEPT ![t] = With(@, Head(wire[t]))]
    /\ \/ /\ marking[t] # All
          /\ UNCHANGED unsaved
       \/ /\ marking[t] = All       \* the update has passed the row over
          /\ unsaved' =
                StillUnread([unsaved EXCEPT ![t] = @ \union {Head(wire[t])}], row)
    /\ UNCHANGED <<signedIn, row, emitting, stream, listener, deadListeners, drops, marking>>

\* markAsReadAction and markAllAsReadAction, on the server.  Without a session
\* they return, too.
MarkRow(t) ==
    /\ marking[t] = None
    /\ \E i \in DOMAIN bell[t] :
          LET n == bell[t][i].id
          IN  /\ ~bell[t][i].read
              /\ marking' = [marking EXCEPT ![t] = n]
              /\ \/ /\ signedIn
                    /\ row' = [row EXCEPT ![n] = "read"]
                    /\ unsaved' = StillUnread(unsaved, row')
                 \/ /\ ~signedIn
                    /\ unsaved' = StillUnread([unsaved EXCEPT ![t] = @ \union {n}], row)
                    /\ UNCHANGED row
    /\ UNCHANGED <<signedIn, emitting, streamVars, bell>>

AllRead == [n \in Notes |-> IF row[n] = "unread" THEN "read" ELSE row[n]]

MarkAllRows(t) ==
    /\ marking[t] = None
    /\ \E i \in DOMAIN bell[t] : ~bell[t][i].read
    /\ marking' = [marking EXCEPT ![t] = All]
    /\ \/ /\ signedIn
          /\ row' = AllRead
          /\ unsaved' = StillUnread(unsaved, AllRead)
       \/ /\ ~signedIn
          /\ unsaved' = StillUnread([unsaved EXCEPT ![t] = @ \union Names(bell[t])], row)
          /\ UNCHANGED row
    /\ UNCHANGED <<signedIn, emitting, streamVars, bell>>

\* Mutant: the answer to one mark marks the whole bell.
MarkedAll(what, id) == TRUE

Marked(what, id) == what \in {All, id}

Answered(entry, what) == [entry EXCEPT !.read = @ \/ Marked(what, entry.id)]

\* The action has answered: the bell marks what it shows by then.
MarkBell(t) ==
    /\ marking[t] # None
    /\ bell' = [bell EXCEPT ![t] =
          [i \in DOMAIN bell[t] |-> Answered(bell[t][i], marking[t])]]
    /\ marking' = [marking EXCEPT ![t] = None]
    /\ UNCHANGED <<signedIn, row, emitting, streamVars, unsaved>>

\* The action has thrown, or its answer is lost: the bell stays as it is.
MarkFails(t) ==
    /\ marking[t] # None
    /\ marking' = [marking EXCEPT ![t] = None]
    /\ UNCHANGED <<signedIn, row, emitting, streamVars, bell, unsaved>>

\* The button of the notifications page.
MarkAllOnPage ==
    /\ signedIn
    /\ \E n \in Notes : row[n] = "unread"
    /\ row' = AllRead
    /\ unsaved' = StillUnread(unsaved, AllRead)
    /\ UNCHANGED <<signedIn, emitting, streamVars, bell, marking>>

NotesNext ==
    \/ \E n \in Notes : InsertNote(n) \/ EmitNote(n)
    \/ \E t \in Tabs :
          \/ LoadLayout(t)
          \/ Subscribe(t)
          \/ SubscribeRefused(t)
          \/ DropStream(t)
          \/ Deliver(t)
          \/ MarkRow(t)
          \/ MarkAllRows(t)
          \/ MarkBell(t)
          \/ MarkFails(t)
    \/ MarkAllOnPage
    \/ SessionEnds
    \/ SignIn

NotesSpec == NotesInit /\ [][NotesNext]_noteVars

-------------------------------------------------------------------------------
(***************************************************************************)
(* Properties.                                                             *)
(***************************************************************************)

\* Types.
NotesTypeOK ==
    /\ signedIn \in BOOLEAN
    /\ row \in [Notes -> {"absent", "unread", "read"}]
    /\ emitting \subseteq Notes
    /\ stream \in [Tabs -> {"unmounted", "open", "down", "refused"}]
    /\ listener = {t \in Tabs : stream[t] = "open"}
    /\ deadListeners \in 0..MaxDrops
    /\ wire \in [Tabs -> Seq(Notes)]
    /\ bell \in [Tabs -> Seq([id : Notes, read : BOOLEAN])]
    /\ marking \in [Tabs -> Notes \union {None, All}]
    /\ unsaved \in [Tabs -> SUBSET Notes]

\* A bell names a notification once and never one without a row, although its
\* row may be loaded with the page before its event is emitted, and again after
\* the connection was lost.
BellNamesOnce ==
    \A t \in Tabs :
        /\ Len(bell[t]) <= BellSize
        /\ \A i, j \in DOMAIN bell[t] : bell[t][i].id = bell[t][j].id => i = j
        /\ \A n \in Names(bell[t]) : row[n] # "absent"

\* An entry shown as read whose row is not came to the bell while it waited for
\* mark-all, so that the update had passed its row over and the answer marked
\* it, or it was marked when the browser had no session to mark it with.  Other
\* tabs, pages and lost answers make no such entry.
BellReadIsRowRead ==
    \A t \in Tabs : \A i \in DOMAIN bell[t] :
        bell[t][i].read =>
            row[bell[t][i].id] = "read" \/ bell[t][i].id \in unsaved[t]
===============================================================================
