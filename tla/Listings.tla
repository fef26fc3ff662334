------------------------------- MODULE Listings -------------------------------
(***************************************************************************)
(* The two lists that are read page by page through OFFSET and a Next      *)
(* link: the directory of groups, oldest first, and the reputation history *)
(* of a user, newest first.  Each page reads its rows and the total in two *)
(* statements, side by side; rows are added meanwhile, and never deleted.  *)
(* A group's row comes out of a join with its members.                     *)
(***************************************************************************)
EXTENDS Integers, FiniteSets, SequencesExt

CONSTANTS
    PageSize,       \* 24 groups, 25 events
    MaxRows,        \* rows ever inserted (bounds the list)
    MaxOverlap,     \* commits that may overtake an insert stamped before them
    MaxMembers      \* members of a group (bounds the join)

ASSUME ListingsAssumption ==
    /\ PageSize \in Nat \ {0}
    /\ {MaxRows, MaxOverlap} \subseteq Nat
    /\ MaxMembers \in Nat \ {0}

VARIABLES
    listing,        \* which of the two lists
    table,          \* the ids of the rows, in the order of the query
    memberCount,    \* members of each group; events have none
    reader,         \* the page on the screen, or the one being read, with the
                    \* length the list had when its rows were read (stood)
    seen,           \* rows the reader has been shown
    owed            \* rows that stood on the first page opened or after it

listVars == <<listing, table, memberCount, reader, seen, owed>>

Ids == 1 .. MaxRows

PageStep == {"nothing", "reading", "shown"}

\* Pages of a list of n rows.
PageCount(n) == (n + PageSize - 1) \div PageSize

\* The group at each place of the table, joined with each of its members, or with
\* nobody (0): the LEFT JOIN before its GROUP BY.
Joined ==
    {row \in (DOMAIN table) \X (0 .. MaxMembers) :
        LET members == memberCount[table[row[1]]]
        IN  row[2] \in (IF members = 0 THEN {0} ELSE 1 .. members)}

\* GROUP BY groups.id: one row for each group of the join.
Grouped == {row[1] : row \in Joined}

\* Mutant: the members are joined and the groups they belong to are not grouped.
JoinedAhead(place) == Cardinality({row \in Joined : row[1] < place})

\* Rows that come before a group's, which OFFSET counts.
RowsAhead(place) == Cardinality({other \in Grouped : other < place})

\* Mutant: the page is read up to the first row of the next one.
PageOfOneMore(p) ==
    {table[place] : place \in {r \in Grouped :
        RowsAhead(r) >= (p - 1) * PageSize /\ RowsAhead(r) <= p * PageSize}}

\* The rows of page p: OFFSET (p - 1) * PageSize LIMIT PageSize.
PageOf(p) ==
    {table[place] : place \in {r \in Grouped :
        RowsAhead(r) >= (p - 1) * PageSize /\ RowsAhead(r) < p * PageSize}}

Reading(p) ==
    [step |-> "reading", page |-> p, rows |-> {}, gotRows |-> FALSE,
     stood |-> 0, total |-> 0, gotTotal |-> FALSE]

hasPrev == reader.page > 1
hasNext == reader.page < PageCount(reader.total)

-------------------------------------------------------------------------------
ListInit ==
    /\ listing \in {"directory", "history"}
    /\ table = <<>>
    /\ memberCount = [id \in Ids |-> 0]
    /\ reader = [Reading(1) EXCEPT !.step = "nothing"]
    /\ seen = {}
    /\ owed = {}

\* A row is stamped when its transaction starts and is read once it commits, so
\* that at most MaxOverlap rows with a later stamp are there already.
InsertRow ==
    /\ Len(table) < MaxRows
    /\ \E later \in 0 .. MaxOverlap :
          /\ later <= Len(table)
          /\ table' = InsertAt(table,
                IF listing = "directory" THEN Len(table) - later + 1 ELSE later + 1,
                Len(table) + 1)
    /\ memberCount' = [memberCount EXCEPT
          ![Len(table) + 1] = IF listing = "directory" THEN 1 ELSE 0]
    /\ UNCHANGED <<listing, reader, seen, owed>>

\* Somebody joins or leaves a group.
ChangeMembers(id) ==
    /\ listing = "directory"
    /\ id <= Len(table)
    /\ \E n \in 0 .. MaxMembers : memberCount' = [memberCount EXCEPT ![id] = n]
    /\ UNCHANGED <<listing, table, reader, seen, owed>>

\* ?page=raw, a number below 1 or no number counting as 1.
OpenPage(raw) ==
    LET p == IF raw < 1 THEN 1 ELSE raw
    IN  /\ reader.step = "nothing"
        /\ reader' = Reading(p)
        /\ owed' = {table[place] : place \in {r \in DOMAIN table : r > (p - 1) * PageSize}}
        /\ UNCHANGED <<listing, table, memberCount, seen>>

ReadRows ==
    /\ reader.step = "reading"
    /\ ~reader.gotRows
    /\ reader' = [reader EXCEPT
          !.rows = PageOf(reader.page), !.gotRows = TRUE, !.stood = Len(table)]
    /\ UNCHANGED <<listing, table, memberCount, seen, owed>>

\* The distinct groups, or the events of the user.
ReadTotal ==
    /\ reader.step = "reading"
    /\ ~reader.gotTotal
    /\ reader' = [reader EXCEPT !.total = Len(table), !.gotTotal = TRUE]
    /\ UNCHANGED <<listing, table, memberCount, seen, owed>>

ShowPage ==
    /\ reader.step = "reading"
    /\ reader.gotRows
    /\ reader.gotTotal
    /\ reader' = [reader EXCEPT !.step = "shown"]
    /\ seen' = seen \union reader.rows
    /\ UNCHANGED <<listing, table, memberCount, owed>>

NextPage ==
    /\ reader.step = "shown"
    /\ hasNext
    /\ reader' = Reading(reader.page + 1)
    /\ UNCHANGED <<listing, table, memberCount, seen, owed>>

PrevPage ==
    /\ reader.step = "shown"
    /\ hasPrev
    /\ reader' = Reading(reader.page - 1)
    /\ UNCHANGED <<listing, table, memberCount, seen, owed>>

ListNext ==
    \/ InsertRow
    \/ \E id \in Ids : ChangeMembers(id)
    \/ \E raw \in 0 .. 2 : OpenPage(raw)
    \/ ReadRows
    \/ ReadTotal
    \/ ShowPage
    \/ NextPage
    \/ PrevPage

ListSpec == ListInit /\ [][ListNext]_listVars

-------------------------------------------------------------------------------
(***************************************************************************)
(* Properties.                                                             *)
(***************************************************************************)

\* Types.
ListTypeOK ==
    /\ listing \in {"directory", "history"}
    /\ table \in Seq(Ids)
    /\ memberCount \in [Ids -> 0 .. MaxMembers]
    /\ reader.step \in PageStep
    /\ reader.page \in Nat \ {0}
    /\ reader.rows \subseteq Ids
    /\ Cardinality(reader.rows) <= PageSize
    /\ seen \subseteq Ids
    /\ owed \subseteq Ids

\* A reader who follows Next until there is no Next has been shown every row
\* that was there when he began, although rows arrive in between, overtake one
\* another and shift the pages, and members come and go (rows may be shown
\* twice).  The total that decides about Next is read apart from the rows: what
\* was inserted between the two reads of the last page can cost him as many.
PagesMissNothing ==
    reader.step = "shown" /\ ~hasNext =>
        \/ owed \subseteq seen
        \/ Cardinality(owed \ seen) <= reader.stood - reader.total
===============================================================================
