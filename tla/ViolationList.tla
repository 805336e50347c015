--------------------------- MODULE ViolationList ---------------------------
(***************************************************************************)
(* The list page of the portal while it is open: the filters, each change of  *)
(* which that the backend has to answer sends a GET of its own (each key       *)
(* typed into the plate field, too); the rows of the answer that came last,    *)
(* filtered, sorted and cut into pages; and the dialog with a row's plate       *)
(* picture.  Answers come in any order, and an answer is any set of rows: the  *)
(* violations change meanwhile.                                                *)
(***************************************************************************)
EXTENDS Integers, FiniteSets

CONSTANTS
    Queries,   \* what status, date and plate together ask the backend for
    Everything,  \* the query with none of them set
    Rows,      \* the violations there are, numbered from the newest on
    TypeOf,    \* their types ...
    Rank,      \* ... and priorities, 0 the highest
    Types, Sorts,  \* the choices of type and of sorting the page is used with
    PerPage,
    MaxGets, MaxShows,  \* GETs, and clicks on "Photo", there can be (bounds)
    None       \* no type, no sorting; no answer, no dialog, no picture

VARIABLES
    query, type, sort,  \* the filters
    rows, answered,     \* the rows of the last answer, and what it answers; None: none came
    page, loading, error,
    gets,      \* how many GETs have been sent
    flying,    \* those on their way, with what they ask: <<number, query>>
    last,      \* the GET that ended last
    dialog,    \* the row whose picture is open
    picture,   \* when the URL on display came: the clicks on "Photo" until then
    broken,    \* the dialog says that the picture could not be loaded
    shows,     \* clicks on "Photo", so far
    asks       \* pictures on their way: <<click, row>>

vars == <<query, type, sort, rows, answered, page, loading, error, gets, flying, last, dialog,
          picture, broken, shows, asks>>

Asks == (1..MaxShows) \X Rows

\* Every variable of the list page keeps to its values.
TypeOK ==
    /\ query \in Queries /\ type \in Types \cup {None} /\ sort \in Sorts \cup {None}
    /\ rows \subseteq Rows /\ answered \in Queries \cup {None}
    /\ page \in Nat /\ loading \in BOOLEAN /\ error \in BOOLEAN
    /\ gets \in 1..MaxGets /\ flying \subseteq (1..MaxGets) \X Queries /\ last \in 0..MaxGets
    /\ dialog \in Rows \cup {None} /\ picture \in (1..MaxShows) \cup {None}
    /\ broken \in BOOLEAN /\ shows \in 0..MaxShows /\ asks \subseteq Asks

\* The page opens with all violations, newest first.
Init ==
    /\ query = Everything /\ type = None /\ sort = None
    /\ rows = {} /\ answered = None
    /\ page = 1 /\ loading = TRUE /\ error = FALSE
    /\ gets = 1 /\ flying = {<<1, query>>} /\ last = 0
    /\ dialog = None /\ picture = None /\ broken = FALSE /\ shows = 0 /\ asks = {}

-----------------------------------------------------------------------------
(* What is on display *)

Shown == {r \in rows : type = None \/ TypeOf[r] = type}

\* High to low, or low to high; rows of one priority stay newest first.
Before(q, r) ==
    LET more == CASE sort = "priority_desc" -> Rank[q] - Rank[r]
                  [] sort = "priority_asc"  -> Rank[r] - Rank[q]
                  [] OTHER -> 0
    IN more < 0 \/ (more = 0 /\ q < r)

Place(r) == Cardinality({q \in Shown : Before(q, r)})
OnPage(p) == {r \in Shown : Place(r) \div PerPage = p - 1}
TotalPages == (Cardinality(Shown) + PerPage - 1) \div PerPage

\* While the page loads it has no table.
Mounted == IF loading THEN {} ELSE OnPage(page)

\* A dialog goes, and what it waits for, with the row it belongs to.
RowsRedrawn ==
    /\ dialog' = IF dialog \in Mounted' THEN dialog ELSE None
    /\ asks' = {a \in asks : a[2] \in Mounted'}
    /\ UNCHANGED <<picture, broken, shows>>

-----------------------------------------------------------------------------
(* Filters and pages *)

PageStays == page                                                               \* mutant
FirstPage == 1

\* A change of status, date or plate is sent to the backend ...
Ask(q) ==
    /\ q # query /\ gets < MaxGets
    /\ query' = q /\ page' = FirstPage /\ loading' = TRUE
    /\ gets' = gets + 1 /\ flying' = flying \cup {<<gets + 1, q>>}
    /\ UNCHANGED <<sort, rows, answered, error, last>>
    /\ RowsRedrawn

SetQuery(q) == Ask(q) /\ UNCHANGED type

\* "Clear" takes the type with it.
Clear == type # None /\ type' = None /\ Ask(Everything)

\* ... one of the type or the order is not.
SetType(t) ==
    /\ t # type /\ type' = t /\ page' = FirstPage
    /\ UNCHANGED <<query, sort, rows, answered, loading, error, gets, flying, last>>
    /\ RowsRedrawn

SetSort(s) ==
    /\ s # sort /\ sort' = s /\ page' = FirstPage
    /\ UNCHANGED <<query, type, rows, answered, loading, error, gets, flying, last>>
    /\ RowsRedrawn

\* The buttons below a table of several pages.
SetPage(p) ==
    /\ ~loading /\ TotalPages > 1
    /\ p # page /\ page' = p
    /\ UNCHANGED <<query, type, sort, rows, answered, loading, error, gets, flying, last>>
    /\ RowsRedrawn

Ends(g) ==
    /\ flying' = flying \ {g} /\ last' = g[1]
    /\ loading' = FALSE
    /\ UNCHANGED <<query, type, sort, gets>>

\* Whichever answer comes is put on display, for whatever filters it was asked.
Answer(g, found) ==
    /\ Ends(g)
    /\ rows' = found /\ answered' = g[2] /\ page' = FirstPage
    /\ UNCHANGED error
    /\ RowsRedrawn

\* "Failed to load." stays until the page is left.
Fail(g) ==
    /\ Ends(g)
    /\ error' = TRUE
    /\ UNCHANGED <<rows, answered, page>>
    /\ RowsRedrawn

-----------------------------------------------------------------------------
(* The plate picture *)

listVars == <<query, type, sort, rows, answered, page, loading, error, gets, flying, last>>

Show(r) ==
    /\ r \in Mounted /\ dialog = None /\ shows < MaxShows
    /\ dialog' = r /\ picture' = None /\ broken' = FALSE
    /\ shows' = shows + 1 /\ asks' = asks \cup {<<shows + 1, r>>}
    /\ UNCHANGED listVars

Close ==
    /\ dialog # None /\ dialog' = None
    /\ UNCHANGED <<listVars, picture, broken, shows, asks>>

\* The row takes the URL, or the failure, of any click on it; a closed one forgets it.
PictureComes(a) ==
    /\ asks' = asks \ {a}
    /\ IF dialog = a[2]
       THEN \/ picture' = shows /\ UNCHANGED broken
            \/ broken' = TRUE /\ UNCHANGED picture
       ELSE UNCHANGED <<picture, broken>>
    /\ UNCHANGED <<listVars, dialog, shows>>

Next ==
    \/ Clear \/ \E q \in Queries : SetQuery(q)
    \/ \E t \in Types \cup {None} : SetType(t)
    \/ \E s \in Sorts \cup {None} : SetSort(s)
    \/ \E p \in 1..TotalPages : SetPage(p)
    \/ \E g \in flying : Fail(g) \/ (\E found \in SUBSET Rows : Answer(g, found))
    \/ Close \/ (\E r \in Rows : Show(r))
    \/ \E a \in asks : PictureComes(a)

Spec == Init /\ [][Next]_vars

-----------------------------------------------------------------------------
\* Unless an older answer overtook, the page shows, when nothing is on its way, what its
\* filters ask for, or says that loading failed; before any answer it never says that
\* there are no violations.
ListTold ==
    /\ flying = {} /\ last = gets => error \/ answered = query
    /\ ~loading => error \/ answered # None

\* However filters, answers and clicks follow each other, the page on display is one of
\* the pages, and not an empty one while there are rows to show.
PageExists == \/ page \in 1..TotalPages /\ OnPage(page) # {}
              \/ page = 1 /\ Shown = {}

\* A dialog that waits for nothing has a picture to show, or says why not, and a
\* picture is one that came since the dialog was opened.
PictureTold ==
    dialog # None =>
        /\ dialog \in Mounted
        /\ picture \in {None, shows}
        /\ picture = None /\ ~broken => \E a \in asks : a[2] = dialog

\* What is asked for on the list page is what it shows.
ListSound == ListTold /\ PageExists /\ PictureTold
=============================================================================
