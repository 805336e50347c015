------------------------------- MODULE Review -------------------------------
(***************************************************************************)
(* Reviewing one violation: the detail pages several authorities have open,   *)
(* and the backend's verify and dismiss handlers, whose find, save and        *)
(* notification are awaits of their own.  mongoose's save writes the fields   *)
(* that differ from what find read, not the whole document.                   *)
(***************************************************************************)
EXTENDS Naturals

CONSTANTS
    Authorities,
    Clicks,     \* POSTs there can be in a behaviour (a bound)
    MaxFaults,  \* POSTs that fail or are cut by a restart (a bound)
    NoOne       \* reviewedBy: null

VARIABLES
    status, reviewedBy,  \* the Violation document
    notes,   \* the clicks a Notification was created for
    page,    \* the status each authority's detail page shows
    message, \* the action message on it
    at,      \* where each click's POST is; "half" is one that failed after its save
    who,     \* the authority that clicked
    action,  \* "verified" or "dismissed", the status the click asks for
    seen,    \* what the handler's findById returned: <<status, reviewedBy>>
    faults

document == <<status, reviewedBy>>
pages    == <<page, message>>
clicks   == <<at, who, action, seen>>
vars == <<status, reviewedBy, notes, page, message, at, who, action, seen, faults>>

Decisions == {"verified", "dismissed"}
Statuses  == {"pending"} \cup Decisions

\* Every variable of a review keeps to its values.
TypeOK ==
    /\ status \in Statuses
    /\ reviewedBy \in Authorities \cup {NoOne}
    /\ notes \subseteq Clicks
    /\ page \in [Authorities -> Statuses \cup {"closed"}]
    /\ message \in [Authorities -> Decisions \cup {"none"}]
    /\ at \in [Clicks -> {"unused", "sent", "save", "notify", "answer", "ok", "error", "half"}]
    /\ who \in [Clicks -> Authorities \cup {NoOne}]
    /\ action \in [Clicks -> Decisions]
    /\ seen \in [Clicks -> Statuses \X (Authorities \cup {NoOne})]
    /\ faults \in 0..MaxFaults

Init ==
    /\ status = "pending" /\ reviewedBy = NoOne /\ notes = {}
    /\ page = [a \in Authorities |-> "closed"]
    /\ message = [a \in Authorities |-> "none"]
    /\ at = [c \in Clicks |-> "unused"]
    /\ who = [c \in Clicks |-> NoOne]
    /\ action = [c \in Clicks |-> "dismissed"]
    /\ seen = [c \in Clicks |-> <<"pending", NoOne>>]
    /\ faults = 0

-----------------------------------------------------------------------------
(* The detail page *)

\* GET /evidence/:id, read once when the page is opened.
Open(a) ==
    /\ page[a] = "closed"
    /\ page' = [page EXCEPT ![a] = status]
    /\ UNCHANGED <<document, notes, message, clicks, faults>>

\* Both buttons stay until the first answer: a second click is another POST.
Click(a, decision) == \E c \in Clicks :
    /\ page[a] = "pending" /\ message[a] = "none"
    /\ at[c] = "unused"
    /\ at' = [at EXCEPT ![c] = "sent"]
    /\ who' = [who EXCEPT ![c] = a]
    /\ action' = [action EXCEPT ![c] = decision]
    /\ UNCHANGED <<document, notes, pages, seen, faults>>

-----------------------------------------------------------------------------
(* POST /violation/:id/verify and /dismiss *)

Find(c) ==
    /\ at[c] = "sent"
    /\ seen' = [seen EXCEPT ![c] = document]
    /\ at' = [at EXCEPT ![c] = "save"]
    /\ UNCHANGED <<document, notes, pages, who, action, faults>>

SavedStatus(c) == IF seen[c][1] = action[c] THEN status ELSE action[c]
SavedReviewer(c) == IF seen[c][2] = who[c] THEN reviewedBy ELSE who[c]

\* A dismiss answers after its save; a verify has the notification first.
Save(c) ==
    /\ at[c] = "save"
    /\ status' = SavedStatus(c)
    /\ reviewedBy' = SavedReviewer(c)
    /\ at' = [at EXCEPT ![c] = IF action[c] = "verified" THEN "notify" ELSE "answer"]
    /\ UNCHANGED <<notes, pages, who, action, seen, faults>>

IfItWasPending(c) == seen[c][1] = "pending"                                     \* mutant
Notifies(c) == TRUE

Notify(c) ==
    /\ at[c] = "notify"
    /\ notes' = IF Notifies(c) THEN notes \cup {c} ELSE notes
    /\ at' = [at EXCEPT ![c] = "answer"]
    /\ UNCHANGED <<document, pages, who, action, seen, faults>>

\* The page shows what its own click asked for.
Answer(c) ==
    /\ at[c] = "answer"
    /\ page' = [page EXCEPT ![who[c]] = action[c]]
    /\ message' = [message EXCEPT ![who[c]] = action[c]]
    /\ at' = [at EXCEPT ![c] = "ok"]
    /\ UNCHANGED <<document, notes, who, action, seen, faults>>

\* The POST is lost, its handler throws, or only its answer is lost: the page says
\* "Action failed" and stays as it was.
Fail(c) ==
    /\ at[c] \in {"sent", "save", "notify", "answer"}
    /\ faults < MaxFaults /\ faults' = faults + 1
    /\ at' = [at EXCEPT ![c] = IF at[c] \in {"sent", "save"} THEN "error" ELSE "half"]
    /\ UNCHANGED <<document, notes, pages, who, action, seen>>

Next ==
    \/ \E a \in Authorities : Open(a) \/ Click(a, "verified") \/ Click(a, "dismissed")
    \/ \E c \in Clicks : Find(c) \/ Save(c) \/ Notify(c) \/ Answer(c) \/ Fail(c)

Spec == Init /\ [][Next]_vars

-----------------------------------------------------------------------------
Saved(c) == at[c] \in {"notify", "answer", "ok", "half"}

\* A violation on record as verified has been announced to its driver, or is about to be,
\* unless every verify that saved it was cut off between its save and its notification:
\* whatever other reviews overlap and fail.
VerifiedAnnounced ==
    status = "verified" => \E c \in Clicks :
        action[c] = "verified" /\ (c \in notes \/ at[c] \in {"notify", "half"})

\* A page only claims the driver has been notified when a click of its own has done it.
ToldTrue == \A a \in Authorities : message[a] = "verified" => \E c \in notes : who[c] = a

\* A decision a driver was told or a page shows, and which is not the one on record, was
\* overruled: a review with the other decision has been saved.
Overruled ==
    /\ notes # {} /\ status # "verified" => \E c \in Clicks : Saved(c) /\ action[c] = "dismissed"
    /\ \A a \in Authorities : page[a] \in Decisions /\ page[a] # status =>
           \E c \in Clicks : Saved(c) /\ action[c] = status

\* Drivers are told of what is verified, and what they and the pages were told stands
\* until another review is saved, whatever order the reviews run in.
ReviewTold == VerifiedAnnounced /\ ToldTrue /\ Overruled

-----------------------------------------------------------------------------
(* What does not hold when a verify and a dismiss of one violation overlap *)

\* Once every POST has been answered, a page that says the violation is verified and its
\* driver notified shows the status on record.
ShownAsRecorded ==
    (\A c \in Clicks : at[c] \in {"unused", "ok"}) =>
        \A a \in Authorities : message[a] = "verified" => status = "verified"

\* The reviewer on record is the one who took the decision on record: the
\* dashboard's "verified by me" and "dismissed by me" lists.
OwnDecision ==
    reviewedBy # NoOne =>
        \E c \in Clicks : at[c] # "unused" /\ who[c] = reviewedBy /\ action[c] = status
=============================================================================
