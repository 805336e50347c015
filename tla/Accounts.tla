------------------------------ MODULE Accounts ------------------------------
(***************************************************************************)
(* Signing in: the register and login handlers of the backend, whose find,   *)
(* compare and create are awaits of their own; the login page of the portal   *)
(* in several tabs of a browser, which share one localStorage; and the first  *)
(* screen of the app, which may send several requests at once and takes each  *)
(* answer.  Accounts are never changed or removed.                            *)
(***************************************************************************)
EXTENDS Naturals

CONSTANTS
    Emails, Passwords,
    Short,      \* the passwords the schema refuses (minlength)
    Tabs,       \* the tabs of one browser
    Phone,      \* the app
    Attempts,   \* numbers of the POSTs there can be in a behaviour (a bound)
    MaxLost,    \* answers that do not arrive, or handlers that throw (a bound)
    Nobody      \* not signed in: token and user are null

VARIABLES
    users,    \* the User documents: a token names one of them
    at,       \* where each POST is
    form,     \* what was typed, by whom
    account,  \* the document its handler found or created
    waiting,  \* the POST each tab's login page waits for: loading
    storage,  \* localStorage, token and user
    tab,      \* the account each tab's AuthContext shows
    phone,    \* the app's preferences
    acted,    \* the accounts the authority routes have served
    lost

posts   == <<at, form, account>>
clients == <<waiting, storage, tab, phone>>
vars == <<users, at, form, account, waiting, storage, tab, phone, acted, lost>>

Clients == Tabs \cup {Phone}
Forms == [by : Clients, kind : {"login", "register"}, email : Emails, password : Passwords,
          code : BOOLEAN]
Users == [email : Emails, password : Passwords, role : {"driver", "authority"}, code : BOOLEAN]

\* Every variable of signing in keeps to its values.
TypeOK ==
    /\ users \subseteq Users
    /\ at \in [Attempts -> {"unused", "find", "compare", "create", "ok", "refused", "taken",
                           "lost"}]
    /\ form \in [Attempts -> Forms \cup {Nobody}]
    /\ account \in [Attempts -> Users \cup {Nobody}]
    /\ waiting \in [Tabs -> Attempts \cup {Nobody}]
    /\ {storage, phone} \subseteq users \cup {Nobody}
    /\ tab \in [Tabs -> users \cup {Nobody}]
    /\ acted \subseteq users /\ lost \in 0..MaxLost

Init ==
    /\ users = {}
    /\ at = [c \in Attempts |-> "unused"]
    /\ form = [c \in Attempts |-> Nobody] /\ account = [c \in Attempts |-> Nobody]
    /\ waiting = [t \in Tabs |-> Nobody]
    /\ storage = Nobody /\ tab = [t \in Tabs |-> Nobody] /\ phone = Nobody
    /\ acted = {} /\ lost = 0

-----------------------------------------------------------------------------
(* The login page and the first screen *)

Sent(c, f) ==
    /\ at[c] = "unused" /\ \A d \in Attempts : d < c => at[d] # "unused"
    /\ at' = [at EXCEPT ![c] = "find"]
    /\ form' = [form EXCEPT ![c] = f]
    /\ UNCHANGED <<users, account, storage, tab, phone, acted, lost>>

\* The button is disabled while the page waits.  Only a registration takes a code.
Submit(t, f) == \E c \in Attempts :
    /\ f.by = t /\ waiting[t] = Nobody
    /\ f.kind = "login" => ~f.code
    /\ Sent(c, f)
    /\ waiting' = [waiting EXCEPT ![t] = c]

\* The app registers drivers, without a code; its button can be pressed again at once.
Tap(f) == \E c \in Attempts :
    /\ f.by = Phone /\ ~f.code /\ phone = Nobody
    /\ Sent(c, f)
    /\ UNCHANGED waiting

\* A portal is for authorities: another account's token is dropped.
Accepts(a) == a.role = "authority"

\* An answer that arrives where it is waited for.
Taken(c) ==
    /\ at[c] \in {"ok", "refused"}
    /\ at' = [at EXCEPT ![c] = "taken"]
    /\ IF form[c].by = Phone
       THEN /\ phone' = IF at[c] = "ok" THEN account[c] ELSE phone
            /\ UNCHANGED <<waiting, storage, tab>>
       ELSE /\ waiting[form[c].by] = c
            /\ waiting' = [waiting EXCEPT ![form[c].by] = Nobody]
            /\ IF at[c] = "ok" /\ Accepts(account[c])
               THEN /\ storage' = account[c]
                    /\ tab' = [tab EXCEPT ![form[c].by] = account[c]]
               ELSE UNCHANGED <<storage, tab>>
            /\ UNCHANGED phone
    /\ UNCHANGED <<users, form, account, acted, lost>>

\* The tab is loaded again: what it waited for is gone, the rest is in localStorage.
Reload(t) ==
    /\ tab' = [tab EXCEPT ![t] = storage]
    /\ waiting' = [waiting EXCEPT ![t] = Nobody]
    /\ UNCHANGED <<users, posts, storage, phone, acted, lost>>

Logout(t) ==
    /\ tab[t] # Nobody /\ waiting[t] = Nobody
    /\ storage' = Nobody /\ tab' = [tab EXCEPT ![t] = Nobody]
    /\ UNCHANGED <<users, posts, waiting, phone, acted, lost>>

\* "Log out" clears the preferences, whatever is still on its way.
LogoutPhone ==
    /\ phone # Nobody /\ phone' = Nobody
    /\ UNCHANGED <<users, posts, waiting, storage, tab, acted, lost>>

-----------------------------------------------------------------------------
(* The backend *)

Goes(c, where, a) ==
    /\ at' = [at EXCEPT ![c] = where]
    /\ account' = [account EXCEPT ![c] = a]
    /\ UNCHANGED <<form, clients, acted, lost>>

Role(f) == IF f.by = Phone THEN "driver" ELSE "authority"
Named(f) == {u \in users : u.email = f.email}

AnyCode(f) == TRUE                                                              \* mutant
CodeGiven(f) == Role(f) = "authority" => f.code

\* login: the user with that email, whose password is compared then.
FindUser(c) ==
    /\ at[c] = "find" /\ form[c].kind = "login"
    /\ \/ Named(form[c]) = {} /\ Goes(c, "refused", Nobody)
       \/ \E u \in Named(form[c]) : Goes(c, "compare", u)
    /\ UNCHANGED users

Compare(c) ==
    /\ at[c] = "compare"
    /\ IF account[c].password = form[c].password THEN Goes(c, "ok", account[c])
                                                 ELSE Goes(c, "refused", Nobody)
    /\ UNCHANGED users

\* register: an authority gives the invite code, and no account has that email yet ...
FindNone(c) ==
    /\ at[c] = "find" /\ form[c].kind = "register"
    /\ Goes(c, IF CodeGiven(form[c]) /\ Named(form[c]) = {} THEN "create" ELSE "refused", Nobody)
    /\ UNCHANGED users

NewUser(f) == [email |-> f.email, password |-> f.password, role |-> Role(f), code |-> f.code]

\* ... and, when it is written, the schema takes the password and the index the email.
Create(c) ==
    /\ at[c] = "create"
    /\ IF form[c].password \in Short \/ Named(form[c]) # {}
       THEN Goes(c, "refused", Nobody) /\ UNCHANGED users
       ELSE Goes(c, "ok", NewUser(form[c])) /\ users' = users \cup {NewUser(form[c])}

\* The handler throws, or its answer is lost: "Something went wrong".
Lose(c) ==
    /\ at[c] \in {"find", "compare", "create", "ok", "refused"}
    /\ lost < MaxLost /\ lost' = lost + 1
    /\ at' = [at EXCEPT ![c] = "lost"]
    /\ waiting' = [t \in Tabs |-> IF waiting[t] = c THEN Nobody ELSE waiting[t]]
    /\ UNCHANGED <<users, form, account, storage, tab, phone, acted>>

\* protect and authorize: the request carries localStorage's token, whoever the tab shows.
Act(t) ==
    /\ tab[t] # Nobody /\ storage # Nobody /\ storage.role = "authority"
    /\ acted' = acted \cup {storage}
    /\ UNCHANGED <<users, posts, clients, lost>>

Next ==
    \/ \E t \in Tabs : (\E f \in Forms : Submit(t, f)) \/ Reload(t) \/ Logout(t) \/ Act(t)
    \/ (\E f \in Forms : Tap(f)) \/ LogoutPhone
    \/ \E c \in Attempts :
           FindUser(c) \/ Compare(c) \/ FindNone(c) \/ Create(c) \/ Taken(c) \/ Lose(c)

Spec == Init /\ [][Next]_vars

-----------------------------------------------------------------------------
Succeeded(c) == at[c] \in {"ok", "taken"} /\ account[c] # Nobody

\* Whoever is given a token typed the email and the password of its account, and however
\* many registrations of one email run at the same time, one of them makes the account.
OwnAccount ==
    /\ \A c \in Attempts : Succeeded(c) =>
         account[c].email = form[c].email /\ account[c].password = form[c].password
    /\ \A c, d \in Attempts : c # d /\ Succeeded(c) /\ Succeeded(d) /\ account[c] = account[d] =>
         "login" \in {form[c].kind, form[d].kind}
    /\ \A u, v \in users : u.email = v.email => u = v

\* Whom a tab shows, whose token the browser sends, and whom the authority routes serve is
\* an authority that registered with the invite code and signed in in this browser.
AuthorityEarned ==
    \A a \in acted \cup {storage} \cup {tab[t] : t \in Tabs} : a # Nobody =>
        /\ a.role = "authority" /\ a.code
        /\ \E c \in Attempts : Succeeded(c) /\ account[c] = a /\ form[c].by \in Tabs

\* Nobody signs in as somebody else, or as an authority that is none.
SignInSound == OwnAccount /\ AuthorityEarned
=============================================================================
