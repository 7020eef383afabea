------------------------------ MODULE Console -------------------------------
(****************************************************************************)
(* One tab of the admin console: the signed-in session, the access token it *)
(* sends, the zone it acts in, the page that is open and the answers it     *)
(* still waits for.                                                         *)
(*                                                                          *)
(* Token and acting zone live in the session storage and outlive a reload;  *)
(* the session does not.  A new token is stored before the session that     *)
(* belongs to it is known.  Nothing refreshes an expired token.             *)
(****************************************************************************)
EXTENDS ConsolePages, Naturals, FiniteSets

CONSTANTS
    People,   \* the roles of the people who use this tab
    MaxKeys,  \* bound: filters, tabs, engineers or tickets to choose from
    MaxSent   \* bound: answers waited for at once

ASSUME ConsoleAssumption == People \subseteq Role /\ MaxKeys \in Nat /\ MaxSent \in Nat

VARIABLES
    token,    \* fsm.accessToken
    session,  \* the role of AuthProvider's session, "none" without one
    entering, \* apiMe is under way
    acting,   \* fsm.actingZone is set
    path,     \* the page
    key,      \* what is chosen on it
    shown,    \* the choice whose rows are displayed, 0 when there are none
    sent      \* loads of this page that are not answered

consoleVars == <<token, session, entering, acting, path, key, shown, sent>>

NoToken == [role |-> "none", fresh |-> FALSE]
Token == [role : People, fresh : BOOLEAN] \cup {NoToken}
Request == [key : 1..MaxKeys, guarded : BOOLEAN, token : Token]

ConsoleInit ==
    /\ token = NoToken /\ session = "none" /\ entering = FALSE /\ acting = FALSE
    /\ path = "login" /\ key = 1 /\ shown = 0 /\ sent = {}

Opened == Page(path, session)

\* A page is mounted: it has nothing to display and asks for its first choice.
Mount(p, role, tok) ==
    /\ path' = p /\ key' = 1 /\ shown' = 0
    /\ sent' = IF p = "login" \/ Page(p, role).load = {} THEN {}
               ELSE {[key |-> 1, guarded |-> Page(p, role).guarded, token |-> tok]}

-----------------------------------------------------------------------------
(* AuthProvider                                                           *)

\* login: the token first.
SignIn(role) ==
    /\ path = "login" /\ ~entering
    /\ token' = [role |-> role, fresh |-> TRUE]
    /\ entering' = TRUE
    /\ UNCHANGED <<session, acting, path, key, shown, sent>>

\* Then the session that apiMe describes, and the landing page.
Enter ==
    /\ entering /\ token.fresh
    /\ entering' = FALSE
    /\ session' = token.role
    /\ Mount("home", token.role, token)
    /\ UNCHANGED <<token, acting>>

\* apiMe fails: the token stays, and so does the session of before.
EnterFails ==
    /\ entering
    /\ entering' = FALSE
    /\ UNCHANGED <<token, session, acting, path, key, shown, sent>>

Logout ==
    /\ session # "none" /\ path # "login"
    /\ token' = NoToken /\ session' = "none" /\ acting' = FALSE
    /\ Mount("login", "none", NoToken)
    /\ UNCHANGED entering

\* TopBar and the banner of AppShell; the settings are outside the shell.
SetActing(on) ==
    /\ session # "none" /\ path # "login" /\ path \notin SettingsPages
    /\ acting # on /\ (on => session \in {CSM, OH})
    /\ acting' = on
    /\ UNCHANGED <<token, session, entering, path, key, shown, sent>>

\* The browser reloads the tab.
ReloadTab ==
    /\ session' = "none" /\ entering' = FALSE
    /\ Mount("login", "none", token)
    /\ UNCHANGED <<token, acting>>

\* The fifteen minutes of TokenService.
TokenExpires ==
    /\ token.fresh
    /\ token' = [token EXCEPT !.fresh = FALSE]
    /\ UNCHANGED <<session, entering, acting, path, key, shown, sent>>

-----------------------------------------------------------------------------
(* Routes and pages                                                       *)

\* RoleRoute sends another role to the landing page; the login page opens for everybody.
Open(p) ==
    /\ session # "none" /\ p # path
    /\ IF p = "login" \/ session \in Page(p, session).roles
       THEN Mount(p, session, token)
       ELSE path # "home" /\ Mount("home", session, token)
    /\ entering' = FALSE
    /\ UNCHANGED <<token, session, acting>>

\* Fault: no effect has a cleanup.
ChooseKeeping(k) ==
    /\ session # "none" /\ path # "login" /\ Opened.keyed /\ k # key
    /\ Cardinality(sent) < MaxSent
    /\ key' = k
    /\ sent' = sent \cup {[key |-> k, guarded |-> Opened.guarded, token |-> token]}
    /\ UNCHANGED <<token, session, entering, acting, path, shown>>

\* Another filter, tab, engineer or ticket: the cleanup of a guarded effect gives up its
\* request, an unguarded one goes on.  Only the engineer's panel is cleared.
Choose(k) ==
    /\ session # "none" /\ path # "login" /\ Opened.keyed /\ k # key
    /\ Cardinality(sent) < MaxSent
    /\ key' = k
    /\ sent' = {r \in sent : ~r.guarded}
               \cup {[key |-> k, guarded |-> Opened.guarded, token |-> token]}
    /\ shown' = IF path = "engineer" THEN 0 ELSE shown
    /\ UNCHANGED <<token, session, entering, acting, path>>

\* The rows are displayed when every call was granted; an error leaves those there were.
Answered(r) ==
    /\ r \in sent
    /\ sent' = sent \ {r}
    /\ shown' = IF \A c \in Opened.load : Answer(r.token, c) = 200 THEN r.key ELSE shown
    /\ UNCHANGED <<token, session, entering, acting, path, key>>

\* What the page offers now.
Offered ==
    IF session = "none" \/ path = "login" THEN {}
    ELSE Opened.forms[session]
         \cup IF shown = 0 THEN {} ELSE RowActions(path, session, acting)

\* A mutation that is granted: the page loads its present choice again.
Act(c) ==
    /\ c \in Offered \ Patched /\ path # "ticket" /\ Answer(token, c) = 200
    /\ Cardinality(sent) < MaxSent
    /\ sent' = sent \cup {[key |-> key, guarded |-> FALSE, token |-> token]}
    /\ UNCHANGED <<token, session, entering, acting, path, key, shown>>

\* The drawer closes with the ticket.
CloseTicketOfDrawer(c) ==
    /\ c \in Offered /\ path = "ticket" /\ Answer(token, c) = 200
    /\ Mount("tickets", session, token)
    /\ UNCHANGED <<token, session, entering, acting>>

ConsoleNext ==
    \/ \E role \in People : SignIn(role)
    \/ Enter \/ EnterFails \/ Logout \/ ReloadTab \/ TokenExpires
    \/ \E on \in BOOLEAN : SetActing(on)
    \/ \E p \in Paths : Open(p)
    \/ \E k \in 1..MaxKeys : Choose(k)
    \/ \E r \in sent : Answered(r)
    \/ \E c \in Offered : Act(c) \/ CloseTicketOfDrawer(c)

ConsoleSpec == ConsoleInit /\ [][ConsoleNext]_consoleVars

-----------------------------------------------------------------------------
(* Properties                                                             *)

\* What the console offers, the backend grants: every mutation on the page, however its rows
\* came there, and every link of the sidebar with the calls of its page, unless a half
\* sign-in left the token of somebody else (RoleRoute, canDecide, isOpsHead, buildNav; Roles).
OfferedIsAllowed ==
    session # "none" /\ token.role = session =>
        /\ \A c \in Offered : session \in Handler(c).may
        /\ \A p \in Nav(session) :
              /\ session \in Page(p, session).roles
              /\ session # SE => \A c \in Page(p, session).load : session \in Handler(c).may
              /\ session # SE => \A c \in SideCalls(p, session) :
                    session \in Handler(c).may \/ <<session, c>> \in Swallowed

\* On a page that only reads and whose effects have a cleanup, the rows put on display are
\* those of the present choice, in whatever order the answers arrive (TicketsPage,
\* TicketDetailDrawer, useApiResource).
ShownIsChosen ==
    [][shown' \notin {0, shown} /\ Opened'.guarded /\ Opened'.rows[session'] = {} =>
          shown' = key']_consoleVars

=============================================================================
