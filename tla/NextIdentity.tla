---------------------------- MODULE NextIdentity ----------------------------
(***************************************************************************)
(* Accounts, sessions and one-time tokens of the Next.js backend: what the *)
(* identity service, the administrator's change of a user and the cleanup  *)
(* of the scheduler do to the backend's state.                             *)
(*                                                                         *)
(* An account is known by its normalised e-mail, and so is the Google      *)
(* account with the same e-mail.  A refresh token and the CSRF token that  *)
(* is drawn with it have one name, as have a session and its family: each  *)
(* login opens a family and a refresh changes its session in place.  Time  *)
(* is not measured: what expires does so at some moment.                   *)
(*                                                                         *)
(* Every action is one request, or one run of the scheduler, and a         *)
(* transaction of the store.  A request that throws changes nothing, which *)
(* is no step of this specification.                                       *)
(***************************************************************************)
EXTENDS NextCommon, Naturals, FiniteSets

CONSTANTS
    Passwords,
    BootstrapEmail,    \* the address that is registered as the first superadmin
    Sessions,          \* rows of state.sessions
    Tokens,            \* refresh tokens and their CSRF tokens
    Links,             \* one-time tokens that are sent, or given to the browser as OAuth state
    RateLimit          \* requests for a token of an address and purpose in a window

ASSUME NextIdentityAssumption ==
    /\ IsFiniteSet(Users)
    /\ RateLimit \in Nat
    /\ None \notin Passwords \cup Tokens

VARIABLES
    status,            \* "none" before the account exists
    role,
    password,
    linked,            \* oauthLinks: accounts that were opened with Google
    session,           \* the row of a session
    issued,            \* tokens that were drawn
    link,              \* the row of a one-time token
    attempts           \* rateLimits: requests in the window

accountVars  == <<status, role, password, linked>>
sessionVars  == <<session, issued>>
linkVars     == <<link, attempts>>
identityVars == <<accountVars, sessionVars, linkVars>>

Purposes == {"email_verification", "password_reset"}

Registered(u) == status[u] # "none"

\* assertActive.
Active(u) == status[u] = "ACTIVE"

Superadmins == {u \in Users : role[u] = "SUPERADMIN" /\ Active(u)}

-----------------------------------------------------------------------------
(* Sessions *)

\* proof is history: the password the account had when the session was opened.
UnusedSession == [state |-> "unused", user |-> None, token |-> None, previous |-> {}, proof |-> None]

Live(s) == session[s].state = "live"

Known(s) == session[s].state \in {"live", "ended"}

IssueSession(u, s, t) ==
    /\ session[s].state = "unused"
    /\ t \notin issued
    /\ issued' = issued \cup {t}
    /\ session' = [session EXCEPT ![s] = [state |-> "live", user |-> u, token |-> t,
                                          previous |-> {}, proof |-> password[u]]]

EndSessions(ended) ==
    session' = [s \in Sessions |-> IF s \in ended /\ Live(s)
                                     THEN [session[s] EXCEPT !.state = "ended"]
                                     ELSE session[s]]

SessionsOf(u) == {s \in Sessions : session[s].user = u}

-----------------------------------------------------------------------------
(* One-time tokens *)

UnusedLink == [state |-> "unused", user |-> None, purpose |-> "none"]

Open(o) == link[o].state = "open"

\* Tokens a new one replaces.
Superseded(u, purpose) ==
    {o \in Links : Open(o) /\ link[o].user = u /\ link[o].purpose = purpose}

IssueLink(u, purpose, o) ==
    /\ link[o].state = "unused"
    /\ link' = [q \in Links |->
                  IF q = o THEN [state |-> "open", user |-> u, purpose |-> purpose]
                  ELSE IF q \in Superseded(u, purpose) THEN [link[q] EXCEPT !.state = "spent"]
                  ELSE link[q]]

ConsumeLink(o, purpose) ==
    /\ Open(o)
    /\ link[o].purpose = purpose
    /\ link' = [link EXCEPT ![o].state = "spent"]

\* The attempt is kept too if nobody has that address.
ConsumeRateLimit(u, purpose) ==
    /\ attempts[purpose, u] < RateLimit
    /\ attempts' = [attempts EXCEPT ![<<purpose, u>>] = @ + 1]

-----------------------------------------------------------------------------
(* Accounts *)

Register(u, p, o) ==
    /\ ~Registered(u)
    /\ status' = [status EXCEPT ![u] = "ACTIVE"]
    /\ role' = [role EXCEPT ![u] = IF u = BootstrapEmail THEN "SUPERADMIN" ELSE "USER"]
    /\ password' = [password EXCEPT ![u] = p]
    /\ IssueLink(u, "email_verification", o)
    /\ UNCHANGED <<linked, sessionVars, attempts>>

Login(u, p, s, t) ==
    /\ Registered(u)
    /\ password[u] = p
    /\ Active(u)
    /\ IssueSession(u, s, t)
    /\ UNCHANGED <<accountVars, linkVars>>

RequestOneTimeToken(u, purpose, o) ==
    /\ ConsumeRateLimit(u, purpose)
    /\ IF Registered(u) THEN IssueLink(u, purpose, o) ELSE UNCHANGED link
    /\ UNCHANGED <<accountVars, sessionVars>>

\* emailVerifiedAt is set here, or when Google vouches for the address, and read nowhere.
ConfirmEmail(o) ==
    /\ ConsumeLink(o, "email_verification")
    /\ UNCHANGED <<accountVars, sessionVars, attempts>>

ResetPassword(o, p) ==
    /\ ConsumeLink(o, "password_reset")
    /\ password' = [password EXCEPT ![link[o].user] = p]
    /\ EndSessions(SessionsOf(link[o].user))
    /\ UNCHANGED <<status, role, linked, issued, attempts>>

\* Mutant: whoever knows the old password stays in.
ChangePassword_KeepsSessions(u, p, new) ==
    /\ Registered(u)
    /\ password[u] = p
    /\ password' = [password EXCEPT ![u] = new]
    /\ UNCHANGED <<status, role, linked, sessionVars, linkVars>>

ChangePassword(u, p, new) ==
    /\ Registered(u)
    /\ password[u] = p
    /\ password' = [password EXCEPT ![u] = new]
    /\ EndSessions(SessionsOf(u))
    /\ UNCHANGED <<status, role, linked, issued, linkVars>>

\* Mutant: superadmins that are suspended count as well.
SomeoneElseRules_Counts(u) == Cardinality({a \in Users : role[a] = "SUPERADMIN"}) > 1

SomeoneElseRules(u) == Cardinality(Superadmins) > 1

\* The administrator's request gives a status, a role, or both.
UpdateUserStatus(u, newStatus, newRole) ==
    /\ Registered(u)
    /\ role[u] = "SUPERADMIN" /\ newRole \notin {None, "SUPERADMIN"} => SomeoneElseRules(u)
    /\ role[u] = "SUPERADMIN" /\ newStatus = "SUSPENDED" => SomeoneElseRules(u)
    /\ status' = IF newStatus = None THEN status ELSE [status EXCEPT ![u] = newStatus]
    /\ role' = IF newRole = None THEN role ELSE [role EXCEPT ![u] = newRole]
    /\ EndSessions(IF status'[u] = "SUSPENDED" THEN SessionsOf(u) ELSE {})
    /\ UNCHANGED <<password, linked, issued, linkVars>>

-----------------------------------------------------------------------------
(* Refresh and logout *)

\* A token that was rotated out comes back: the request is refused and the family ends.
Replay(t) ==
    /\ \E s \in Sessions : Known(s) /\ t \in session[s].previous
    /\ EndSessions({s \in Sessions : t \in session[s].previous})
    /\ UNCHANGED <<accountVars, issued, linkVars>>

Previous(s) == session[s].previous \cup {session[s].token}

\* Mutant: a session is looked up by its token only.
CanRotate_AnySession(s) == Known(s)

CanRotate(s) == Live(s)

Refresh(t, n) ==
    \E s \in Sessions :
        /\ CanRotate(s)
        /\ session[s].token = t
        /\ Active(session[s].user)
        /\ n \notin issued
        /\ issued' = issued \cup {n}
        /\ session' = [session EXCEPT ![s] = [state |-> "live", user |-> session[s].user,
                          token |-> n, previous |-> Previous(s), proof |-> session[s].proof]]
        /\ UNCHANGED <<accountVars, linkVars>>

Logout(t) ==
    /\ EndSessions({s \in Sessions : session[s].token = t})
    /\ UNCHANGED <<accountVars, issued, linkVars>>

LogoutAll(u) ==
    /\ EndSessions(SessionsOf(u))
    /\ UNCHANGED <<accountVars, issued, linkVars>>

-----------------------------------------------------------------------------
(* Google *)

StartGoogle(o) ==
    /\ link[o].state = "unused"
    /\ link' = [link EXCEPT ![o] = [state |-> "open", user |-> None, purpose |-> "oauth_state"]]
    /\ UNCHANGED <<accountVars, sessionVars, attempts>>

\* The provider vouches for the address u.  It opens the account it is linked with, or a
\* new one, and never an account that was registered with a password.  A failed exchange
\* throws, and leaves the state token open.
FinishGoogle(o, u, s, t) ==
    /\ ConsumeLink(o, "oauth_state")
    /\ \/ /\ u \in linked
          /\ Active(u)
          /\ UNCHANGED accountVars
       \/ /\ ~Registered(u)
          /\ status' = [status EXCEPT ![u] = "ACTIVE"]
          /\ role' = [role EXCEPT ![u] = "USER"]
          /\ password' = [password EXCEPT ![u] = None]
          /\ linked' = linked \cup {u}
    /\ session[s].state = "unused"
    /\ t \notin issued
    /\ issued' = issued \cup {t}
    /\ session' = [session EXCEPT ![s] = [state |-> "live", user |-> u, token |-> t,
                                          previous |-> {}, proof |-> password'[u]]]
    /\ UNCHANGED attempts

-----------------------------------------------------------------------------
(* Time and the scheduler *)

SessionExpires(s) ==
    /\ Live(s)
    /\ EndSessions({s})
    /\ UNCHANGED <<accountVars, issued, linkVars>>

LinkExpires(o) ==
    /\ Open(o)
    /\ link' = [link EXCEPT ![o].state = "spent"]
    /\ UNCHANGED <<accountVars, sessionVars, attempts>>

WindowPasses(u, purpose) ==
    /\ attempts' = [attempts EXCEPT ![<<purpose, u>>] = 0]
    /\ UNCHANGED <<accountVars, sessionVars, link>>

\* Rows of sessions that ended and of tokens that are spent are removed.
Cleanup ==
    /\ session' = [s \in Sessions |-> IF session[s].state = "ended"
                                        THEN [UnusedSession EXCEPT !.state = "removed"]
                                        ELSE session[s]]
    /\ link' = [o \in Links |-> IF link[o].state = "spent"
                                  THEN [UnusedLink EXCEPT !.state = "removed"]
                                  ELSE link[o]]
    /\ UNCHANGED <<accountVars, issued, attempts>>

-----------------------------------------------------------------------------
IdentityInit ==
    /\ status = [u \in Users |-> "none"]
    /\ role = [u \in Users |-> "USER"]
    /\ password = [u \in Users |-> None]
    /\ linked = {}
    /\ session = [s \in Sessions |-> UnusedSession]
    /\ issued = {}
    /\ link = [o \in Links |-> UnusedLink]
    /\ attempts = [k \in Purposes \X Users |-> 0]

AccountNext ==
    \E u \in Users :
        \/ \E p \in Passwords, o \in Links : Register(u, p, o)
        \/ \E p, q \in Passwords : ChangePassword(u, p, q)
        \/ \E p \in Passwords, s \in Sessions, t \in Tokens : Login(u, p, s, t)
        \/ \E purpose \in Purposes, o \in Links : RequestOneTimeToken(u, purpose, o)
        \/ \E purpose \in Purposes : WindowPasses(u, purpose)
        \/ \E a \in {None, "ACTIVE", "SUSPENDED"}, r \in {None, "USER", "ADMIN", "SUPERADMIN"} :
              UpdateUserStatus(u, a, r)
        \/ LogoutAll(u)
        \/ \E o \in Links, s \in Sessions, t \in Tokens : FinishGoogle(o, u, s, t)

TokenNext ==
    \/ \E o \in Links :
          \/ ConfirmEmail(o) \/ StartGoogle(o) \/ LinkExpires(o)
          \/ \E p \in Passwords : ResetPassword(o, p)
    \/ \E t \in Tokens : Replay(t) \/ Logout(t) \/ \E n \in Tokens : Refresh(t, n)
    \/ \E s \in Sessions : SessionExpires(s)
    \/ Cleanup

IdentityNext == AccountNext \/ TokenNext

IdentitySpec == IdentityInit /\ [][IdentityNext]_identityVars

-----------------------------------------------------------------------------
(* Properties *)

SessionType == [state : {"unused", "live", "ended", "removed"}, user : Users \cup {None},
                token : Tokens \cup {None}, previous : SUBSET Tokens,
                proof : Passwords \cup {None}]

LinkType == [state : {"unused", "open", "spent", "removed"}, user : Users \cup {None},
             purpose : Purposes \cup {"oauth_state", "none"}]

\* Every field has its type.
IdentityTypeOK ==
    /\ status \in [Users -> {"none", "ACTIVE", "SUSPENDED"}]
    /\ role \in [Users -> {"USER", "ADMIN", "SUPERADMIN"}]
    /\ password \in [Users -> Passwords \cup {None}]
    /\ linked \subseteq Users
    /\ session \in [Sessions -> SessionType]
    /\ issued \subseteq Tokens
    /\ link \in [Links -> LinkType]
    /\ attempts \in [Purposes \X Users -> 0..RateLimit]

\* A session that opens requests belongs to an account that is active and still has the
\* password it was opened under: after any order of suspensions, reactivations, password
\* changes, resets and refreshes, nobody stays in on what is no longer true.
SessionsFollowAccount ==
    \A s \in Sessions : Live(s) => /\ Active(session[s].user)
                                   /\ session[s].proof = password[session[s].user]

\* An account has one open token for a purpose at most: asking again takes back the first.
OneOpenLink ==
    \A o, q \in Links :
        Open(o) /\ Open(q) /\ link[o].purpose \in Purposes /\ link[o].purpose = link[q].purpose
            /\ link[o].user = link[q].user => o = q

\* Once somebody administers the platform, somebody always does: no order of demotions
\* and suspensions, of oneself or each other, takes the last active superadmin away.
KeepsSuperadmin == [][Superadmins # {} => Superadmins' # {}]_identityVars

Families ==
    INSTANCE FamilyContract
        WITH Families <- Sessions,
             opened <- {s \in Sessions : session[s].state # "unused"},
             valid <- [s \in Sessions |-> IF Live(s) THEN {session[s].token} ELSE {}]

\* Refreshes, replays, cleanups and whatever else ends sessions keep the contract of
\* rotating sessions: one valid token in a family, never one that was handed out before,
\* and an ended family stays ended.
SessionFamilies == Families!Spec
=============================================================================
