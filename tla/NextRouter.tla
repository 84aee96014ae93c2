----------------------------- MODULE NextRouter -----------------------------
(***************************************************************************)
(* The Next.js backend as its clients see it.  The router opens a          *)
(* transaction of the store, finds out whose session the request shows,    *)
(* checks what the contract asks of the operation, and calls the service.  *)
(* Requests, scheduler runs and the passing of time interleave.            *)
(*                                                                         *)
(* Payments, whose requests are more than one step, have a specification   *)
(* of their own (NextPayments).                                            *)
(***************************************************************************)
EXTENDS NextIdentity, NextOrganizations, NextWithdrawals, NextRoutes

VARIABLE
    area               \* bound: the part of the API the clients of a behaviour use

Areas == {"sessions", "links", "organizations", "credits", "plans", "wallet"}

serviceVars == <<identityVars, organizationVars, billingVars, withdrawalVars>>
routerVars  == <<serviceVars, area>>

Only(vars) == UNCHANGED <<area, vars>>

SignedIn(u) == \E s \in Sessions : Live(s) /\ session[s].user = u

\* Bound: where sessions are not the subject, everybody first signs in, once.
Uses(a) ==
    /\ area = a
    /\ a \notin {"sessions", "links"} => \A u \in Users : SignedIn(u)

-----------------------------------------------------------------------------
(* What a request shows: a session token t, and a CSRF token c twice *)

\* authenticate.
Authenticates(t, u) ==
    \E s \in Sessions : /\ Live(s)
                        /\ session[s].token = t
                        /\ session[s].user = u
                        /\ Active(u)

\* assertCsrf.
CsrfMatches(t, c) == \E s \in Sessions : Live(s) /\ session[s].token = t /\ session[s].token = c

\* assertRefreshCsrf: any pair of tokens the session ever had.
RefreshCsrfMatches(t, c) == \E s \in Sessions : Known(s) /\ {t, c} \subseteq Previous(s)

\* The user a request of a route acts as, and the session token it shows.
ActsAs(route, u, t) ==
    \E c \in Tokens :
        /\ Authenticates(t, u)
        /\ route.auth = "admin" => role[u] = "SUPERADMIN"
        /\ route.csrf => CsrfMatches(t, c)

Admitted(route, u) == route.auth = "public" \/ \E t \in Tokens : ActsAs(route, u, t)

\* Bound: one grant that does not expire is enough to withdraw from.
FirstGrant(d) == area = "wallet" => lots = <<>> /\ d = Never

-----------------------------------------------------------------------------
AccountRequest ==
    /\ \E u \in Users, p \in Passwords :
          \/ /\ Admitted(IdentityRoutes.register, u)
             /\ \E o \in Links : Register(u, p, o)
          \/ /\ Admitted(IdentityRoutes.login, u)
             /\ area \in {"sessions", "links"} \/ ~SignedIn(u)
             /\ \E s \in Sessions, t \in Tokens : Login(u, p, s, t)
    /\ Only(<<organizationVars, billingVars, withdrawalVars>>)

SessionRequest ==
    /\ Uses("sessions")
    /\ \E t \in Tokens :
          \/ \E u \in Users :
                \/ /\ ActsAs(IdentityRoutes.change, u, t)
                   /\ \E p, q \in Passwords : ChangePassword(u, p, q)
                \/ ActsAs(IdentityRoutes.logout, u, t) /\ Logout(t)
                \/ ActsAs(IdentityRoutes.logoutAll, u, t) /\ LogoutAll(u)
          \/ /\ \E c \in Tokens : RefreshCsrfMatches(t, c)
             /\ Replay(t) \/ \E n \in Tokens : Refresh(t, n)
    /\ Only(<<organizationVars, billingVars, withdrawalVars>>)

LinkRequest ==
    /\ Uses("links")
    /\ \E o \in Links :
          \/ \E u \in Users :
                \/ /\ Admitted(IdentityRoutes.verificationRequest, u)
                   /\ RequestOneTimeToken(u, "email_verification", o)
                \/ /\ Admitted(IdentityRoutes.forgot, u)
                   /\ RequestOneTimeToken(u, "password_reset", o)
                \/ /\ Admitted(IdentityRoutes.googleStart, u)
                   /\ StartGoogle(o)
                \/ /\ Admitted(IdentityRoutes.googleCallback, u)
                   /\ \E s \in Sessions, t \in Tokens : FinishGoogle(o, u, s, t)
          \/ ConfirmEmail(o)
          \/ \E p \in Passwords : ResetPassword(o, p)
    /\ Only(<<organizationVars, billingVars, withdrawalVars>>)

\* The invitation's token goes to the address in an e-mail; the path names its organisation.
OrganizationRequest ==
    /\ Uses("organizations")
    /\ \E u \in Users, o \in Orgs :
          \/ \E n \in OrgNames :
                \/ Admitted(OrganizationRoutes.create, u) /\ Create(u, o, n)
                \/ Admitted(OrganizationRoutes.update, u) /\ Update(u, o, n)
          \/ \E w \in Users, r \in {"ADMIN", "MEMBER"} :
                \/ /\ Admitted(OrganizationRoutes.invite, u)
                   /\ \E i \in Invitations : Invite(u, o, w, r, i)
                \/ Admitted(OrganizationRoutes.changeMember, u) /\ ChangeMember(u, o, w, r)
          \/ \E i \in Invitations :
                \/ Admitted(OrganizationRoutes.accept, u) /\ RespondInvitation(u, i, TRUE)
                \/ Admitted(OrganizationRoutes.refuse, u) /\ RespondInvitation(u, i, FALSE)
          \/ \E w \in Users : Admitted(OrganizationRoutes.removeMember, u) /\ RemoveMember(u, o, w)
          \/ Admitted(OrganizationRoutes.leave, u) /\ Leave(u, o)
    /\ Only(<<identityVars, billingVars, withdrawalVars>>)

BillingRequest ==
    /\ Uses("plans")
    /\ \E u \in Users, p \in Prices, k \in Keys :
          \/ Admitted(BillingRoutes.purchase, u) /\ PurchaseCredits(u, p, k)
          \/ \E s \in Subscriptions :
                \/ Admitted(BillingRoutes.subscribe, u) /\ CreateSubscription(u, p, s, k)
                \/ Admitted(BillingRoutes.cancel, u) /\ CancelSubscription(u, s)
    /\ Only(<<identityVars, organizationVars, withdrawalVars>>)

WithdrawalRequest ==
    /\ Uses("wallet")
    /\ \/ \E u \in Users, a \in Accounts :
             \/ /\ Admitted(WithdrawalRoutes.account, u)
                /\ \E v \in Providers : AddAccount(u, a, v)
             \/ /\ Admitted(WithdrawalRoutes.request, u)
                /\ \E n \in Amounts, w \in Withdrawals, k \in Keys : RequestWithdrawal(u, a, n, w, k)
       \/ \E u \in Users, w \in Withdrawals :
             Admitted(WithdrawalRoutes.cancel, u) /\ CancelWithdrawal(u, w)
       \/ \E v \in Providers, e \in Events, w \in Withdrawals, outcome \in {"COMPLETED", "FAILED"} :
             Callback(v, e, w, outcome)
    /\ Only(<<identityVars, organizationVars>>)

AdminRequest ==
    \E admin \in Users :
        \/ /\ Uses("sessions")
           /\ Admitted(AdminRoutes.user, admin)
           /\ \E u \in Users, a \in {None, "ACTIVE", "SUSPENDED"},
                 r \in {None, "USER", "ADMIN", "SUPERADMIN"} : UpdateUserStatus(u, a, r)
           /\ Only(<<organizationVars, billingVars, withdrawalVars>>)
        \/ /\ Uses("organizations")
           /\ Admitted(AdminRoutes.organization, admin)
           /\ \E o \in Orgs, s \in {"ACTIVE", "SUSPENDED"} : UpdateOrganizationStatus(o, s)
           /\ Only(<<identityVars, billingVars, withdrawalVars>>)
        \/ /\ Uses("plans")
           /\ \E p \in Prices :
                 \/ Admitted(AdminRoutes.price, admin) /\ \E a \in Amounts : CreatePrice(p, a)
                 \/ Admitted(AdminRoutes.archive, admin) /\ ArchivePrice(p)
           /\ Only(<<identityVars, organizationVars, withdrawalVars>>)
        \/ /\ Uses("credits") \/ Uses("wallet")
           /\ Admitted(AdminRoutes.grant, admin)
           /\ \E u \in Users, a \in Amounts, d \in 0..Never, k \in Keys :
                 FirstGrant(d) /\ Grant(admin, u, a, d, k)
           /\ Only(<<identityVars, organizationVars, withdrawalVars>>)
        \/ /\ Uses("wallet")
           /\ \E w \in Withdrawals :
                 \/ Admitted(AdminRoutes.verify, admin) /\ Verify(w)
                 \/ Admitted(AdminRoutes.approve, admin) /\ Approve(w)
           /\ Only(<<identityVars, organizationVars>>)

-----------------------------------------------------------------------------
(* Behind the API *)

\* The transaction of the scheduler: cleanup and payouts.  The outbox is NextOutbox's.
RunScheduler ==
    /\ Uses("sessions") \/ Uses("links") \/ Uses("wallet")
    /\ Cleanup
    /\ ProcessBatch
    /\ Only(organizationVars)

\* A generated application spends credits.
Spend ==
    /\ Uses("credits")
    /\ \E u \in Users, a \in Amounts, k \in Keys : Consume(u, a, k)
    /\ Only(<<identityVars, organizationVars, withdrawalVars>>)

TimePasses ==
    \/ /\ Uses("sessions")
       /\ \E s \in Sessions : SessionExpires(s)
       /\ Only(<<organizationVars, billingVars, withdrawalVars>>)
    \/ /\ Uses("links")
       /\ \/ \E o \in Links : LinkExpires(o)
          \/ \E u \in Users, purpose \in Purposes : WindowPasses(u, purpose)
       /\ Only(<<organizationVars, billingVars, withdrawalVars>>)
    \/ /\ Uses("organizations")
       /\ \E i \in Invitations : InvitationExpires(i)
       /\ Only(<<identityVars, billingVars, withdrawalVars>>)
    \/ /\ Uses("credits")
       /\ NextDay
       /\ Only(<<identityVars, organizationVars, withdrawalVars>>)

RouterInit ==
    /\ IdentityInit /\ OrganizationInit /\ BillingInit /\ WithdrawalInit
    /\ area \in Areas

RouterNext ==
    \/ AccountRequest \/ SessionRequest \/ LinkRequest \/ OrganizationRequest
    \/ BillingRequest \/ WithdrawalRequest \/ AdminRequest
    \/ RunScheduler \/ Spend \/ TimePasses

RouterSpec == RouterInit /\ [][RouterNext]_routerVars
=============================================================================
