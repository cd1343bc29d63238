------------------------------- MODULE SignIn -------------------------------
(***************************************************************************)
(* Getting into the system on the address every church shares: one-time    *)
(* links, passkey ceremonies, the signed cookie that names a church and    *)
(* the session that names a person (src/apps/accounts/views.py, links.py,  *)
(* models.py, webauthn_service.py, src/apps/tenants/routing.py and the     *)
(* routing half of src/apps/core/middleware.py).                           *)
(*                                                                         *)
(* Time is counted down: a link or a challenge carries the ticks it has    *)
(* left. The credential a device makes is a fresh identifier, and a        *)
(* response is a credential and the challenge it answers; what else a      *)
(* signature proves belongs to the webauthn library.                       *)
(***************************************************************************)
EXTENDS Naturals, Sequences

CONSTANTS
  Users,            \* accounts, in every schema, those not created yet included
  Churches, Public, \* the schemas
  SchemaOf, Pk,     \* where each account lives, and its primary key there
  Email,            \* its address: one person may have an account at several churches
  Password,         \* the unusable marker in its password column
  Founder,          \* the administrator each church is provisioned with
  Credentials,      \* passkeys devices may make
  Browsers,
  Links,            \* bound: the sign-in links ever issued
  MaxChallenges,    \* bound: the challenges ever issued
  InviteTicks, RecoveryTicks, ChallengeTicks,
  Nobody, NoCookie, Gone

Schemas == Churches \cup {Public}

ASSUME SignInAssumption ==
  /\ Public \notin Churches
  /\ SchemaOf \in [Users -> Schemas]
  /\ \A u, w \in Users : SchemaOf[u] = SchemaOf[w] /\ Pk[u] = Pk[w] => u = w
  /\ \A u, w \in Users : Password[u] = Password[w] => u = w
  /\ Founder \in [Churches -> Users]
  /\ \A c \in Churches : SchemaOf[Founder[c]] = c
  /\ Nobody \notin Users /\ NoCookie \notin Churches
  /\ Gone \notin Browsers
  /\ MaxChallenges \in Nat
  /\ InviteTicks \in Nat \ {0} /\ RecoveryTicks \in 1..InviteTicks
  /\ ChallengeTicks \in Nat \ {0}

VARIABLES
  church,     \* Tenant.is_active of each church, or "none" before provisioning
  account,    \* User.is_active, or "none"
  link,       \* LoginLink rows
  passkey,    \* Passkey rows, by credential
  challenge,  \* WebAuthnChallenge rows in the order they were created; for is the browser's
              \* session (sign-in) or the account (registration)
  cookie,     \* the church cookie each browser presents
  jar,        \* every church cookie it was ever handed
  session,    \* the account in its session, by _auth_user_id and _auth_user_hash
  signedIn    \* ghost: who last signed in at the browser, until signing out

vars == <<church, account, link, passkey, challenge, cookie, jar, session, signedIn>>

NoLink == [user |-> Nobody, purpose |-> "invite", left |-> 0, spent |-> FALSE,
           uses |-> 0]
NoPasskey == [user |-> Nobody, active |-> FALSE]

Ticks == [invite |-> InviteTicks, recovery |-> RecoveryTicks]

\* uses is a ghost: how often the link signed somebody in. So is answers in a challenge.
LinkRow == [user : Users \cup {Nobody}, purpose : DOMAIN Ticks, left : 0..InviteTicks,
            spent : BOOLEAN, uses : Nat]

-----------------------------------------------------------------------------
(* Reading a request: which schema it is bound to, and who is asking.      *)

\* resolve_tenant: public, or a church that is open.
Open(s) == s \in {Public} \cup {c \in Churches : church[c] = "active"}

has_passkey(u) == \E k \in Credentials : passkey[k].user = u /\ passkey[k].active

\* VMSTenantMiddleware
cookie_usable(b) == cookie[b] # NoCookie /\ Open(cookie[b])
dropped(b) == cookie[b] # NoCookie /\ ~cookie_usable(b)
Bound(b) == IF cookie_usable(b) THEN cookie[b] ELSE Public

\* The row with the session's primary key in whichever schema is bound.
Resident(b) ==
  {u \in Users : /\ session[b] # Nobody
                 /\ SchemaOf[u] = Bound(b) /\ Pk[u] = Pk[session[b]]
                 /\ account[u] = "active"}

\* Mutant: the session is taken at its primary key.
Acting_by_pk(b) == Resident(b)
\* django.contrib.auth.get_user; a hash that does not match empties the session.
Acting(b) == {u \in Resident(b) : Password[u] = Password[session[b]]}
kept_session(b) == IF Acting(b) # Resident(b) THEN Nobody ELSE session[b]

\* The cookie the browser holds after a response that itself sets c.
delivered(b, c) == IF dropped(b) THEN NoCookie ELSE c

Respond(b, c, s) ==
  /\ cookie' = [cookie EXCEPT ![b] = delivered(b, c)]
  /\ jar' = [jar EXCEPT ![b] = @ \cup ({delivered(b, c)} \ {NoCookie})]
  /\ session' = [session EXCEPT ![b] = s]

\* A flushed or rotated session key leaves its pending challenges unreachable.
renewed(b, rows) == [i \in DOMAIN rows |-> IF rows[i].for = b THEN [rows[i] EXCEPT !.for = Gone] ELSE rows[i]]
settled(b) == IF kept_session(b) # session[b] THEN renewed(b, challenge) ELSE challenge

\* _apply_tenant_cookie, once the request is bound to the account's schema.
login_cookie(s) == IF s = Public THEN NoCookie ELSE s

\* The challenges once auth_login has seen u in: only the session of that very person
\* keeps its key, any other is flushed or takes a new one.
auth_login(b, u, rows) ==
  IF session[b] # Nobody /\ Pk[session[b]] = Pk[u] /\ Password[session[b]] = Password[u]
  THEN rows ELSE renewed(b, rows)

\* _complete_login, with the cookie and the challenges its caller leaves.
_complete_login(b, u, c, rows) ==
  /\ Respond(b, c, u)
  /\ signedIn' = [signedIn EXCEPT ![b] = u]
  /\ challenge' = rows

-----------------------------------------------------------------------------
(* Links.                                                                  *)

lifetime(purpose) == IF purpose = "recovery" THEN RecoveryTicks ELSE InviteTicks

LiveLink(u, purpose) ==
  [user |-> u, purpose |-> purpose, left |-> lifetime(purpose), spent |-> FALSE,
   uses |-> 0]

Unissued == {l \in Links : link[l].user = Nobody}

issue_link(u, purpose) ==
  \E l \in Unissued : link' = [link EXCEPT ![l] = LiveLink(u, purpose)]

\* _issue_and_show_link
purpose_for(u) == IF has_passkey(u) THEN "recovery" ELSE "invite"

\* Mutant: LoginLink.is_usable without consumed_at.
is_usable_unexpired(l) == link[l].left > 0
is_usable(l) == ~link[l].spent /\ link[l].left > 0

verify_link(l) ==
  LET u == link[l].user IN
  /\ u # Nobody
  /\ Open(SchemaOf[u])
  /\ is_usable(l)
  /\ account[u] = "active"

consumed(l) == [link EXCEPT ![l].spent = TRUE, ![l].uses = @ + 1]

\* Posting the confirmation page: the link is spent and, whoever was signed in, a clean
\* session begins.
link_consume(b, l) ==
  /\ verify_link(l)
  /\ link' = consumed(l)
  /\ _complete_login(b, link[l].user, login_cookie(SchemaOf[link[l].user]), renewed(b, challenge))
  /\ UNCHANGED <<church, account, passkey>>

\* A link that no longer works still ends the session of whoever presented it.
link_refused(b, l) ==
  /\ link[l].user # Nobody /\ ~verify_link(l)
  /\ Acting(b) # {}
  /\ Respond(b, cookie[b], Nobody)
  /\ challenge' = renewed(b, challenge)
  /\ signedIn' = [signedIn EXCEPT ![b] = Nobody]
  /\ UNCHANGED <<church, account, link, passkey>>

\* find_login_targets: active accounts with the address, public first, then open churches.
find_login_targets(e) == {u \in Users : Email[u] = e /\ account[u] = "active" /\ Open(SchemaOf[u])}

\* A link for each target; one church failing does not stop the others.
_send_recovery_links(e) ==
  /\ \E S \in SUBSET Unissued : \E f \in [S -> find_login_targets(e)] :
       /\ S # {}
       /\ \A l, m \in S : f[l] = f[m] => l = m
       /\ link' = [l \in Links |-> IF l \in S THEN LiveLink(f[l], "recovery") ELSE link[l]]
  /\ UNCHANGED <<church, account, passkey, challenge, cookie, jar, session, signedIn>>

\* For a colleague, by somebody who manages access; Access says who does.
admin_reissue_link(u) ==
  /\ account[u] = "active" /\ SchemaOf[u] # Public
  /\ issue_link(u, purpose_for(u))
  /\ UNCHANGED <<church, account, passkey, challenge, cookie, jar, session, signedIn>>

\* For oneself; ForcePasskeyMiddleware holds an account without a passkey back.
security_new_device_link(b) ==
  /\ \E u \in Acting(b) : has_passkey(u) /\ issue_link(u, purpose_for(u))
  /\ UNCHANGED <<church, account, passkey, challenge, cookie, jar, session, signedIn>>

-----------------------------------------------------------------------------
(* Passkeys.                                                               *)

Latest(who, s) ==
  LET rows == {i \in DOMAIN challenge : challenge[i].for = who /\ challenge[i].schema = s
                                        /\ ~challenge[i].spent}
  IN {i \in rows : \A j \in rows : j <= i /\ challenge[i].left > 0}

Challenge(who, s) ==
  [schema |-> s, for |-> who, left |-> ChallengeTicks, spent |-> FALSE, answers |-> 0]

begin_authentication(b) ==
  /\ Len(challenge) < MaxChallenges
  /\ challenge' = Append(settled(b), Challenge(b, Bound(b)))
  /\ Respond(b, cookie[b], kept_session(b))
  /\ UNCHANGED <<church, account, link, passkey, signedIn>>

\* Found here, or from the public schema at any open church.
found(b, k) ==
  /\ passkey[k].active
  /\ SchemaOf[passkey[k].user] = Bound(b) \/ (Bound(b) = Public /\ Open(SchemaOf[passkey[k].user]))

\* Mutant: consumed in whichever schema the request has moved to.
consume_where_bound(i, s) == [challenge EXCEPT ![i].spent = challenge[i].schema = s]
consume(i, s) == [challenge EXCEPT ![i].spent = TRUE]

\* Mutant: the church found from the credential is not remembered.
target_cookie_forgotten(b, s) == cookie[b]
\* vms_login_target is set when the ceremony moved to another schema.
target_cookie(b, s) == IF s # Bound(b) THEN s ELSE cookie[b]

\* The challenge is used up in the schema it was written in, which the request may have left.
answered(b, k, i) ==
  [consume(i, IF found(b, k) THEN SchemaOf[passkey[k].user] ELSE Bound(b)) EXCEPT ![i].answers = @ + 1]

\* Credential k answers challenge i at browser b.
finish_authentication(b, k, i) ==
  LET u == passkey[k].user IN
  /\ i \in Latest(b, Bound(b)) /\ kept_session(b) = session[b]
  /\ found(b, k) /\ account[u] = "active"
  /\ _complete_login(b, u, target_cookie(b, SchemaOf[u]), auth_login(b, u, answered(b, k, i)))
  /\ UNCHANGED <<church, account, link, passkey>>

\* A signature that does not verify, an unknown credential or a deactivated account.
authentication_refused(b, k, i) ==
  /\ i \in Latest(b, Bound(b)) /\ kept_session(b) = session[b]
  /\ challenge' = answered(b, k, i)
  /\ Respond(b, cookie[b], session[b])
  /\ UNCHANGED <<church, account, link, passkey, signedIn>>

begin_registration(b) ==
  /\ Len(challenge) < MaxChallenges
  /\ \E u \in Acting(b) : challenge' = Append(challenge, Challenge(u, SchemaOf[u]))
  /\ UNCHANGED <<church, account, link, passkey, cookie, jar, session, signedIn>>

finish_registration(b, k, i) ==
  /\ \E u \in Acting(b) :
       /\ i \in Latest(u, SchemaOf[u])
       /\ challenge' = [challenge EXCEPT ![i].spent = TRUE]
       /\ passkey' = IF passkey[k] = NoPasskey
                     THEN [passkey EXCEPT ![k] = [user |-> u, active |-> TRUE]] ELSE passkey
  /\ UNCHANGED <<church, account, link, cookie, jar, session, signedIn>>

passkey_remove(b, k) ==
  /\ passkey[k].active /\ passkey[k].user \in Acting(b)
  /\ passkey' = [passkey EXCEPT ![k].active = FALSE]
  /\ UNCHANGED <<church, account, link, challenge, cookie, jar, session, signedIn>>

-----------------------------------------------------------------------------
(* Everything else that moves a browser or an account.                     *)

logout_view(b) ==
  /\ Respond(b, NoCookie, Nobody)
  /\ challenge' = renewed(b, challenge)
  /\ signedIn' = [signedIn EXCEPT ![b] = Nobody]
  /\ UNCHANGED <<church, account, link, passkey>>

\* The browser presents a church cookie it was handed before, or none.
swap_cookie(b, c) ==
  /\ c \in jar[b] \cup {NoCookie}
  /\ cookie' = [cookie EXCEPT ![b] = c]
  /\ UNCHANGED <<church, account, link, passkey, challenge, jar, session, signedIn>>

\* Any page: an unusable cookie is dropped, a session that does not match is emptied.
visit(b) ==
  /\ dropped(b) \/ kept_session(b) # session[b]
  /\ Respond(b, cookie[b], kept_session(b))
  /\ challenge' = settled(b)
  /\ UNCHANGED <<church, account, link, passkey, signedIn>>

provision_church(c) ==
  /\ church[c] = "none"
  /\ church' = [church EXCEPT ![c] = "active"]
  /\ account' = [account EXCEPT ![Founder[c]] = "active"]
  /\ issue_link(Founder[c], "invite")
  /\ UNCHANGED <<passkey, challenge, cookie, jar, session, signedIn>>

\* The "active" box of the church's settings form.
church_settings(c) ==
  /\ church[c] # "none"
  /\ church' = [church EXCEPT ![c] = IF @ = "active" THEN "suspended" ELSE "active"]
  /\ UNCHANGED <<account, link, passkey, challenge, cookie, jar, session, signedIn>>

admin_invite(u) ==
  /\ account[u] = "none" /\ SchemaOf[u] # Public
  /\ u # Founder[SchemaOf[u]] /\ Open(SchemaOf[u])
  /\ account' = [account EXCEPT ![u] = "active"]
  /\ issue_link(u, "invite")
  /\ UNCHANGED <<church, passkey, challenge, cookie, jar, session, signedIn>>

admin_toggle_active(u) ==
  /\ account[u] # "none" /\ SchemaOf[u] # Public
  /\ account' = [account EXCEPT ![u] = IF @ = "active" THEN "inactive" ELSE "active"]
  /\ UNCHANGED <<church, link, passkey, challenge, cookie, jar, session, signedIn>>

Tick ==
  /\ link' = [l \in Links |-> [link[l] EXCEPT !.left = IF @ = 0 THEN 0 ELSE @ - 1]]
  /\ challenge' = [i \in DOMAIN challenge |-> [challenge[i] EXCEPT !.left = IF @ = 0 THEN 0 ELSE @ - 1]]
  /\ UNCHANGED <<church, account, passkey, cookie, jar, session, signedIn>>

\* The operator's account exists before any church does.
Init ==
  /\ church = [c \in Churches |-> "none"]
  /\ account = [u \in Users |-> IF SchemaOf[u] = Public THEN "active" ELSE "none"]
  /\ link = [l \in Links |-> NoLink]
  /\ passkey = [k \in Credentials |-> NoPasskey]
  /\ challenge = <<>>
  /\ cookie = [b \in Browsers |-> NoCookie]
  /\ jar = [b \in Browsers |-> {}]
  /\ session = [b \in Browsers |-> Nobody]
  /\ signedIn = [b \in Browsers |-> Nobody]

Next ==
  \/ \E b \in Browsers :
       \/ \E l \in Links : link_consume(b, l) \/ link_refused(b, l)
       \/ security_new_device_link(b)
       \/ begin_authentication(b)
       \/ \E k \in Credentials, i \in DOMAIN challenge :
            finish_authentication(b, k, i) \/ authentication_refused(b, k, i)
       \/ begin_registration(b)
       \/ \E k \in Credentials, i \in DOMAIN challenge : finish_registration(b, k, i)
       \/ \E k \in Credentials : passkey_remove(b, k)
       \/ logout_view(b)
       \/ \E c \in Churches \cup {NoCookie} : swap_cookie(b, c)
       \/ visit(b)
  \/ \E e \in {Email[u] : u \in Users} : _send_recovery_links(e)
  \/ \E u \in Users : admin_reissue_link(u) \/ admin_invite(u) \/ admin_toggle_active(u)
  \/ \E c \in Churches : provision_church(c) \/ church_settings(c)
  \/ Tick

Spec == Init /\ [][Next]_vars

-----------------------------------------------------------------------------
(* Properties.                                                             *)

(* Whoever a request acts as is the person who last signed in at that      *)
(* browser, whichever church cookies it presents and in whatever order     *)
(* churches and accounts come and go: the cookie selects a schema and      *)
(* grants nothing (tenants/routing.py:18).                                 *)
NobodyActsAsAnother == \A b \in Browsers : Acting(b) \subseteq {signedIn[b]}

(* A sign-in challenge takes one answer, good or bad, although it is       *)
(* written in the public schema and used up by a request that has moved to *)
(* a church's (webauthn_service.py:230).                                   *)
ChallengeAnsweredOnce == \A i \in DOMAIN challenge : challenge[i].answers <= 1

(* Signing in lands: the next request acts as the person who signed in,    *)
(* unless the sign-in arrived with a cookie for a church that has closed.  *)
SignInLands ==
  [][\A b \in Browsers : signedIn'[b] # signedIn[b] /\ signedIn'[b] # Nobody /\ ~dropped(b)
       => Acting(b)' = {signedIn'[b]}]_vars

(* Links as the abstract specification has them.                           *)
LinkState == [l \in Links |->
  IF link[l].user = Nobody THEN "unissued" ELSE IF link[l].spent THEN "spent"
  ELSE IF link[l].left = 0 THEN "lapsed" ELSE "live"]

LinkHolder == [l \in Links |-> link[l].user]
LinkUses == [l \in Links |-> link[l].uses]

Once == INSTANCE OneTimeLink WITH
  People <- Users, state <- LinkState, holder <- LinkHolder, uses <- LinkUses

(* Every link signs its own holder in at most once, while it lives, and    *)
(* never comes back, across suspended churches, deactivated accounts and   *)
(* several links to one person (accounts/models.py:290).                   *)
LinksSignInOnce == Once!Spec
=============================================================================
