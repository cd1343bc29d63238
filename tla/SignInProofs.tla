---------------------------- MODULE SignInProofs ----------------------------
(* For any churches, accounts, browsers and bounds: a request never acts   *)
(* as anybody but whoever last signed in at its browser, and sign-in links *)
(* implement OneTimeLink.                                                  *)
EXTENDS SignIn, TLAPS

(* The part of the type the arguments below need, and why the cookie       *)
(* grants nothing: what a session names, its owner put there.              *)
SessionInv ==
  /\ session \in [Browsers -> Users \cup {Nobody}]
  /\ signedIn \in [Browsers -> Users \cup {Nobody}]
  /\ passkey \in [Credentials -> [user : Users \cup {Nobody}, active : BOOLEAN]]
  /\ \A k \in Credentials : passkey[k].active => passkey[k].user \in Users
  /\ link \in [Links -> LinkRow]
  /\ \A b \in Browsers : session[b] \in {signedIn[b], Nobody}

(* Distinct password markers make the session hash name one account.       *)
LEMMA ActingIsSession ==
  ASSUME SessionInv, NEW b \in Browsers
  PROVE  Acting(b) \subseteq {session[b]} /\ Acting(b) \subseteq Users
<1>1. session[b] \in Users \cup {Nobody}
  BY DEF SessionInv
<1>2. SUFFICES ASSUME NEW u \in Acting(b) PROVE u = session[b] /\ u \in Users
  OBVIOUS
<1>3. u \in Users /\ session[b] # Nobody /\ Password[u] = Password[session[b]]
  BY DEF Acting, Resident
<1>4. QED
  BY <1>1, <1>3, SignInAssumption DEF SignInAssumption

LEMMA TicksAreLifetimes ==
  \A purpose \in DOMAIN Ticks : lifetime(purpose) \in 1..InviteTicks
<1>1. InviteTicks \in Nat \ {0} /\ RecoveryTicks \in 1..InviteTicks
  BY SignInAssumption DEF SignInAssumption
<1>2. QED
  BY <1>1 DEF lifetime

LEMMA LiveLinkIsRow ==
  ASSUME NEW u \in Users, NEW purpose \in {"invite", "recovery"}
  PROVE  LiveLink(u, purpose) \in LinkRow
<1>1. DOMAIN Ticks = {"invite", "recovery"}
  BY DEF Ticks
<1>2. lifetime(purpose) \in 0..InviteTicks
  BY <1>1, TicksAreLifetimes, SignInAssumption DEF SignInAssumption
<1>3. QED
  BY <1>1, <1>2 DEF LiveLink, LinkRow

LEMMA IssueKeepsRows ==
  ASSUME link \in [Links -> LinkRow], NEW u \in Users,
         NEW purpose \in {"invite", "recovery"}, issue_link(u, purpose)
  PROVE  link' \in [Links -> LinkRow]
<1>1. PICK l \in Unissued : link' = [link EXCEPT ![l] = LiveLink(u, purpose)]
  BY DEF issue_link
<1>2. QED
  BY <1>1, LiveLinkIsRow

LEMMA ConsumedIsRow ==
  ASSUME NEW r \in LinkRow
  PROVE  [r EXCEPT !.spent = TRUE, !.uses = @ + 1] \in LinkRow
<1>1. r.uses + 1 \in Nat
  BY DEF LinkRow
<1>2. ASSUME NEW x \in LinkRow, NEW n \in Nat
      PROVE  [x EXCEPT !.spent = TRUE] \in LinkRow /\ [x EXCEPT !.uses = n] \in LinkRow
  BY <1>2 DEF LinkRow
<1>3. [[r EXCEPT !.spent = TRUE] EXCEPT !.uses = r.uses + 1] \in LinkRow
  BY <1>1, <1>2
<1>4. [r EXCEPT !.spent = TRUE, !.uses = @ + 1] = [[r EXCEPT !.spent = TRUE] EXCEPT !.uses = r.uses + 1]
  BY DEF LinkRow
<1>5. QED
  BY <1>3, <1>4

(* A session that changes empties or takes the account that signed in.     *)
LEMMA RespondKeepsSession ==
  ASSUME SessionInv, NEW b \in Browsers, NEW c, NEW s \in Users \cup {Nobody}, Respond(b, c, s),
         signedIn' \in [Browsers -> Users \cup {Nobody}],
         \A x \in Browsers \ {b} : signedIn'[x] = signedIn[x],
         s \in {signedIn'[b], Nobody}
  PROVE  /\ session' \in [Browsers -> Users \cup {Nobody}]
         /\ \A x \in Browsers : session'[x] \in {signedIn'[x], Nobody}
<1>1. session' = [session EXCEPT ![b] = s]
  BY DEF Respond
<1>2. QED
  BY <1>1 DEF SessionInv

LEMMA SessionInit == Init => SessionInv
<1>1. DOMAIN Ticks = {"invite", "recovery"}
  BY DEF Ticks
<1>2. NoLink \in LinkRow
  BY <1>1, SignInAssumption DEF NoLink, LinkRow, SignInAssumption
<1>3. QED
  BY <1>2 DEF Init, SessionInv, NoPasskey

LEMMA SessionNext == SessionInv /\ [Next]_vars => SessionInv'
<1> SUFFICES ASSUME SessionInv, [Next]_vars PROVE SessionInv'
  OBVIOUS
<1> USE DEF SessionInv
<1>1. ASSUME NEW b \in Browsers, NEW l \in Links, link_consume(b, l) PROVE SessionInv'
  <2>1. link[l] \in LinkRow /\ link[l].user # Nobody
    BY <1>1 DEF link_consume, verify_link
  <2>2. link[l].user \in Users
    BY <2>1 DEF LinkRow
  <2>3. [link[l] EXCEPT !.spent = TRUE, !.uses = @ + 1] \in LinkRow
    BY <2>1, ConsumedIsRow
  <2>4. link' = [link EXCEPT ![l] = [link[l] EXCEPT !.spent = TRUE, !.uses = @ + 1]]
    BY <1>1 DEF link_consume, consumed
  <2>5. link' \in [Links -> LinkRow]
    BY <2>3, <2>4
  <2>6. signedIn' = [signedIn EXCEPT ![b] = link[l].user] /\ passkey' = passkey
    BY <1>1 DEF link_consume, _complete_login
  <2>7. Respond(b, login_cookie(SchemaOf[link[l].user]), link[l].user)
    BY <1>1 DEF link_consume, _complete_login
  <2>8. QED
    BY <2>2, <2>5, <2>6, <2>7, RespondKeepsSession
<1>2. ASSUME NEW b \in Browsers, NEW l \in Links, link_refused(b, l) PROVE SessionInv'
  <2>1. Respond(b, cookie[b], Nobody) /\ signedIn' = [signedIn EXCEPT ![b] = Nobody]
        /\ UNCHANGED <<link, passkey>>
    BY <1>2 DEF link_refused
  <2>2. QED
    BY <2>1, RespondKeepsSession
<1>3. ASSUME NEW b \in Browsers, security_new_device_link(b) PROVE SessionInv'
  <2>1. PICK u \in Acting(b) : issue_link(u, purpose_for(u))
    BY <1>3 DEF security_new_device_link
  <2>2. u \in Users /\ purpose_for(u) \in {"invite", "recovery"}
    BY ActingIsSession DEF purpose_for
  <2>3. link' \in [Links -> LinkRow]
    BY <2>1, <2>2, IssueKeepsRows
  <2>4. QED
    BY <1>3, <2>3 DEF security_new_device_link
<1>4. ASSUME NEW b \in Browsers, begin_authentication(b) PROVE SessionInv'
  <2>1. Respond(b, cookie[b], kept_session(b)) /\ UNCHANGED <<link, passkey, signedIn>>
    BY <1>4 DEF begin_authentication
  <2>2. kept_session(b) \in {session[b], Nobody}
    BY DEF kept_session
  <2>3. QED
    BY <2>1, <2>2, RespondKeepsSession
<1>5. ASSUME NEW b \in Browsers, NEW k \in Credentials, NEW i \in DOMAIN challenge,
             finish_authentication(b, k, i)
      PROVE  SessionInv'
  <2>1. passkey[k].user \in Users
    BY <1>5 DEF finish_authentication, found
  <2>2. /\ Respond(b, target_cookie(b, SchemaOf[passkey[k].user]), passkey[k].user)
        /\ signedIn' = [signedIn EXCEPT ![b] = passkey[k].user] /\ UNCHANGED <<link, passkey>>
    BY <1>5 DEF finish_authentication, _complete_login
  <2>3. QED
    BY <2>1, <2>2, RespondKeepsSession
<1>6. ASSUME NEW b \in Browsers, NEW k \in Credentials, NEW i \in DOMAIN challenge,
             authentication_refused(b, k, i)
      PROVE  SessionInv'
  <2>1. Respond(b, cookie[b], session[b]) /\ UNCHANGED <<link, passkey, signedIn>>
    BY <1>6 DEF authentication_refused
  <2>2. QED
    BY <2>1, RespondKeepsSession
<1>7. ASSUME NEW b \in Browsers, begin_registration(b) PROVE SessionInv'
  BY <1>7 DEF begin_registration
<1>8. ASSUME NEW b \in Browsers, NEW k \in Credentials, NEW i \in DOMAIN challenge,
             finish_registration(b, k, i)
      PROVE  SessionInv'
  <2>1. PICK u \in Acting(b) :
          passkey' = IF passkey[k] = NoPasskey
                     THEN [passkey EXCEPT ![k] = [user |-> u, active |-> TRUE]] ELSE passkey
    BY <1>8 DEF finish_registration
  <2>2. u \in Users
    BY ActingIsSession
  <2>3. passkey' \in [Credentials -> [user : Users \cup {Nobody}, active : BOOLEAN]]
    BY <2>1, <2>2
  <2>4. \A c \in Credentials : passkey'[c].active => passkey'[c].user \in Users
    BY <2>1, <2>2
  <2>5. QED
    BY <1>8, <2>3, <2>4 DEF finish_registration
<1>9. ASSUME NEW b \in Browsers, NEW k \in Credentials, passkey_remove(b, k) PROVE SessionInv'
  <2>1. passkey' = [passkey EXCEPT ![k] = [passkey[k] EXCEPT !.active = FALSE]]
    BY <1>9 DEF passkey_remove
  <2>2. passkey' \in [Credentials -> [user : Users \cup {Nobody}, active : BOOLEAN]]
    BY <2>1
  <2>3. \A c \in Credentials : passkey'[c].active => passkey'[c].user \in Users
    BY <2>1
  <2>4. QED
    BY <1>9, <2>2, <2>3 DEF passkey_remove
<1>10. ASSUME NEW b \in Browsers, logout_view(b) PROVE SessionInv'
  <2>1. Respond(b, NoCookie, Nobody) /\ signedIn' = [signedIn EXCEPT ![b] = Nobody]
        /\ UNCHANGED <<link, passkey>>
    BY <1>10 DEF logout_view
  <2>2. QED
    BY <2>1, RespondKeepsSession
<1>11. ASSUME NEW b \in Browsers, NEW c, swap_cookie(b, c) PROVE SessionInv'
  BY <1>11 DEF swap_cookie
<1>12. ASSUME NEW b \in Browsers, visit(b) PROVE SessionInv'
  <2>1. Respond(b, cookie[b], kept_session(b)) /\ UNCHANGED <<link, passkey, signedIn>>
    BY <1>12 DEF visit
  <2>2. kept_session(b) \in {session[b], Nobody}
    BY DEF kept_session
  <2>3. QED
    BY <2>1, <2>2, RespondKeepsSession
<1>13. ASSUME NEW e, _send_recovery_links(e) PROVE SessionInv'
  <2>0. PICK S \in SUBSET Unissued : \E f \in [S -> find_login_targets(e)] :
          link' = [l \in Links |-> IF l \in S THEN LiveLink(f[l], "recovery") ELSE link[l]]
    BY <1>13 DEF _send_recovery_links
  <2>1. PICK f \in [S -> find_login_targets(e)] :
          link' = [l \in Links |-> IF l \in S THEN LiveLink(f[l], "recovery") ELSE link[l]]
    BY <2>0
  <2>2. \A l \in S : LiveLink(f[l], "recovery") \in LinkRow
    BY <2>1, LiveLinkIsRow DEF find_login_targets
  <2>3. QED
    BY <1>13, <2>1, <2>2 DEF _send_recovery_links
<1>14. ASSUME NEW u \in Users, admin_reissue_link(u) PROVE SessionInv'
  <2>1. link' \in [Links -> LinkRow]
    BY <1>14, IssueKeepsRows DEF admin_reissue_link, purpose_for
  <2>2. QED
    BY <1>14, <2>1 DEF admin_reissue_link
<1>15. ASSUME NEW u \in Users, admin_invite(u) PROVE SessionInv'
  <2>1. link' \in [Links -> LinkRow]
    BY <1>15, IssueKeepsRows DEF admin_invite
  <2>2. QED
    BY <1>15, <2>1 DEF admin_invite
<1>16. ASSUME NEW u \in Users, admin_toggle_active(u) PROVE SessionInv'
  BY <1>16 DEF admin_toggle_active
<1>17. ASSUME NEW c \in Churches, provision_church(c) PROVE SessionInv'
  <2>1. Founder[c] \in Users
    BY SignInAssumption DEF SignInAssumption
  <2>2. link' \in [Links -> LinkRow]
    BY <1>17, <2>1, IssueKeepsRows DEF provision_church
  <2>3. QED
    BY <1>17, <2>2 DEF provision_church
<1>18. ASSUME NEW c \in Churches, church_settings(c) PROVE SessionInv'
  BY <1>18 DEF church_settings
<1>19. ASSUME Tick PROVE SessionInv'
  <2>1. \A l \in Links : [link[l] EXCEPT !.left = IF @ = 0 THEN 0 ELSE @ - 1] \in LinkRow
    BY SignInAssumption DEF LinkRow, SignInAssumption
  <2>2. link' = [l \in Links |-> [link[l] EXCEPT !.left = IF @ = 0 THEN 0 ELSE @ - 1]]
    BY <1>19 DEF Tick
  <2>3. link' \in [Links -> LinkRow]
    BY <2>1, <2>2
  <2>4. QED
    BY <1>19, <2>3 DEF Tick
<1>20. CASE UNCHANGED vars
  BY <1>20 DEF vars
<1>21. QED
  BY <1>1, <1>2, <1>3, <1>4, <1>5, <1>6, <1>7, <1>8, <1>9, <1>10, <1>11, <1>12, <1>13, <1>14,
     <1>15, <1>16, <1>17, <1>18, <1>19, <1>20 DEF Next

(* A request never acts as anybody but whoever last signed in at its       *)
(* browser, whatever cookie it presents.                                   *)
THEOREM NobodyActsAsAnotherAlways == Spec => []NobodyActsAsAnother
<1>1. SessionInv => NobodyActsAsAnother
  <2>1. SUFFICES ASSUME SessionInv, NEW b \in Browsers, NEW u \in Acting(b) PROVE u = signedIn[b]
    BY DEF NobodyActsAsAnother
  <2>2. u = session[b] /\ u \in Users
    BY <2>1, ActingIsSession
  <2>3. u # Nobody
    BY <2>2, SignInAssumption DEF SignInAssumption
  <2>4. QED
    BY <2>1, <2>2, <2>3 DEF SessionInv
<1>2. QED
  BY <1>1, SessionInit, SessionNext, PTL DEF Spec

(* Making one fresh link, and making one for each account of an address.   *)
LEMMA FreshIsLive ==
  ASSUME NEW u \in Users, NEW purpose \in {"invite", "recovery"}
  PROVE  /\ LiveLink(u, purpose).user = u /\ u # Nobody
         /\ LiveLink(u, purpose).spent = FALSE
         /\ LiveLink(u, purpose).left # 0
         /\ LiveLink(u, purpose).uses = 0
<1>1. lifetime(purpose) \in 1..InviteTicks
  BY TicksAreLifetimes DEF Ticks
<1>2. lifetime(purpose) # 0
  BY <1>1, SignInAssumption DEF SignInAssumption
<1>3. QED
  BY <1>2, SignInAssumption DEF LiveLink, SignInAssumption

(* Until it is issued a link has signed nobody in.                         *)
UnusedInv == \A l \in Links : link[l].user = Nobody => link[l].uses = 0
LinksInv == SessionInv /\ UnusedInv

LEMMA SeveralAreIssued ==
  ASSUME LinksInv, NEW S \in SUBSET Unissued, NEW f \in [S -> Users],
         NEW purpose \in [S -> {"invite", "recovery"}],
         link' = [l \in Links |-> IF l \in S THEN LiveLink(f[l], purpose[l]) ELSE link[l]]
  PROVE  Once!Issue /\ UnusedInv'
<1>1. S \subseteq Links /\ \A l \in S : link[l].user = Nobody
  BY DEF Unissued
<1>2. \A l \in S : /\ link'[l].user = f[l] /\ f[l] # Nobody /\ ~link'[l].spent
                   /\ link'[l].left # 0 /\ link'[l].uses = 0
  <2>1. SUFFICES ASSUME NEW l \in S
        PROVE  /\ link'[l].user = f[l] /\ f[l] # Nobody /\ ~link'[l].spent
               /\ link'[l].left # 0 /\ link'[l].uses = 0
    OBVIOUS
  <2>2. link'[l] = LiveLink(f[l], purpose[l]) /\ f[l] \in Users /\ purpose[l] \in {"invite", "recovery"}
    BY <1>1
  <2>3. PICK u \in Users, p \in {"invite", "recovery"} : u = f[l] /\ p = purpose[l]
    BY <2>2
  <2>4. /\ LiveLink(u, p).user = u /\ u # Nobody /\ LiveLink(u, p).spent = FALSE
        /\ LiveLink(u, p).left # 0 /\ LiveLink(u, p).uses = 0
    BY FreshIsLive
  <2>5. QED
    BY <2>2, <2>3, <2>4
<1>3. \A l \in Links \ S : link'[l] = link[l]
  OBVIOUS
<1>4. \A l \in S : LinkState[l] = "unissued"
  BY <1>1 DEF LinkState
<1>5. LinkState' = [l \in Links |-> IF l \in S THEN "live" ELSE LinkState[l]]
  BY <1>1, <1>2, <1>3 DEF LinkState
<1>6. LinkHolder' = [l \in Links |-> IF l \in S THEN f[l] ELSE LinkHolder[l]]
  BY <1>1, <1>2, <1>3 DEF LinkHolder
<1>7. \A l \in S : link[l].uses = 0
  BY <1>1 DEF LinksInv, UnusedInv
<1>8. UNCHANGED LinkUses
  BY <1>1, <1>2, <1>3, <1>7 DEF LinkUses
<1>9. \A l \in Links : link'[l].user = Nobody => link'[l].uses = 0
  BY <1>1, <1>2, <1>3 DEF LinksInv, UnusedInv
<1>10. S \in SUBSET Links
  BY <1>1
<1>11. QED
  BY <1>4, <1>5, <1>6, <1>8, <1>9, <1>10 DEF Once!Issue, UnusedInv

LEMMA OneIsIssued ==
  ASSUME LinksInv, NEW u \in Users, NEW purpose \in {"invite", "recovery"},
         issue_link(u, purpose)
  PROVE  Once!Issue /\ UnusedInv'
<1>1. PICK l \in Unissued : link' = [link EXCEPT ![l] = LiveLink(u, purpose)]
  BY DEF issue_link
<1> DEFINE f == [m \in {l} |-> u]  p == [m \in {l} |-> purpose]
<1>2. f \in [{l} -> Users] /\ p \in [{l} -> {"invite", "recovery"}] /\ {l} \in SUBSET Unissued
  OBVIOUS
<1>3. \A m \in {l} : f[m] = u /\ p[m] = purpose
  OBVIOUS
<1>4. link' = [m \in Links |-> IF m \in {l} THEN LiveLink(f[m], p[m]) ELSE link[m]]
  BY <1>1, <1>3 DEF LinksInv, SessionInv
<1> HIDE DEF f, p
<1>5. QED
  BY <1>2, <1>4, SeveralAreIssued

(* Time runs out for some of the live links and for no others.             *)
LEMMA TickLapses ==
  ASSUME LinksInv, Tick
  PROVE  Once!Lapse /\ UnusedInv'
<1> DEFINE S == {l \in Links : LinkState[l] = "live" /\ link'[l].left = 0}
<1>1. link' = [l \in Links |-> [link[l] EXCEPT !.left = IF @ = 0 THEN 0 ELSE @ - 1]]
  BY DEF Tick
<1>2. \A l \in Links : link[l] \in LinkRow
  BY DEF LinksInv, SessionInv
<1>3. \A l \in Links : /\ link'[l].user = link[l].user /\ link'[l].spent = link[l].spent
                       /\ link'[l].uses = link[l].uses
                       /\ link[l].left = 0 => link'[l].left = 0
  BY <1>1, <1>2 DEF LinkRow
<1>4. LinkState' = [l \in Links |-> IF l \in S THEN "lapsed" ELSE LinkState[l]]
  <2>1. ASSUME NEW l \in Links
        PROVE LinkState'[l] = IF l \in S THEN "lapsed" ELSE LinkState[l]
    BY <1>3 DEF LinkState
  <2>2. QED
    BY <2>1 DEF LinkState
<1>5. UNCHANGED <<LinkHolder, LinkUses>>
  BY <1>3 DEF LinkHolder, LinkUses
<1>6. S \in SUBSET {l \in Links : LinkState[l] = "live"}
  OBVIOUS
<1>7. \A l \in Links : link'[l].user = Nobody => link'[l].uses = 0
  BY <1>3 DEF LinksInv, UnusedInv
<1> HIDE DEF S
<1>8. QED
  BY <1>4, <1>5, <1>6, <1>7 DEF Once!Lapse, UnusedInv

LEMMA ConsumeSignsIn ==
  ASSUME LinksInv, NEW b \in Browsers, NEW l \in Links, link_consume(b, l)
  PROVE  Once!SignIn(l) /\ UnusedInv'
<1>1. link' = [link EXCEPT ![l] = [link[l] EXCEPT !.spent = TRUE, !.uses = @ + 1]]
  BY DEF link_consume, consumed
<1>2. link[l].user # Nobody /\ ~link[l].spent /\ link[l].left > 0
  BY DEF link_consume, verify_link, is_usable
<1>3. \A m \in Links : link[m] \in LinkRow
  BY DEF LinksInv, SessionInv
<1>4. link'[l].user = link[l].user /\ link'[l].spent = TRUE /\ link'[l].uses = link[l].uses + 1
  BY <1>1, <1>3 DEF LinksInv, SessionInv, LinkRow
<1>5. \A m \in Links \ {l} : link'[m] = link[m]
  BY <1>1 DEF LinksInv, SessionInv
<1>6. LinkState[l] = "live"
  BY <1>2, <1>3 DEF LinkState, LinkRow
<1>7. LinkState' = [LinkState EXCEPT ![l] = "spent"]
  BY <1>2, <1>4, <1>5 DEF LinkState
<1>8. LinkUses' = [LinkUses EXCEPT ![l] = @ + 1]
  BY <1>4, <1>5 DEF LinkUses
<1>9. UNCHANGED LinkHolder
  BY <1>4, <1>5 DEF LinkHolder
<1>10. \A m \in Links : link'[m].user = Nobody => link'[m].uses = 0
  BY <1>2, <1>4, <1>5 DEF LinksInv, UnusedInv
<1>11. QED
  BY <1>6, <1>7, <1>8, <1>9, <1>10 DEF Once!SignIn, UnusedInv

LEMMA LinkStep == LinksInv /\ [Next]_vars => [Once!Next]_(Once!vars) /\ UnusedInv'
<1> SUFFICES ASSUME LinksInv, [Next]_vars PROVE [Once!Next]_(Once!vars) /\ UnusedInv'
  OBVIOUS
<1>1. ASSUME UNCHANGED link PROVE [Once!Next]_(Once!vars) /\ UnusedInv'
  BY <1>1 DEF Once!vars, LinkState, LinkHolder, LinkUses, LinksInv, UnusedInv
<1>2. ASSUME Once!Issue /\ UnusedInv' PROVE [Once!Next]_(Once!vars) /\ UnusedInv'
  BY <1>2 DEF Once!Next
<1>3. ASSUME NEW b \in Browsers, NEW l \in Links, link_consume(b, l)
      PROVE  [Once!Next]_(Once!vars) /\ UnusedInv'
  BY <1>3, ConsumeSignsIn DEF Once!Next
<1>4. ASSUME NEW b \in Browsers, security_new_device_link(b) PROVE Once!Issue /\ UnusedInv'
  <2>1. PICK u \in Acting(b) : issue_link(u, purpose_for(u))
    BY <1>4 DEF security_new_device_link
  <2>2. u \in Users /\ purpose_for(u) \in {"invite", "recovery"}
    BY ActingIsSession DEF purpose_for, LinksInv
  <2>3. QED
    BY <2>1, <2>2, OneIsIssued
<1>5. ASSUME NEW e, _send_recovery_links(e) PROVE Once!Issue /\ UnusedInv'
  <2>1. PICK S \in SUBSET Unissued : \E f \in [S -> find_login_targets(e)] :
          link' = [l \in Links |-> IF l \in S THEN LiveLink(f[l], "recovery") ELSE link[l]]
    BY <1>5 DEF _send_recovery_links
  <2>2. PICK f \in [S -> find_login_targets(e)] :
          link' = [l \in Links |-> IF l \in S THEN LiveLink(f[l], "recovery") ELSE link[l]]
    BY <2>1
  <2> DEFINE p == [l \in S |-> "recovery"]
  <2>3. f \in [S -> Users] /\ p \in [S -> {"invite", "recovery"}]
    BY DEF find_login_targets
  <2>4. link' = [l \in Links |-> IF l \in S THEN LiveLink(f[l], p[l]) ELSE link[l]]
    BY <2>2
  <2> HIDE DEF p
  <2>5. QED
    BY <2>3, <2>4, SeveralAreIssued
<1>6. ASSUME NEW u \in Users, admin_reissue_link(u) PROVE Once!Issue /\ UnusedInv'
  BY <1>6, OneIsIssued DEF admin_reissue_link, purpose_for
<1>7. ASSUME NEW u \in Users, admin_invite(u) PROVE Once!Issue /\ UnusedInv'
  BY <1>7, OneIsIssued DEF admin_invite
<1>8. ASSUME NEW c \in Churches, provision_church(c) PROVE Once!Issue /\ UnusedInv'
  <2>1. Founder[c] \in Users
    BY SignInAssumption DEF SignInAssumption
  <2>2. QED
    BY <1>8, <2>1, OneIsIssued DEF provision_church
<1>9. ASSUME Tick PROVE [Once!Next]_(Once!vars) /\ UnusedInv'
  BY <1>9, TickLapses DEF Once!Next
<1>10. ASSUME NEW b \in Browsers, \E l \in Links : link_refused(b, l) PROVE UNCHANGED link
  BY <1>10 DEF link_refused
<1>11. ASSUME NEW b \in Browsers, \/ begin_authentication(b) \/ begin_registration(b)
                                  \/ logout_view(b) \/ visit(b)
      PROVE UNCHANGED link
  BY <1>11 DEF begin_authentication, begin_registration, logout_view, visit
<1>12. ASSUME NEW b \in Browsers, NEW k \in Credentials, NEW i \in DOMAIN challenge,
              \/ finish_authentication(b, k, i) \/ authentication_refused(b, k, i)
              \/ finish_registration(b, k, i)
      PROVE UNCHANGED link
  BY <1>12 DEF finish_authentication, authentication_refused, finish_registration
<1>13. ASSUME NEW b \in Browsers, NEW k \in Credentials, passkey_remove(b, k) PROVE UNCHANGED link
  BY <1>13 DEF passkey_remove
<1>14. ASSUME NEW b \in Browsers, NEW c, swap_cookie(b, c) PROVE UNCHANGED link
  BY <1>14 DEF swap_cookie
<1>15. ASSUME NEW u \in Users, admin_toggle_active(u) PROVE UNCHANGED link
  BY <1>15 DEF admin_toggle_active
<1>16. ASSUME NEW c \in Churches, church_settings(c) PROVE UNCHANGED link
  BY <1>16 DEF church_settings
<1>17. CASE UNCHANGED vars
  BY <1>1, <1>17 DEF vars
<1>18. QED
  BY <1>1, <1>2, <1>3, <1>4, <1>5, <1>6, <1>7, <1>8, <1>9, <1>10, <1>11, <1>12, <1>13, <1>14,
     <1>15, <1>16, <1>17 DEF Next

(* Sign-in links implement the abstract one-time link.                     *)
THEOREM LinksSignInOnceAlways == Spec => LinksSignInOnce
<1>1. Init => LinksInv /\ Once!Init
  BY SessionInit DEF Init, LinksInv, UnusedInv, Once!Init, LinkState, LinkHolder, LinkUses, NoLink
<1>2. LinksInv /\ [Next]_vars => LinksInv'
  BY SessionNext, LinkStep DEF LinksInv, UnusedInv
<1>3. LinksInv /\ [Next]_vars => [Once!Next]_(Once!vars)
  BY LinkStep
<1>4. QED
  BY <1>1, <1>2, <1>3, PTL DEF Spec, LinksSignInOnce, Once!Spec

-----------------------------------------------------------------------------
(* Challenges, whoever they are for and in whichever schema they lie.      *)

ChallengeRow ==
  [schema : Schemas, for : Users \cup Browsers \cup {Gone}, left : Nat,
   spent : BOOLEAN, answers : Nat]

(* A row that was answered, once, is used up: why no second answer counts. *)
SoundRow == {r \in ChallengeRow : r.answers <= 1 /\ (r.answers = 1 => r.spent)}

ChallengeInv == challenge \in Seq(SoundRow)

LEMMA BoundIsSchema == ASSUME NEW b PROVE Bound(b) \in Schemas
  BY DEF Bound, cookie_usable, Open, Schemas

LEMMA NewChallengeIsSound ==
  ASSUME NEW who \in Users \cup Browsers, NEW s \in Schemas
  PROVE  Challenge(who, s) \in SoundRow
<1>1. ChallengeTicks \in Nat
  BY SignInAssumption DEF SignInAssumption
<1>2. QED
  BY <1>1 DEF Challenge, SoundRow, ChallengeRow

LEMMA RenewedIsSound ==
  ASSUME NEW b, NEW rows \in Seq(SoundRow)
  PROVE  renewed(b, rows) \in Seq(SoundRow)
<1>1. ASSUME NEW r \in SoundRow PROVE [r EXCEPT !.for = Gone] \in SoundRow
  BY DEF SoundRow, ChallengeRow
<1>2. \A i \in 1..Len(rows) : rows[i] \in SoundRow
  OBVIOUS
<1>3. renewed(b, rows) = [i \in 1..Len(rows) |->
         IF rows[i].for = b THEN [rows[i] EXCEPT !.for = Gone] ELSE rows[i]]
  BY DEF renewed
<1>4. renewed(b, rows) \in [1..Len(rows) -> SoundRow]
  BY <1>1, <1>2, <1>3
<1>5. QED
  BY <1>4

(* Using a row up, whether or not it is answered.                          *)
LEMMA SpendingIsSound ==
  ASSUME NEW rows \in Seq(SoundRow), NEW i \in DOMAIN rows
  PROVE  [rows EXCEPT ![i].spent = TRUE] \in Seq(SoundRow)
<1>1. [rows[i] EXCEPT !.spent = TRUE] \in SoundRow
  <2>1. rows[i] \in SoundRow
    OBVIOUS
  <2>2. QED
    BY <2>1 DEF SoundRow, ChallengeRow
<1>2. [rows EXCEPT ![i] = [rows[i] EXCEPT !.spent = TRUE]] \in [1..Len(rows) -> SoundRow]
  BY <1>1
<1>3. QED
  BY <1>2

(* Whoever answers found the row unused, so it had no answer yet.          *)
LEMMA AnsweringIsSound ==
  ASSUME ChallengeInv, NEW b, NEW k, NEW who, NEW s, NEW i \in Latest(who, s)
  PROVE  answered(b, k, i) \in Seq(SoundRow)
<1>1. i \in DOMAIN challenge /\ ~challenge[i].spent /\ challenge[i] \in SoundRow
  BY DEF Latest, ChallengeInv
<1>2. challenge[i].answers = 0
  BY <1>1 DEF SoundRow, ChallengeRow
<1>3. [challenge[i] EXCEPT !.spent = TRUE] \in ChallengeRow
  BY <1>1 DEF SoundRow, ChallengeRow
<1>4. PICK r \in ChallengeRow : r = [challenge[i] EXCEPT !.spent = TRUE]
  BY <1>3
<1>5. r.answers = 0 /\ r.spent
  BY <1>1, <1>2, <1>4 DEF SoundRow, ChallengeRow
<1>6. [r EXCEPT !.answers = 1] \in SoundRow
  <2>1. [r EXCEPT !.answers = 1] \in ChallengeRow
    BY DEF ChallengeRow
  <2>2. [r EXCEPT !.answers = 1].answers = 1 /\ [r EXCEPT !.answers = 1].spent
    BY <1>5 DEF ChallengeRow
  <2>3. PICK x \in ChallengeRow : x = [r EXCEPT !.answers = 1] /\ x.answers = 1 /\ x.spent
    BY <2>1, <2>2
  <2>4. x.answers <= 1 /\ (x.answers = 1 => x.spent)
    BY <2>3
  <2>5. x \in SoundRow
    BY <2>4 DEF SoundRow
  <2>6. QED
    BY <2>3, <2>5
<1>7. consume(i, IF found(b, k) THEN SchemaOf[passkey[k].user] ELSE Bound(b))
        = [challenge EXCEPT ![i] = r]
  BY <1>4 DEF consume
<1>8. answered(b, k, i) = [challenge EXCEPT ![i] = [r EXCEPT !.answers = 1]]
  <2>1. [challenge EXCEPT ![i] = r][i] = r
    BY <1>1 DEF ChallengeInv
  <2>2. answered(b, k, i) = [[challenge EXCEPT ![i] = r] EXCEPT ![i] = [r EXCEPT !.answers = r.answers + 1]]
    BY <1>7, <2>1 DEF answered
  <2>3. r.answers + 1 = 1
    BY <1>5
  <2>4. QED
    BY <2>2, <2>3 DEF ChallengeInv
<1>9. [challenge EXCEPT ![i] = [r EXCEPT !.answers = 1]] \in [1..Len(challenge) -> SoundRow]
  BY <1>1, <1>6 DEF ChallengeInv
<1>10. answered(b, k, i) \in [1..Len(challenge) -> SoundRow] /\ Len(challenge) \in Nat
  BY <1>8, <1>9 DEF ChallengeInv
<1>11. QED
  BY <1>10

LEMMA ChallengeNext == ChallengeInv /\ [Next]_vars => ChallengeInv'
<1> SUFFICES ASSUME ChallengeInv, [Next]_vars PROVE ChallengeInv'
  OBVIOUS
<1>1. ASSUME NEW b \in Browsers, NEW l \in Links, link_consume(b, l) PROVE ChallengeInv'
  BY <1>1, RenewedIsSound DEF link_consume, _complete_login, ChallengeInv
<1>2. ASSUME NEW b \in Browsers, NEW l \in Links, link_refused(b, l) PROVE ChallengeInv'
  BY <1>2, RenewedIsSound DEF link_refused, ChallengeInv
<1>3. ASSUME NEW b \in Browsers, begin_authentication(b) PROVE ChallengeInv'
  <2>1. settled(b) \in Seq(SoundRow)
    BY RenewedIsSound DEF settled, ChallengeInv
  <2>2. Challenge(b, Bound(b)) \in SoundRow
    BY NewChallengeIsSound, BoundIsSchema
  <2>3. QED
    BY <1>3, <2>1, <2>2 DEF begin_authentication, ChallengeInv
<1>4. ASSUME NEW b \in Browsers, NEW k \in Credentials, NEW i \in DOMAIN challenge,
             finish_authentication(b, k, i)
      PROVE  ChallengeInv'
  <2>1. answered(b, k, i) \in Seq(SoundRow)
    BY <1>4, AnsweringIsSound DEF finish_authentication
  <2>2. QED
    BY <1>4, <2>1, RenewedIsSound
    DEF finish_authentication, _complete_login, auth_login, ChallengeInv
<1>5. ASSUME NEW b \in Browsers, NEW k \in Credentials, NEW i \in DOMAIN challenge,
             authentication_refused(b, k, i)
      PROVE  ChallengeInv'
  BY <1>5, AnsweringIsSound DEF authentication_refused, ChallengeInv
<1>6. ASSUME NEW b \in Browsers, begin_registration(b) PROVE ChallengeInv'
  <2>1. PICK u \in Acting(b) : challenge' = Append(challenge, Challenge(u, SchemaOf[u]))
    BY <1>6 DEF begin_registration
  <2>2. u \in Users /\ SchemaOf[u] \in Schemas
    BY SignInAssumption DEF SignInAssumption, Acting, Resident
  <2>3. Challenge(u, SchemaOf[u]) \in SoundRow
    BY <2>2, NewChallengeIsSound
  <2>4. QED
    BY <2>1, <2>3 DEF ChallengeInv
<1>7. ASSUME NEW b \in Browsers, NEW k \in Credentials, NEW i \in DOMAIN challenge,
             finish_registration(b, k, i)
      PROVE  ChallengeInv'
  BY <1>7, SpendingIsSound DEF finish_registration, ChallengeInv
<1>8. ASSUME NEW b \in Browsers, logout_view(b) PROVE ChallengeInv'
  BY <1>8, RenewedIsSound DEF logout_view, ChallengeInv
<1>9. ASSUME NEW b \in Browsers, visit(b) PROVE ChallengeInv'
  BY <1>9, RenewedIsSound DEF visit, settled, ChallengeInv
<1>10. ASSUME Tick PROVE ChallengeInv'
  <2>1. ASSUME NEW r \in SoundRow PROVE [r EXCEPT !.left = IF @ = 0 THEN 0 ELSE @ - 1] \in SoundRow
    <3>1. (IF r.left = 0 THEN 0 ELSE r.left - 1) \in Nat
      BY DEF SoundRow, ChallengeRow
    <3>2. ASSUME NEW n \in Nat PROVE [r EXCEPT !.left = n] \in SoundRow
      BY DEF SoundRow, ChallengeRow
    <3>3. QED
      BY <3>1, <3>2
  <2>2. challenge' = [i \in 1..Len(challenge) |->
                        [challenge[i] EXCEPT !.left = IF @ = 0 THEN 0 ELSE @ - 1]]
    BY <1>10 DEF Tick, ChallengeInv
  <2>3. \A i \in 1..Len(challenge) : challenge[i] \in SoundRow
    BY DEF ChallengeInv
  <2>4. challenge' \in [1..Len(challenge) -> SoundRow]
    BY <2>1, <2>2, <2>3
  <2>5. QED
    BY <2>4 DEF ChallengeInv
<1>11. ASSUME UNCHANGED challenge PROVE ChallengeInv'
  BY <1>11 DEF ChallengeInv
<1>12. ASSUME NEW b \in Browsers,
              \/ security_new_device_link(b)
              \/ \E k \in Credentials : passkey_remove(b, k)
              \/ \E c \in Churches \cup {NoCookie} : swap_cookie(b, c)
       PROVE  UNCHANGED challenge
  BY <1>12 DEF security_new_device_link, passkey_remove, swap_cookie
<1>13. ASSUME NEW e, _send_recovery_links(e) PROVE UNCHANGED challenge
  BY <1>13 DEF _send_recovery_links
<1>14. ASSUME NEW u \in Users,
              admin_reissue_link(u) \/ admin_invite(u) \/ admin_toggle_active(u)
       PROVE  UNCHANGED challenge
  BY <1>14 DEF admin_reissue_link, admin_invite, admin_toggle_active
<1>15. ASSUME NEW c \in Churches, provision_church(c) \/ church_settings(c)
       PROVE  UNCHANGED challenge
  BY <1>15 DEF provision_church, church_settings
<1>16. CASE UNCHANGED vars
  BY <1>11, <1>16 DEF vars
<1>17. QED
  BY <1>1, <1>2, <1>3, <1>4, <1>5, <1>6, <1>7, <1>8, <1>9, <1>10, <1>11, <1>12, <1>13, <1>14,
     <1>15, <1>16 DEF Next

(* However many requests hold a challenge, and although the request that   *)
(* answers it has moved to another schema, it takes one answer.            *)
THEOREM ChallengeAnsweredOnceAlways == Spec => []ChallengeAnsweredOnce
<1>1. Init => ChallengeInv
  BY DEF Init, ChallengeInv
<1>2. ChallengeInv => ChallengeAnsweredOnce
  BY DEF ChallengeInv, ChallengeAnsweredOnce, SoundRow
<1>3. QED
  BY <1>1, <1>2, ChallengeNext, PTL DEF Spec

-----------------------------------------------------------------------------
(* Landing: the cookie a sign-in leaves behind leads to the account.       *)

CookieInv ==
  /\ cookie \in [Browsers -> Churches \cup {NoCookie}]
  /\ jar \in [Browsers -> SUBSET Churches]

(* A response that sets a church's cookie, or none, leaves cookies alone   *)
(* otherwise.                                                              *)
LEMMA RespondKeepsCookie ==
  ASSUME CookieInv, NEW b \in Browsers, NEW c \in Churches \cup {NoCookie}, NEW s,
         Respond(b, c, s)
  PROVE  CookieInv' /\ (~dropped(b) => cookie'[b] = c)
<1>1. delivered(b, c) \in Churches \cup {NoCookie} /\ (~dropped(b) => delivered(b, c) = c)
  BY DEF delivered
<1>2. cookie' = [cookie EXCEPT ![b] = delivered(b, c)]
      /\ jar' = [jar EXCEPT ![b] = @ \cup ({delivered(b, c)} \ {NoCookie})]
  BY DEF Respond
<1>3. jar[b] \cup ({delivered(b, c)} \ {NoCookie}) \in SUBSET Churches
  BY <1>1 DEF CookieInv
<1>4. QED
  BY <1>1, <1>2, <1>3 DEF CookieInv

LEMMA LoginCookieIs ==
  ASSUME NEW s \in Schemas
  PROVE  login_cookie(s) \in Churches \cup {NoCookie}
  BY DEF login_cookie, Schemas

(* A ceremony only moves from the public schema to an open church.         *)
LEMMA TargetCookieIs ==
  ASSUME CookieInv, NEW b \in Browsers, NEW k, found(b, k)
  PROVE  target_cookie(b, SchemaOf[passkey[k].user]) \in Churches \cup {NoCookie}
  BY DEF target_cookie, found, Open, CookieInv

LEMMA CookieNext == CookieInv /\ [Next]_vars => CookieInv'
<1> SUFFICES ASSUME CookieInv, [Next]_vars PROVE CookieInv'
  OBVIOUS
<1>1. ASSUME NEW b \in Browsers, NEW l \in Links, link_consume(b, l) PROVE CookieInv'
  <2>1. Open(SchemaOf[link[l].user])
    BY <1>1 DEF link_consume, verify_link
  <2>2. login_cookie(SchemaOf[link[l].user]) \in Churches \cup {NoCookie}
    BY <2>1, LoginCookieIs DEF Open, Schemas
  <2>3. QED
    BY <1>1, <2>2, RespondKeepsCookie DEF link_consume, _complete_login
<1>2. ASSUME NEW b \in Browsers, NEW k \in Credentials, NEW i \in DOMAIN challenge,
             finish_authentication(b, k, i)
      PROVE  CookieInv'
  BY <1>2, TargetCookieIs, RespondKeepsCookie DEF finish_authentication, _complete_login
<1>3. ASSUME NEW b \in Browsers, NEW s, Respond(b, cookie[b], s) PROVE CookieInv'
  <2>1. cookie[b] \in Churches \cup {NoCookie}
    BY DEF CookieInv
  <2>2. QED
    BY <1>3, <2>1, RespondKeepsCookie
<1>4. ASSUME NEW b \in Browsers, NEW l \in Links, link_refused(b, l) PROVE CookieInv'
  BY <1>3, <1>4 DEF link_refused
<1>5. ASSUME NEW b \in Browsers, begin_authentication(b) \/ visit(b) PROVE CookieInv'
  BY <1>3, <1>5 DEF begin_authentication, visit
<1>6. ASSUME NEW b \in Browsers, NEW k \in Credentials, NEW i \in DOMAIN challenge,
             authentication_refused(b, k, i)
      PROVE  CookieInv'
  BY <1>3, <1>6 DEF authentication_refused
<1>7. ASSUME NEW b \in Browsers, logout_view(b) PROVE CookieInv'
  BY <1>7, RespondKeepsCookie DEF logout_view
<1>8. ASSUME NEW b \in Browsers, NEW c, swap_cookie(b, c) PROVE CookieInv'
  <2>1. c \in Churches \cup {NoCookie} /\ cookie' = [cookie EXCEPT ![b] = c] /\ jar' = jar
    BY <1>8 DEF swap_cookie, CookieInv
  <2>2. QED
    BY <2>1 DEF CookieInv
<1>9. ASSUME UNCHANGED <<cookie, jar>> PROVE CookieInv'
  BY <1>9 DEF CookieInv
<1>10. ASSUME NEW b \in Browsers,
              \/ security_new_device_link(b) \/ begin_registration(b)
              \/ \E k \in Credentials, i \in DOMAIN challenge : finish_registration(b, k, i)
              \/ \E k \in Credentials : passkey_remove(b, k)
       PROVE  UNCHANGED <<cookie, jar>>
  BY <1>10 DEF security_new_device_link, begin_registration, finish_registration, passkey_remove
<1>11. ASSUME NEW e, _send_recovery_links(e) PROVE UNCHANGED <<cookie, jar>>
  BY <1>11 DEF _send_recovery_links
<1>12. ASSUME NEW u \in Users,
              admin_reissue_link(u) \/ admin_invite(u) \/ admin_toggle_active(u)
       PROVE  UNCHANGED <<cookie, jar>>
  BY <1>12 DEF admin_reissue_link, admin_invite, admin_toggle_active
<1>13. ASSUME NEW c \in Churches, provision_church(c) \/ church_settings(c)
       PROVE  UNCHANGED <<cookie, jar>>
  BY <1>13 DEF provision_church, church_settings
<1>14. CASE Tick
  BY <1>9, <1>14 DEF Tick
<1>15. CASE UNCHANGED vars
  BY <1>9, <1>15 DEF vars
<1>16. QED
  BY <1>1, <1>2, <1>4, <1>5, <1>6, <1>7, <1>8, <1>9, <1>10, <1>11, <1>12, <1>13, <1>14, <1>15
  DEF Next

(* Once the browser is bound to the schema of an active account and its    *)
(* session names that account, requests act as it and as nobody else.      *)
LEMMA SessionActs ==
  ASSUME NEW b \in Browsers, NEW u \in Users,
         session'[b] = u, account'[u] = "active", Bound(b)' = SchemaOf[u]
  PROVE  Acting(b)' = {u}
<1>1. u # Nobody /\ \A w \in Users : SchemaOf[u] = SchemaOf[w] /\ Pk[u] = Pk[w] => u = w
  BY SignInAssumption DEF SignInAssumption
<1>2. u \in Resident(b)' /\ \A w \in Resident(b)' : w = u
  BY <1>1 DEF Resident
<1>3. QED
  BY <1>2 DEF Acting

LEMMA LinkLands ==
  ASSUME SessionInv, CookieInv, NEW b \in Browsers, NEW l \in Links, link_consume(b, l),
         ~dropped(b)
  PROVE  Acting(b)' = {signedIn'[b]}
<1> DEFINE u == link[l].user
<1>1. u \in Users /\ account[u] = "active" /\ Open(SchemaOf[u]) /\ SchemaOf[u] \in Schemas
  <2>1. link[l].user # Nobody /\ account[u] = "active" /\ Open(SchemaOf[u])
    BY DEF link_consume, verify_link
  <2>2. u \in Users
    BY <2>1 DEF SessionInv, LinkRow
  <2>3. QED
    BY <2>1, <2>2, SignInAssumption DEF SignInAssumption
<1>2. /\ Respond(b, login_cookie(SchemaOf[u]), u)
      /\ signedIn' = [signedIn EXCEPT ![b] = u] /\ UNCHANGED <<church, account>>
  BY DEF link_consume, _complete_login
<1>3. cookie'[b] = login_cookie(SchemaOf[u])
  BY <1>1, <1>2, LoginCookieIs, RespondKeepsCookie
<1>4. Bound(b)' = SchemaOf[u]
  BY <1>1, <1>2, <1>3, SignInAssumption
  DEF Bound, cookie_usable, Open, login_cookie, Schemas, SignInAssumption
<1>5. session'[b] = u /\ signedIn'[b] = u
  BY <1>2 DEF Respond, SessionInv
<1>6. QED
  BY <1>1, <1>2, <1>4, <1>5, SessionActs

LEMMA PasskeyLands ==
  ASSUME SessionInv, CookieInv, NEW b \in Browsers, NEW k \in Credentials, NEW i,
         finish_authentication(b, k, i), ~dropped(b)
  PROVE  Acting(b)' = {signedIn'[b]}
<1> DEFINE u == passkey[k].user
<1>1. found(b, k) /\ u \in Users /\ account[u] = "active"
  BY DEF finish_authentication, found, SessionInv
<1>2. /\ Respond(b, target_cookie(b, SchemaOf[u]), u)
      /\ signedIn' = [signedIn EXCEPT ![b] = u] /\ UNCHANGED <<church, account>>
  BY DEF finish_authentication, _complete_login
<1>3. cookie'[b] = target_cookie(b, SchemaOf[u])
  BY <1>1, <1>2, TargetCookieIs, RespondKeepsCookie
<1>4. Bound(b)' = SchemaOf[u]
  <2>1. CASE SchemaOf[u] = Bound(b)
    BY <1>2, <1>3, <2>1 DEF target_cookie, Bound, cookie_usable, Open
  <2>2. CASE SchemaOf[u] # Bound(b)
    <3>1. Bound(b) = Public /\ Open(SchemaOf[u]) /\ cookie'[b] = SchemaOf[u]
      BY <1>1, <1>3, <2>2 DEF found, target_cookie
    <3>2. SchemaOf[u] \in Churches
      BY <2>2, <3>1 DEF Open
    <3>3. QED
      BY <1>2, <3>1, <3>2, SignInAssumption DEF Bound, cookie_usable, Open, SignInAssumption
  <2>3. QED
    BY <2>1, <2>2
<1>5. session'[b] = u /\ signedIn'[b] = u
  BY <1>2 DEF Respond, SessionInv
<1>6. QED
  BY <1>1, <1>2, <1>4, <1>5, SessionActs

(* Only a sign-in changes who is signed in to somebody.                    *)
LEMMA LandingNext ==
  ASSUME SessionInv, CookieInv, [Next]_vars, NEW b \in Browsers,
         signedIn'[b] # signedIn[b], signedIn'[b] # Nobody, ~dropped(b)
  PROVE  Acting(b)' = {signedIn'[b]}
<1>1. ASSUME NEW x \in Browsers, NEW u, signedIn' = [signedIn EXCEPT ![x] = u]
      PROVE  x = b /\ u # Nobody
  BY <1>1 DEF SessionInv
<1>2. ASSUME NEW x \in Browsers, NEW l \in Links, link_consume(x, l)
      PROVE  Acting(b)' = {signedIn'[b]}
  <2>1. x = b
    BY <1>1, <1>2 DEF link_consume, _complete_login
  <2>2. QED
    BY <1>2, <2>1, LinkLands
<1>3. ASSUME NEW x \in Browsers, NEW k \in Credentials, NEW i \in DOMAIN challenge,
             finish_authentication(x, k, i)
      PROVE  Acting(b)' = {signedIn'[b]}
  <2>1. x = b
    BY <1>1, <1>3 DEF finish_authentication, _complete_login
  <2>2. QED
    BY <1>3, <2>1, PasskeyLands
<1>4. ASSUME NEW x \in Browsers, logout_view(x) \/ \E l \in Links : link_refused(x, l)
      PROVE  FALSE
  BY <1>1, <1>4 DEF logout_view, link_refused
<1>5. UNCHANGED signedIn => FALSE
  OBVIOUS
<1>6. ASSUME NEW x \in Browsers,
             \/ security_new_device_link(x) \/ begin_authentication(x)
             \/ begin_registration(x) \/ visit(x)
             \/ \E k \in Credentials, i \in DOMAIN challenge :
                  authentication_refused(x, k, i) \/ finish_registration(x, k, i)
             \/ \E k \in Credentials : passkey_remove(x, k)
             \/ \E c \in Churches \cup {NoCookie} : swap_cookie(x, c)
      PROVE  UNCHANGED signedIn
  BY <1>6 DEF security_new_device_link, begin_authentication, begin_registration, visit,
     authentication_refused, finish_registration, passkey_remove, swap_cookie
<1>7. ASSUME NEW e, _send_recovery_links(e) PROVE UNCHANGED signedIn
  BY <1>7 DEF _send_recovery_links
<1>8. ASSUME NEW u \in Users,
             admin_reissue_link(u) \/ admin_invite(u) \/ admin_toggle_active(u)
      PROVE  UNCHANGED signedIn
  BY <1>8 DEF admin_reissue_link, admin_invite, admin_toggle_active
<1>9. ASSUME NEW c \in Churches, provision_church(c) \/ church_settings(c)
      PROVE  UNCHANGED signedIn
  BY <1>9 DEF provision_church, church_settings
<1>10. CASE Tick
  BY <1>5, <1>10 DEF Tick
<1>11. CASE UNCHANGED vars
  BY <1>5, <1>11 DEF vars
<1>12. QED
  BY <1>2, <1>3, <1>4, <1>5, <1>6, <1>7, <1>8, <1>9, <1>10, <1>11 DEF Next

(* Signing in lands: by link or by passkey, from whichever schema, the     *)
(* next request acts as the person who signed in and as nobody else.       *)
THEOREM SignInLandsAlways == Spec => SignInLands
<1>1. Init => SessionInv /\ CookieInv
  BY SessionInit DEF Init, CookieInv
<1>2. SessionInv /\ CookieInv /\ [Next]_vars => (SessionInv /\ CookieInv)'
  BY SessionNext, CookieNext
<1>3. SessionInv /\ CookieInv /\ [Next]_vars
      => [\A b \in Browsers : signedIn'[b] # signedIn[b] /\ signedIn'[b] # Nobody /\ ~dropped(b)
            => Acting(b)' = {signedIn'[b]}]_vars
  BY LandingNext
<1>4. QED
  BY <1>1, <1>2, <1>3, PTL DEF Spec, SignInLands

=============================================================================
