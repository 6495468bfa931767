------------------------------- MODULE Sessions -------------------------------
(***************************************************************************)
(* Accounts, refresh-token sessions and mailed links (internal/auth).      *)
(*                                                                         *)
(* A request is a few SQL statements that are no transaction, so each of   *)
(* its statements is a step and the steps of several requests interleave.  *)
(* The reset and the e-mail confirmation are transactions of UPDATEs that  *)
(* ask for nothing they have read: one step each.                          *)
(***************************************************************************)
EXTENDS Integers, Sequences, FiniteSets

CONSTANTS
  Users,
  Requests,
  Faults,       \* the statements whose error is dropped and that may fail
  Overlap,      \* may two requests on one login run together?
  MaxSessions,  \* bound: rows of sessions
  MaxLinks,     \* bound: rows of auth_tokens
  MaxRows       \* bound: rows of both

ASSUME SessionsAssumption ==
  /\ Faults \subseteq {"read", "consume", "store"} /\ Overlap \in BOOLEAN
  /\ IsFiniteSet(Requests) /\ Requests # {}
  /\ MaxSessions \in Nat /\ MaxLinks \in Nat /\ MaxRows \in Nat

VARIABLES
  account,   \* users: exists, password_hash, email_verified_at
  sessions,  \* the rows of sessions, in the order of their INSERTs
  links,     \* the rows of auth_tokens, in the order of their INSERTs
  req,       \* what each request has still to do
  caught,    \* logins one of whose tokens was seen to be used again
  told       \* users who were answered that their address is verified

vars == <<account, sessions, links, req, caught, told>>

Purposes == {"password_reset", "email_verification"}

\* What makes a row of no more use hides what it was before: revoked_at and
\* consumed_at hide expires_at.  A fresh link is within resendCooldown.
SessionStates == {"live", "expired", "revoked"}
LinkStates    == {"fresh", "ripe", "expired", "consumed"}
Pcs      == {"idle", "consume", "store", "open", "rotate", "drop", "sweep",
             "redeem", "confirm", "recheck"}

\* A password is named after the number of resets before it.
Account == [exists : BOOLEAN, password : Nat, verified : BOOLEAN]

\* next is replaced_by.  login is the first session of the rotation chain and
\* password what that login was verified with; given: the client has the token.
Session == [user : Users, state : SessionStates, next : 0..MaxSessions,
            login : 1..MaxSessions, password : Nat, given : BOOLEAN]

\* used counts the redemptions.  History: the request that stored the link has
\* consumed the rows up to ended, none when its UPDATE failed.
Link == [user : Users, purpose : Purposes, state : LinkStates, used : Nat,
         ended : 0..MaxLinks]

\* of is the session whose token was presented, new the one created for it,
\* link the link presented; "then" is where a mailing request goes on, ended
\* what it consumed.
Request == [pc : Pcs, user : Users, of : 0..MaxSessions, new : 0..MaxSessions,
            link : 0..MaxLinks, password : Nat,
            purpose : Purposes, ended : 0..MaxLinks, then : {"idle", "open"}]

TypeOK ==
  /\ account \in [Users -> Account]
  /\ sessions \in Seq(Session) /\ Len(sessions) <= MaxSessions
  /\ links \in Seq(Link) /\ Len(links) <= MaxLinks
  /\ req \in [Requests -> Request]
  /\ caught \subseteq 1..MaxSessions
  /\ told \subseteq Users

NoRequest(u) ==
  [pc |-> "idle", user |-> u, of |-> 0, new |-> 0, link |-> 0, password |-> 0,
   purpose |-> "password_reset", ended |-> 0, then |-> "idle"]

Init ==
  /\ account = [u \in Users |-> [exists |-> FALSE, password |-> 0, verified |-> FALSE]]
  /\ sessions = <<>> /\ links = <<>>
  /\ \E u \in Users : req = [r \in Requests |-> NoRequest(u)]
  /\ caught = {} /\ told = {}

Busy(r) == req[r].pc # "idle"
Finish(r) == req' = [req EXCEPT ![r] = NoRequest(@.user)]
Goto(r, pc) == req' = [req EXCEPT ![r].pc = pc]

Revoked(set) ==
  [s \in DOMAIN sessions |-> IF s \in set THEN [sessions[s] EXCEPT !.state = "revoked"] ELSE sessions[s]]
OfUser(u) == {s \in DOMAIN sessions : sessions[s].user = u}

\* A client waits for the answer before it presents the cookie again.
LoginQuiet(k) ==
  Overlap \/ \A r \in Requests :
               Busy(r) /\ req[r].of # 0 => sessions[req[r].of].login # sessions[k].login

\* Bounds: one more row fits.
SessionFits == Len(sessions) < MaxSessions /\ Len(sessions) + Len(links) < MaxRows
LinkFits    == Len(links) < MaxLinks /\ Len(sessions) + Len(links) < MaxRows

\* Bound: a request that will insert a session starts only when there is room.
Room == Len(sessions) + Cardinality({r \in Requests : req[r].pc = "open" \/ req[r].then = "open"})
          < MaxSessions
-----------------------------------------------------------------------------
(* Requests, up to their first statement.                                   *)

Register(r, u) ==
  /\ ~Busy(r) /\ Room /\ ~account[u].exists
  /\ account' = [account EXCEPT ![u].exists = TRUE]
  /\ req' = [req EXCEPT ![r] = [NoRequest(u) EXCEPT
               !.pc = "consume", !.purpose = "email_verification", !.then = "open",
               !.password = account[u].password]]
  /\ UNCHANGED <<sessions, links, caught, told>>

\* The hash is read here; a wrong password ends the request.
Login(r, u) ==
  /\ ~Busy(r) /\ Room /\ account[u].exists
  /\ req' = [req EXCEPT ![r] = [NoRequest(u) EXCEPT
               !.pc = "open", !.password = account[u].password]]
  /\ UNCHANGED <<account, sessions, links, caught, told>>

Refresh(r, k) ==
  /\ ~Busy(r) /\ sessions[k].given /\ LoginQuiet(k)
  /\ sessions[k].state = "live" => Room
  /\ req' = [req EXCEPT ![r] = [NoRequest(sessions[k].user) EXCEPT
               !.pc = CASE sessions[k].state = "revoked" -> "sweep"
                        [] sessions[k].state = "expired" -> "drop"
                        [] sessions[k].state = "live" -> "open",
               !.of = k]]
  /\ UNCHANGED <<account, sessions, links, caught, told>>

Logout(r, k) ==
  /\ ~Busy(r) /\ sessions[k].given /\ LoginQuiet(k)
  /\ req' = [req EXCEPT ![r] = [NoRequest(sessions[k].user) EXCEPT !.pc = "drop", !.of = k]]
  /\ UNCHANGED <<account, sessions, links, caught, told>>

OnCooldown(u, purpose) ==
  \E l \in DOMAIN links : /\ links[l].user = u /\ links[l].purpose = purpose
                          /\ links[l].state = "fresh"

\* The cooldown fails open.  ForgotPassword, and ResendVerification for an address not verified yet.
RequestLink(r, u, purpose) ==
  /\ ~Busy(r) /\ account[u].exists /\ LinkFits
  /\ purpose = "email_verification" => ~account[u].verified
  /\ ~OnCooldown(u, purpose) \/ "read" \in Faults
  /\ req' = [req EXCEPT ![r] = [NoRequest(u) EXCEPT !.pc = "consume", !.purpose = purpose]]
  /\ UNCHANGED <<account, sessions, links, caught, told>>

Redeemable(l, purpose) ==
  links[l].purpose = purpose /\ links[l].state \in {"fresh", "ripe"}

ResetPassword(r, l) ==
  /\ ~Busy(r) /\ Redeemable(l, "password_reset")
  /\ req' = [req EXCEPT ![r] = [NoRequest(links[l].user) EXCEPT !.pc = "redeem", !.link = l]]
  /\ UNCHANGED <<account, sessions, links, caught, told>>

\* Whatever keeps the first read from finding a live link leads to the second.
VerifyEmail(r, l) ==
  /\ ~Busy(r) /\ links[l].purpose = "email_verification"
  /\ \E pc \in {"confirm", "recheck"} :
       /\ IF pc = "confirm" THEN Redeemable(l, "email_verification")
          ELSE ~Redeemable(l, "email_verification") \/ "read" \in Faults
       /\ req' = [req EXCEPT ![r] = [NoRequest(links[l].user) EXCEPT !.pc = pc, !.link = l]]
  /\ UNCHANGED <<account, sessions, links, caught, told>>
-----------------------------------------------------------------------------
(* Their later statements.                                                  *)

\* Mutant of ConsumeLinks: a link past its cooldown is taken for dead.
ConsumeFreshLinks(r) ==
  /\ req[r].pc = "consume"
  /\ links' = [l \in DOMAIN links |->
                 IF links[l].user = req[r].user /\ links[l].purpose = req[r].purpose
                      /\ links[l].state = "fresh"
                   THEN [links[l] EXCEPT !.state = "consumed"] ELSE links[l]]
  /\ req' = [req EXCEPT ![r].pc = "store", ![r].ended = Len(links)]
  /\ UNCHANGED <<account, sessions, caught, told>>

\* ConsumeUserAuthTokens; its error is dropped.
ConsumeLinks(r) ==
  /\ req[r].pc = "consume"
  /\ \/ /\ links' = [l \in DOMAIN links |->
                       IF links[l].user = req[r].user /\ links[l].purpose = req[r].purpose
                         THEN [links[l] EXCEPT !.state = "consumed"] ELSE links[l]]
        /\ req' = [req EXCEPT ![r].pc = "store", ![r].ended = Len(links)]
     \/ "consume" \in Faults /\ Goto(r, "store") /\ UNCHANGED links
  /\ UNCHANGED <<account, sessions, caught, told>>

\* CreateAuthToken and the mail; an error is logged and the request goes on.
StoreLink(r) ==
  /\ req[r].pc = "store"
  /\ \/ /\ LinkFits
        /\ links' = Append(links, [user |-> req[r].user, purpose |-> req[r].purpose,
                                   state |-> "fresh", used |-> 0, ended |-> req[r].ended])
     \/ "store" \in Faults /\ UNCHANGED links
  /\ IF req[r].then = "open" THEN Goto(r, "open") ELSE Finish(r)
  /\ UNCHANGED <<account, sessions, caught, told>>

\* startSession for a login: the answer carries the token.
OpenSession(r) ==
  /\ req[r].pc = "open" /\ req[r].of = 0 /\ SessionFits
  /\ sessions' = Append(sessions,
       [user |-> req[r].user, state |-> "live", next |-> 0, login |-> Len(sessions) + 1,
        password |-> req[r].password, given |-> TRUE])
  /\ Finish(r)
  /\ UNCHANGED <<account, links, caught, told>>

\* startSession for a refresh: nobody has the new token yet.
OpenNext(r) ==
  /\ req[r].pc = "open" /\ req[r].of # 0 /\ SessionFits
  /\ sessions' = Append(sessions,
       [sessions[req[r].of] EXCEPT !.state = "live", !.next = 0, !.given = FALSE])
  /\ req' = [req EXCEPT ![r].pc = "rotate", ![r].new = Len(sessions) + 1]
  /\ UNCHANGED <<account, links, caught, told>>

\* Mutant of Rotate: the link is drawn on the new row, and the old one stays.
RotateNew(r) ==
  /\ req[r].pc = "rotate"
  /\ sessions' = [sessions EXCEPT ![req[r].new].given = TRUE]
  /\ Finish(r)
  /\ UNCHANGED <<account, links, caught, told>>

\* Refresh: RevokeSession with replaced_by, a no-op on a revoked row; then the answer,
\* which may be lost.
Rotate(r) ==
  /\ req[r].pc = "rotate"
  /\ \E given \in BOOLEAN :
       LET k == req[r].of  n == req[r].new IN
       sessions' = [s \in DOMAIN sessions |->
         CASE s = n -> [sessions[s] EXCEPT !.given = given]
           [] s = k /\ sessions[k].state # "revoked" ->
                [sessions[s] EXCEPT !.state = "revoked", !.next = n]
           [] OTHER -> sessions[s]]
  /\ Finish(r)
  /\ UNCHANGED <<account, links, caught, told>>

\* RevokeSession of a logout, or of an expired session.
Drop(r) ==
  /\ req[r].pc = "drop"
  /\ sessions' = Revoked({req[r].of})
  /\ Finish(r)
  /\ UNCHANGED <<account, links, caught, told>>

\* Mutant of Sweep: only the session after the presented one is revoked.
SweepNext(r) ==
  /\ req[r].pc = "sweep"
  /\ sessions' = Revoked({sessions[req[r].of].next})
  /\ caught' = caught \cup {sessions[req[r].of].login}
  /\ Finish(r)
  /\ UNCHANGED <<account, links, told>>

\* RevokeAllUserSessions on a token used again.
Sweep(r) ==
  /\ req[r].pc = "sweep"
  /\ sessions' = Revoked(OfUser(req[r].user))
  /\ caught' = caught \cup {sessions[req[r].of].login}
  /\ Finish(r)
  /\ UNCHANGED <<account, links, told>>

\* Mutant of Redeem: the link is left as it is.
RedeemOnly(r) ==
  /\ req[r].pc = "redeem"
  /\ LET l == req[r].link IN
     /\ account' = [account EXCEPT ![req[r].user].password = @ + 1]
     /\ links' = [links EXCEPT ![l].used = @ + 1]
  /\ sessions' = Revoked(OfUser(req[r].user))
  /\ Finish(r)
  /\ UNCHANGED <<caught, told>>

\* Mutant of Redeem: the sessions are left alone.
RedeemKeepingSessions(r) ==
  /\ req[r].pc = "redeem"
  /\ LET l == req[r].link IN
     /\ account' = [account EXCEPT ![req[r].user].password = @ + 1]
     /\ links' = [links EXCEPT ![l].state = "consumed", ![l].used = @ + 1]
  /\ Finish(r)
  /\ UNCHANGED <<sessions, caught, told>>

\* The reset transaction: password, link and sessions together.
Redeem(r) ==
  /\ req[r].pc = "redeem"
  /\ LET l == req[r].link IN
     /\ account' = [account EXCEPT ![req[r].user].password = @ + 1]
     /\ links' = [links EXCEPT ![l].state = "consumed", ![l].used = @ + 1]
  /\ sessions' = Revoked(OfUser(req[r].user))
  /\ Finish(r)
  /\ UNCHANGED <<caught, told>>

\* The confirmation transaction.
Confirm(r) ==
  /\ req[r].pc = "confirm"
  /\ account' = [account EXCEPT ![req[r].user].verified = TRUE]
  /\ links' = [links EXCEPT ![req[r].link].state = "consumed", ![req[r].link].used = @ + 1]
  /\ told' = told \cup {req[r].user}
  /\ Finish(r)
  /\ UNCHANGED <<sessions, caught>>

\* Mutant of Recheck: a known link is answered with yes.
RecheckKnown(r) ==
  /\ req[r].pc = "recheck"
  /\ told' = told \cup {req[r].user}
  /\ Finish(r)
  /\ UNCHANGED <<account, sessions, links, caught>>

\* A dead link: the answer is yes when the account is verified all the same.
Recheck(r) ==
  /\ req[r].pc = "recheck"
  /\ told' = IF account[req[r].user].verified THEN told \cup {req[r].user} ELSE told
  /\ Finish(r)
  /\ UNCHANGED <<account, sessions, links, caught>>

\* The request is given up, or its process dies: after a statement whose error
\* is not dropped, or anywhere else.
Dies(r) ==
  /\ Busy(r)
  /\ Finish(r)
  /\ UNCHANGED <<account, sessions, links, caught, told>>
-----------------------------------------------------------------------------
(* Time.                                                                    *)

Lapse(k) ==
  /\ sessions[k].state = "live"
  /\ sessions' = [sessions EXCEPT ![k].state = "expired"]
  /\ UNCHANGED <<account, links, req, caught, told>>

AgeLink(l) ==
  /\ links[l].state \in {"fresh", "ripe"}
  /\ links' = [links EXCEPT ![l].state = IF @ = "fresh" THEN "ripe" ELSE "expired"]
  /\ UNCHANGED <<account, sessions, req, caught, told>>

Next ==
  \/ \E r \in Requests :
       \/ \E u \in Users : \/ Register(r, u) \/ Login(r, u)
                           \/ \E purpose \in Purposes : RequestLink(r, u, purpose)
       \/ \E k \in DOMAIN sessions : Refresh(r, k) \/ Logout(r, k)
       \/ \E l \in DOMAIN links : ResetPassword(r, l) \/ VerifyEmail(r, l)
       \/ ConsumeLinks(r) \/ StoreLink(r)
       \/ OpenSession(r) \/ OpenNext(r)
       \/ Rotate(r) \/ Drop(r) \/ Sweep(r)
       \/ Redeem(r) \/ Confirm(r) \/ Recheck(r) \/ Dies(r)
  \/ \E k \in DOMAIN sessions : Lapse(k)
  \/ \E l \in DOMAIN links : AgeLink(l)

Spec == Init /\ [][Next]_vars
-----------------------------------------------------------------------------
Usable(s) == sessions[s].state = "live" /\ sessions[s].given

\* Refresh: of one login at most one token works at a time, whatever fails in
\* between and whatever other logins, resets and logouts do.
OneUsableTokenPerLogin ==
  \A s, t \in DOMAIN sessions :
    /\ sessions[s].login = sessions[t].login
    /\ Usable(s) /\ Usable(t)
    => s = t

\* Refresh: once a token of a login was seen again and the sessions were swept,
\* no session of that login works, and none comes back.
ReuseEndsTheChain ==
  \A s \in DOMAIN sessions : sessions[s].login \in caught => sessions[s].state = "revoked"

\* auth.sql: "so only the newest link works", as far as two statements without a
\* transaction can keep it: an older link that works beside a newer one was stored
\* after the newer one's request had consumed, or that UPDATE failed.
OnlyUnseenLinksStay ==
  \A l, m \in DOMAIN links :
    /\ Redeemable(l, links[l].purpose)
    /\ links[m].user = links[l].user /\ links[m].purpose = links[l].purpose
    => l >= m \/ l > links[m].ended

Redeeming(l) == {r \in Requests : req[r].pc \in {"redeem", "confirm"} /\ req[r].link = l}

\* A mailed link is single-use, as far as the reading of it outside the transaction
\* can keep it: it is redeemed by its first user and by requests that were already
\* under way by then, so never more often than requests run at once.
LinkEndsWithItsUse ==
  \A l \in DOMAIN links :
    links[l].used > 0 => links[l].used + Cardinality(Redeeming(l)) <= Cardinality(Requests)

\* VerifyEmail answers yes only about a verified address: also when the link was
\* dead, consumed by a later one rather than by an earlier confirmation.
ToldIsVerified == \A u \in told : account[u].verified

Outlived(u) == {sessions[s].login : s \in {t \in OfUser(u) :
                  sessions[t].state = "live" /\ sessions[t].password # account[u].password}}

\* However many logins an account has, a reset ends them all but those whose next
\* session another request was about to store: fewer than requests run at once,
\* and no refresh multiplies them.
ResetEndsSettledLogins == \A u \in Users : Cardinality(Outlived(u)) < Cardinality(Requests)
-----------------------------------------------------------------------------
(* Claims of the sources that the code breaks.                              *)

\* auth.sql, without exception: "so only the newest link works".
OnlyNewestLinkWorks ==
  \A l, m \in DOMAIN links :
    Redeemable(l, links[l].purpose) /\ links[m].user = links[l].user
      /\ links[m].purpose = links[l].purpose => m <= l

\* A mailed link is good for one redemption, also when two requests present it.
LinkWorksOnce == \A l \in DOMAIN links : links[l].used <= 1

\* openapi.yaml on a reset: "every session for the account is revoked, so the user
\* must sign in again everywhere": a session that works belongs to a login with
\* the password of today.
ResetEndsOlderSessions ==
  \A s \in DOMAIN sessions :
    sessions[s].state = "live" => sessions[s].password = account[sessions[s].user].password
==============================================================================
