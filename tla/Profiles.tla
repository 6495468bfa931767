------------------------------ MODULE Profiles ------------------------------
(***************************************************************************)
(* Teacher profiles: what their owners write (internal/teachers) and what  *)
(* moderators decide about them (internal/admin).                          *)
(*                                                                         *)
(* Every request reads in statements of their own, outside the transaction *)
(* that writes, and no write looks at what was read: a profile is created  *)
(* after a check that the account has none, an edit is merged onto an      *)
(* earlier reading and writes every scalar field, a moderator's decision   *)
(* is allowed on an earlier status.  The profiles are named by their       *)
(* slugs.  The moderation note is left out: it is written with the status, *)
(* and there is one exactly when that is "rejected" or "suspended".        *)
(***************************************************************************)
EXTENDS Integers, FiniteSets

CONSTANTS
  Requests,  \* bound: how many requests are under way at once
  Accounts,
  None,      \* no account, no slug: the seed has profiles that nobody has claimed
  Slugs,     \* bound: the slugs there are
  Scalars,   \* fields of the row, all written by every edit
  Lists,     \* the child collections, replaced only when they are given
  Values

ASSUME ProfilesAssumption == Values # {} /\ IsFiniteSet(Requests) /\ Requests # {}

VARIABLES
  profile,   \* the rows of teachers, with their child rows
  request    \* what each request has read and will write

vars == <<profile, request>>

Fields == Scalars \cup Lists
Statuses == {"pending", "approved", "rejected", "suspended"}

\* The lifecycle of migrations/000009.
Lifecycle ==
  {<<"pending", "approved">>, <<"pending", "rejected">>, <<"approved", "suspended">>,
   <<"rejected", "approved">>, <<"suspended", "approved">>}

Profile ==
  [owner : Accounts \cup {None}, status : Statuses \cup {"none"}, verified : BOOLEAN,
   has : [Fields -> Values]]

\* A patch has the fields that were given.
Patches == UNION {[given -> Values] : given \in SUBSET Fields}

\* read is what the request has read of the row, late: another request has written since
\* what it read.
Request ==
  [pc : {"idle", "checked", "named", "owned", "merged", "decided"},
   by : Accounts \cup {None}, slug : Slugs \cup {None}, to : Statuses, patch : Patches,
   read : [Scalars -> Values], late : BOOLEAN]

TypeOK ==
  /\ profile \in [Slugs -> Profile]
  /\ request \in [Requests -> Request]

Blank == CHOOSE v \in Values : TRUE
NoPatch == [f \in {} |-> Blank]

At(pc, a, s) ==
  [pc |-> pc, by |-> a, slug |-> s, to |-> "pending", patch |-> NoPatch,
   read |-> [f \in Scalars |-> Blank], late |-> FALSE]

Idle == At("idle", None, None)

Row(a, status, has) ==
  [owner |-> a, status |-> status, verified |-> FALSE, has |-> has]
NoRow == Row(None, "none", [f \in Fields |-> Blank])

\* No profiles, or one of the seed.
Init ==
  /\ \/ profile = [s \in Slugs |-> NoRow]
     \/ \E s \in Slugs, a \in Accounts \cup {None} :
          profile = [[t \in Slugs |-> NoRow] EXCEPT ![s] = Row(a, "approved", [f \in Fields |-> Blank])]
  /\ request = [q \in Requests |-> Idle]

There(s) == profile[s].status # "none"
Owned(a) == {s \in Slugs : There(s) /\ profile[s].owner = a}
Reading(s) == [f \in Scalars |-> profile[s].has[f]]

\* q has written the row: whoever else is at pc has read what is no longer so.
Overtaking(q, pc, s) ==
  [p \in Requests |->
     CASE p = q -> Idle
       [] p # q /\ request[p].pc = pc /\ request[p].slug = s -> [request[p] EXCEPT !.late = TRUE]
       [] OTHER -> request[p]]
-----------------------------------------------------------------------------
\* Mutant of Check: the account is not asked for the profile it has.
CheckNothing(q, a) ==
  /\ request[q].pc = "idle"
  /\ request' = [request EXCEPT ![q] = At("checked", a, None)]
  /\ UNCHANGED profile

\* Create, up to RefByOwner: the account has no profile.
Check(q, a) ==
  /\ request[q].pc = "idle" /\ Owned(a) = {}
  /\ request' = [request EXCEPT ![q] = At("checked", a, None)]
  /\ UNCHANGED profile

\* freeSlug.
Name(q, s) ==
  /\ request[q].pc = "checked" /\ ~There(s)
  /\ request' = [request EXCEPT ![q].pc = "named", ![q].slug = s]
  /\ UNCHANGED profile

\* The insert.  The slug is unique, the owner is not.
Insert(q, has) ==
  LET a == request[q].by  s == request[q].slug IN
  /\ request[q].pc = "named" /\ ~There(s)
  /\ profile' = [profile EXCEPT ![s] = Row(a, "pending", has)]
  /\ request' = [request EXCEPT ![q] = Idle]

\* Update, up to RefBySlug: the caller owns the profile.
Own(q, a, s, patch) ==
  /\ request[q].pc = "idle" /\ There(s) /\ profile[s].owner = a
  /\ request' = [request EXCEPT ![q] = [At("owned", None, s) EXCEPT !.patch = patch]]
  /\ UNCHANGED profile

\* Mutant of Merge: a field that is absent becomes blank.
MergeBlank(q) ==
  /\ request[q].pc = "owned"
  /\ request' = [request EXCEPT ![q].pc = "merged"]
  /\ UNCHANGED profile

\* GetBySlug and mergePatch.
Merge(q) ==
  /\ request[q].pc = "owned"
  /\ request' = [request EXCEPT ![q].pc = "merged", ![q].read = Reading(request[q].slug)]
  /\ UNCHANGED profile

\* The transaction of Update.  It holds the row from its first statement.
Save(q) ==
  LET s == request[q].slug  patch == request[q].patch  read == request[q].read IN
  /\ request[q].pc = "merged"
  /\ profile' = [profile EXCEPT ![s].has =
       [f \in Fields |-> CASE f \in DOMAIN patch -> patch[f]
                           [] f \in Scalars \ DOMAIN patch -> read[f]
                           [] OTHER -> @[f]]]
  /\ request' = Overtaking(q, "merged", s)

\* Mutant of Allowed: everything that is not the status already.
AllowedAnew(from, to) == from # to

\* The allow functions of Approve, Reject and Suspend.
Allowed(from, to) ==
  \/ to = "approved" /\ from \in {"pending", "rejected", "suspended"}
  \/ to = "rejected" /\ from = "pending"
  \/ to = "suspended" /\ from = "approved"

\* transition, up to GetModeration and allow.
Decide(q, s, to) ==
  /\ request[q].pc = "idle" /\ There(s) /\ Allowed(profile[s].status, to)
  /\ request' = [request EXCEPT ![q] = [At("decided", None, s) EXCEPT !.to = to]]
  /\ UNCHANGED profile

\* AdminSetTeacherStatus, whatever the status is by now.
SetStatus(q) ==
  LET s == request[q].slug IN
  /\ request[q].pc = "decided"
  /\ profile' = [profile EXCEPT ![s].status = request[q].to]
  /\ request' = Overtaking(q, "decided", s)

\* SetVerified: its reading only asks for the row, and a profile is never deleted.
SetVerified(s, v) ==
  /\ There(s)
  /\ profile' = [profile EXCEPT ![s].verified = v]
  /\ UNCHANGED request

\* Invalid, failed or lost: nothing is written.
Stop(q) ==
  /\ request[q].pc # "idle"
  /\ request' = [request EXCEPT ![q] = Idle]
  /\ UNCHANGED profile

Next ==
  \/ \E q \in Requests :
       \/ \E a \in Accounts : Check(q, a)
       \/ \E s \in Slugs : Name(q, s)
       \/ \E has \in [Fields -> Values] : Insert(q, has)
       \/ \E a \in Accounts, s \in Slugs, patch \in Patches : Own(q, a, s, patch)
       \/ Merge(q) \/ Save(q)
       \/ \E s \in Slugs, to \in Statuses : Decide(q, s, to)
       \/ SetStatus(q) \/ Stop(q)
  \/ \E s \in Slugs, v \in BOOLEAN : SetVerified(s, v)

Spec == Init /\ [][Next]_vars
-----------------------------------------------------------------------------
\* The creations of an account that have passed the check.
Creating(a) == {q \in Requests : request[q].pc \in {"checked", "named"} /\ request[q].by = a}

\* ErrProfileExists, where no constraint stands behind the check: an account gets no more
\* profiles than it had creations under way at once, and once it has one, no further creation
\* starts.  So a client that waits for its answers gets one.
ProfilesWithinOverlap ==
  \A a \in Accounts : Owned(a) # {} =>
    Cardinality(Owned(a)) + Cardinality(Creating(a)) <= Cardinality(Requests)

\* "One profile per user", as the comments of TeacherRefByOwner and ErrProfileExists
\* have it: the code does not keep it.
OneProfilePerAccount == \A a \in Accounts : Cardinality(Owned(a)) <= 1

\* The status moves along the lifecycle of migrations/000009, unless the decision was
\* taken on a status that another moderator has written since.
LifecycleUnlessOvertaken ==
  [][\A s \in Slugs :
       profile[s].status \notin {"none", profile'[s].status} =>
         \/ <<profile[s].status, profile'[s].status>> \in Lifecycle
         \/ \E q \in Requests : request[q].pc = "decided" /\ request[q].slug = s /\ request[q].late]_vars

\* ProfilePatch: "a nil pointer / slice means field absent, leave unchanged".  A field
\* only changes by an edit that was given it, or one another edit has overtaken - and
\* then never a child collection.
PatchTouchesOnlyItsFields ==
  [][\A s \in Slugs, f \in Fields :
       There(s) /\ profile'[s].has[f] # profile[s].has[f] =>
         \E q \in Requests :
           /\ request[q].pc = "merged" /\ request[q].slug = s
           /\ f \in DOMAIN request[q].patch \/ (f \in Scalars /\ request[q].late)]_vars
==============================================================================
