---------------------------- MODULE SessionsProofs ----------------------------
(* What holds of Sessions for any number of users, requests and rows.       *)
EXTENDS Sessions, SequenceTheorems, FiniteSetTheorems, TLAPS

LEMMA FunIsSeq ==
  ASSUME NEW S, NEW n \in Nat, NEW f \in [1..n -> S]
  PROVE  f \in Seq(S) /\ Len(f) = n /\ DOMAIN f = 1..n
  OBVIOUS

LEMMA SeqIsFun ==
  ASSUME NEW S, NEW q \in Seq(S)
  PROVE  /\ Len(q) \in Nat /\ DOMAIN q = 1..Len(q)
         /\ \A i \in 1..Len(q) : q[i] \in S
  OBVIOUS

LEMMA AppendIs ==
  ASSUME NEW S, NEW q \in Seq(S), NEW x \in S
  PROVE  /\ Append(q, x) \in Seq(S) /\ Len(Append(q, x)) = Len(q) + 1
         /\ \A i \in 1..Len(q) : Append(q, x)[i] = q[i]
         /\ Append(q, x)[Len(q) + 1] = x
  OBVIOUS
-----------------------------------------------------------------------------
\* What a request presented, and what was created for it, exists.
InOrder(q) ==
  /\ q.of <= Len(sessions) /\ q.new <= Len(sessions) /\ q.link <= Len(links)
  /\ q.pc \in {"drop", "sweep", "rotate"} => q.of # 0
  /\ q.pc = "rotate" => q.new # 0
  /\ q.pc \in {"redeem", "confirm"} => q.link # 0
  /\ q.pc \in {"idle", "consume", "store"} => q.of = 0
  /\ q.then = "open" => q.of = 0

RefsOK == \A r \in Requests : InOrder(req[r])

\* TypeOK without the requests.
RowsOK ==
  /\ account \in [Users -> Account]
  /\ sessions \in Seq(Session) /\ Len(sessions) <= MaxSessions
  /\ links \in Seq(Link) /\ Len(links) <= MaxLinks
  /\ caught \subseteq 1..MaxSessions
  /\ told \subseteq Users

Typed == TypeOK /\ RefsOK

\* The bounds of the model are natural numbers, and TypeOK is about functions
\* over ranges of them: what the steps below need of both.
LEMMA Facts ==
  ASSUME TypeOK
  PROVE  /\ MaxSessions \in Nat /\ MaxLinks \in Nat
         /\ Len(sessions) \in 0..MaxSessions /\ DOMAIN sessions = 1..Len(sessions)
         /\ \A s \in 1..Len(sessions) : sessions[s] \in Session
         /\ Len(links) \in 0..MaxLinks /\ DOMAIN links = 1..Len(links)
         /\ \A l \in 1..Len(links) : links[l] \in Link
  <1>1. sessions \in Seq(Session) /\ links \in Seq(Link)
    BY DEF TypeOK
  <1> QED BY <1>1, SeqIsFun, SessionsAssumption DEF TypeOK

\* What the request records of a state with Typed refer to.
LEMMA Referred ==
  ASSUME Typed
  PROVE  /\ TypeOK /\ DOMAIN sessions = 1..Len(sessions) /\ Len(sessions) \in Nat
         /\ DOMAIN links = 1..Len(links) /\ Len(links) \in Nat
         /\ \A p \in Requests :
              /\ req[p].user \in Users
              /\ req[p].of \in 0..Len(sessions) /\ req[p].new \in 0..Len(sessions)
              /\ req[p].link \in 0..Len(links)
              /\ req[p].pc = "rotate" => req[p].new # 0
              /\ req[p].pc \in {"idle", "consume", "store"} => req[p].of = 0
              /\ req[p].pc \in {"drop", "sweep", "rotate"} => req[p].of # 0
              /\ req[p].pc \in {"redeem", "confirm"} => req[p].link # 0 /\ req[p].link \in DOMAIN links
              /\ req[p].then = "open" => req[p].of = 0
  <1>1. TypeOK /\ \A p \in Requests : req[p] \in Request
    BY DEF Typed, TypeOK
  <1>2. /\ DOMAIN sessions = 1..Len(sessions) /\ Len(sessions) \in Nat
        /\ DOMAIN links = 1..Len(links) /\ Len(links) \in Nat
        /\ MaxSessions \in Nat /\ MaxLinks \in Nat
    BY <1>1, Facts
  <1>3. ASSUME NEW p \in Requests
        PROVE  /\ req[p].user \in Users
               /\ req[p].of \in 0..MaxSessions /\ req[p].new \in 0..MaxSessions
               /\ req[p].link \in 0..MaxLinks
    BY <1>1 DEF Request
  <1>4. \A p \in Requests : InOrder(req[p])
    BY DEF Typed, RefsOK
  <1>5. ASSUME NEW p \in Requests
        PROVE  /\ req[p].of \in 0..Len(sessions) /\ req[p].new \in 0..Len(sessions)
               /\ req[p].link \in 0..Len(links)
               /\ req[p].pc \in {"redeem", "confirm"} => req[p].link # 0 /\ req[p].link \in DOMAIN links
    BY <1>2, <1>3, <1>4 DEF InOrder
  <1> QED BY <1>1, <1>2, <1>3, <1>4, <1>5 DEF InOrder

LEMMA RevokedIs ==
  ASSUME TypeOK, NEW set
  PROVE  /\ Revoked(set) \in Seq(Session) /\ Len(Revoked(set)) = Len(sessions)
         /\ DOMAIN Revoked(set) = 1..Len(sessions)
         /\ \A s \in 1..Len(sessions) :
              Revoked(set)[s] = IF s \in set THEN [sessions[s] EXCEPT !.state = "revoked"]
                                             ELSE sessions[s]
  <1>1. Revoked(set) \in [1..Len(sessions) -> Session]
    BY Facts DEF Revoked, Session, SessionStates
  <1> QED BY <1>1, FunIsSeq, Facts DEF Revoked

LEMMA NoRequestIs ==
  ASSUME NEW u \in Users
  PROVE  NoRequest(u) \in Request
  BY SessionsAssumption DEF NoRequest, Request, Pcs, Purposes

THEOREM TypedInit == Init => Typed
  <1> SUFFICES ASSUME Init PROVE Typed
    OBVIOUS
  <1>1. account \in [Users -> Account] /\ caught \subseteq 1..MaxSessions /\ told \subseteq Users
    BY SessionsAssumption DEF Init, Account
  <1>2. sessions \in Seq(Session) /\ links \in Seq(Link) /\ Len(sessions) = 0 /\ Len(links) = 0
    BY DEF Init
  <1>3. PICK u \in Users : req = [r \in Requests |-> NoRequest(u)]
    BY DEF Init
  <1>4. req \in [Requests -> Request]
    BY <1>3, NoRequestIs
  <1>5. RefsOK
    BY <1>2, <1>3 DEF RefsOK, InOrder, NoRequest
  <1> QED BY <1>1, <1>2, <1>4, <1>5, SessionsAssumption DEF Typed, TypeOK

\* A step that moves one request keeps the types when it loses no row and the
\* request it leaves behind is in order.
LEMMA TypedReq ==
  ASSUME Typed, NEW r \in Requests, NEW q \in Request,
         req' = [req EXCEPT ![r] = q], InOrder(q)', RowsOK',
         Len(sessions) <= Len(sessions'), Len(links) <= Len(links')
  PROVE  Typed'
  <1>1. req' \in [Requests -> Request] /\ req'[r] = q /\ \A p \in Requests \ {r} : req'[p] = req[p]
    BY DEF Typed, TypeOK
  <1>2. Len(sessions) \in Nat /\ Len(links) \in Nat /\ Len(sessions') \in Nat /\ Len(links') \in Nat
    BY SeqIsFun DEF Typed, TypeOK, RowsOK
  <1>3. \A p \in Requests : req[p].of \in Nat /\ req[p].new \in Nat /\ req[p].link \in Nat
    <2>1. \A p \in Requests : /\ req[p].of \in 0..Len(sessions) /\ req[p].new \in 0..Len(sessions)
                              /\ req[p].link \in 0..Len(links)
      BY Referred
    <2> QED BY <1>2, <2>1
  <1>4. \A p \in Requests \ {r} : InOrder(req[p])'
    BY <1>1, <1>2, <1>3 DEF Typed, RefsOK, InOrder
  <1>5. RefsOK'
    BY <1>1, <1>4 DEF RefsOK
  <1> QED BY <1>1, <1>5 DEF Typed, TypeOK, RowsOK

LEMMA FinishTyped ==
  ASSUME Typed, NEW r \in Requests, Finish(r), RowsOK',
         Len(sessions) <= Len(sessions'), Len(links) <= Len(links')
  PROVE  Typed'
  <1>1. NoRequest(req[r].user) \in Request
    BY NoRequestIs DEF Typed, TypeOK, Request
  <1>2. PICK q \in Request : q = NoRequest(req[r].user)
    BY <1>1
  <1>3. req' = [req EXCEPT ![r] = q]
    BY <1>2 DEF Finish, Typed, TypeOK
  <1>4. Len(sessions') \in Nat /\ Len(links') \in Nat
    BY SeqIsFun DEF RowsOK
  <1>5. InOrder(q)'
    BY <1>2, <1>4 DEF NoRequest, InOrder
  <1> QED BY <1>3, <1>5, TypedReq

\* The rows of a step that leaves them alone.
LEMMA SameRows ==
  ASSUME Typed, UNCHANGED <<account, sessions, links, caught, told>>
  PROVE  RowsOK' /\ Len(sessions) <= Len(sessions') /\ Len(links) <= Len(links')
  BY Facts DEF Typed, TypeOK, RowsOK

THEOREM TypedNext == Typed /\ [Next]_vars => Typed'
  <1> SUFFICES ASSUME Typed, [Next]_vars PROVE Typed'
    OBVIOUS
  <1> USE SessionsAssumption
  <1>0. /\ TypeOK /\ Len(sessions) \in Nat /\ Len(links) \in Nat
        /\ MaxSessions \in Nat /\ MaxLinks \in Nat /\ 0 \in 0..MaxSessions /\ 0 \in 0..MaxLinks
    BY Facts DEF Typed
  <1>1. ASSUME NEW r \in Requests, NEW u \in Users, Register(r, u) PROVE Typed'
    <2>1. PICK q : q = [NoRequest(u) EXCEPT !.pc = "consume", !.purpose = "email_verification",
                                            !.then = "open",
                                            !.password = account[u].password]
      OBVIOUS
    <2>9. PICK z \in Request : z = NoRequest(u)
      BY NoRequestIs
    <2>2. q \in Request /\ InOrder(q)'
      <3>1. q \in Request
        BY <1>0, <1>1, <2>1, <2>9 DEF Register, Request, Pcs, Purposes, TypeOK, Account
      <3>2. InOrder(q)'
        BY <1>0, <1>1, <2>1 DEF Register, NoRequest, InOrder, TypeOK, Account
      <3> QED BY <3>1, <3>2
    <2>3. RowsOK' /\ Len(sessions) <= Len(sessions') /\ Len(links) <= Len(links')
      <3>1. account' \in [Users -> Account]
        BY <1>0, <1>1 DEF Register, TypeOK, Account
      <3> QED BY <1>0, <1>1, <3>1 DEF Register, RowsOK, TypeOK
    <2>4. req' = [req EXCEPT ![r] = q]
      BY <1>1, <2>1 DEF Register
    <2> QED BY <2>2, <2>3, <2>4, TypedReq
  <1>2. ASSUME NEW r \in Requests, NEW u \in Users, Login(r, u) PROVE Typed'
    <2>1. PICK q : q = [NoRequest(u) EXCEPT !.pc = "open", !.password = account[u].password]
      OBVIOUS
    <2>9. PICK z \in Request : z = NoRequest(u)
      BY NoRequestIs
    <2>2. q \in Request /\ InOrder(q)'
      <3>1. q \in Request
        BY <1>0, <1>2, <2>1, <2>9 DEF Login, Request, Pcs, Purposes, TypeOK, Account
      <3>2. InOrder(q)'
        BY <1>0, <1>2, <2>1 DEF Login, NoRequest, InOrder, TypeOK, Account
      <3> QED BY <3>1, <3>2
    <2>3. req' = [req EXCEPT ![r] = q]
      BY <1>2, <2>1 DEF Login
    <2> QED BY <1>2, <2>2, <2>3, TypedReq, SameRows DEF Login
  <1>3. ASSUME NEW r \in Requests, NEW u \in Users, NEW purpose \in Purposes, RequestLink(r, u, purpose) PROVE Typed'
    <2>1. PICK q : q = [NoRequest(u) EXCEPT !.pc = "consume", !.purpose = purpose]
      OBVIOUS
    <2>9. PICK z \in Request : z = NoRequest(u)
      BY NoRequestIs
    <2>2. q \in Request /\ InOrder(q)'
      <3>1. q \in Request
        BY <1>0, <1>3, <2>1, <2>9 DEF RequestLink, Request, Pcs, Purposes
      <3>2. InOrder(q)'
        BY <1>0, <1>3, <2>1 DEF RequestLink, NoRequest, InOrder
      <3> QED BY <3>1, <3>2
    <2>3. req' = [req EXCEPT ![r] = q]
      BY <1>3, <2>1 DEF RequestLink
    <2> QED BY <1>3, <2>2, <2>3, TypedReq, SameRows DEF RequestLink
  <1>4. ASSUME NEW r \in Requests, NEW k \in DOMAIN sessions, Refresh(r, k) \/ Logout(r, k) PROVE Typed'
    <2>1. k \in 1..Len(sessions) /\ k \in 0..MaxSessions /\ sessions[k].user \in Users
          /\ sessions[k].state \in SessionStates
      BY <1>0, Facts DEF Session
    <2>2. PICK pc \in {"sweep", "drop", "open"} :
            /\ req' = [req EXCEPT ![r] = [NoRequest(sessions[k].user) EXCEPT !.pc = pc, !.of = k]]
            /\ UNCHANGED <<account, sessions, links, caught, told>>
      BY <1>4, <2>1 DEF Refresh, Logout, SessionStates
    <2>3. PICK q : q = [NoRequest(sessions[k].user) EXCEPT !.pc = pc, !.of = k]
      OBVIOUS
    <2>9. PICK z \in Request : z = NoRequest(sessions[k].user)
      BY <2>1, NoRequestIs
    <2>4. q \in Request /\ InOrder(q)'
      <3>1. q \in Request
        BY <1>0, <2>1, <2>2, <2>3, <2>9 DEF Request, Pcs
      <3>2. InOrder(q)'
        BY <1>0, <2>1, <2>2, <2>3, Facts DEF NoRequest, InOrder
      <3> QED BY <3>1, <3>2
    <2> QED BY <2>2, <2>3, <2>4, TypedReq, SameRows
  <1>5. ASSUME NEW r \in Requests, NEW l \in DOMAIN links, ResetPassword(r, l) \/ VerifyEmail(r, l) PROVE Typed'
    <2>1. l \in 1..Len(links) /\ l \in 0..MaxLinks /\ links[l].user \in Users
      BY <1>0, Facts DEF Link
    <2>2. PICK pc \in {"redeem", "confirm", "recheck"} :
            /\ req' = [req EXCEPT ![r] = [NoRequest(links[l].user) EXCEPT !.pc = pc, !.link = l]]
            /\ UNCHANGED <<account, sessions, links, caught, told>>
      BY <1>5, <2>1 DEF ResetPassword, VerifyEmail
    <2>3. PICK q : q = [NoRequest(links[l].user) EXCEPT !.pc = pc, !.link = l]
      OBVIOUS
    <2>9. PICK z \in Request : z = NoRequest(links[l].user)
      BY <2>1, NoRequestIs
    <2>4. q \in Request /\ InOrder(q)'
      <3>1. q \in Request
        BY <1>0, <2>1, <2>2, <2>3, <2>9 DEF Request, Pcs
      <3>2. InOrder(q)'
        BY <1>0, <2>1, <2>2, <2>3, Facts DEF NoRequest, InOrder
      <3> QED BY <3>1, <3>2
    <2> QED BY <2>2, <2>3, <2>4, TypedReq, SameRows
  <1>6. ASSUME NEW r \in Requests, ConsumeLinks(r) PROVE Typed'
    <2>7. Len(links) \in 0..MaxLinks
      BY <1>0 DEF TypeOK
    <2>1. PICK q \in Request : /\ req' = [req EXCEPT ![r] = q]
                              /\ \/ q = [req[r] EXCEPT !.pc = "store", !.ended = Len(links)]
                                 \/ q = [req[r] EXCEPT !.pc = "store"]
      <3>1. [req[r] EXCEPT !.pc = "store"] \in Request
            /\ [req[r] EXCEPT !.pc = "store", !.ended = Len(links)] \in Request
        BY <1>0, <2>7 DEF TypeOK, Request, Pcs
      <3> QED BY <1>0, <1>6, <3>1 DEF ConsumeLinks, Goto, TypeOK
    <2>2. req' = [req EXCEPT ![r] = q]
      BY <2>1
    <2>3. links' \in Seq(Link) /\ Len(links') = Len(links)
      <3>1. CASE UNCHANGED links
        BY <1>0, <3>1 DEF TypeOK
      <3>2. CASE links' = [l \in DOMAIN links |->
                             IF links[l].user = req[r].user /\ links[l].purpose = req[r].purpose
                               THEN [links[l] EXCEPT !.state = "consumed"] ELSE links[l]]
        <4>1. links' \in [1..Len(links) -> Link]
          BY <1>0, <3>2, Facts DEF Link, LinkStates
        <4> QED BY <4>1, <1>0, FunIsSeq
      <3> QED BY <1>6, <3>1, <3>2 DEF ConsumeLinks
    <2>4. RowsOK'
      BY <1>0, <1>6, <2>3 DEF ConsumeLinks, TypeOK, RowsOK
    <2>5. InOrder(q)'
      <3>1. InOrder(req[r]) /\ req[r].pc = "consume" /\ req[r] \in Request
        BY <1>0, <1>6 DEF ConsumeLinks, Typed, RefsOK, TypeOK
      <3>2. /\ q.pc = "store" /\ q.of = req[r].of /\ q.new = req[r].new /\ q.link = req[r].link
            /\ q.then = req[r].then
        BY <2>1, <3>1 DEF Request
      <3>3. UNCHANGED sessions
        BY <1>6 DEF ConsumeLinks
      <3> QED BY <2>3, <3>1, <3>2, <3>3 DEF InOrder
    <2>6. Len(sessions) <= Len(sessions') /\ Len(links) <= Len(links')
      BY <1>0, <1>6, <2>3 DEF ConsumeLinks
    <2> QED BY <2>2, <2>4, <2>5, <2>6, TypedReq
  <1>7. ASSUME NEW r \in Requests, StoreLink(r) PROVE Typed'
    <2>1. links' \in Seq(Link) /\ Len(links') <= MaxLinks /\ Len(links) <= Len(links')
      <3>1. CASE UNCHANGED links
        BY <1>0, <3>1 DEF TypeOK
      <3>2. CASE /\ LinkFits
                 /\ links' = Append(links, [user |-> req[r].user, purpose |-> req[r].purpose,
                                            state |-> "fresh", used |-> 0, ended |-> req[r].ended])
        <4>1. PICK x \in Link : x = [user |-> req[r].user, purpose |-> req[r].purpose,
                                     state |-> "fresh", used |-> 0, ended |-> req[r].ended]
          BY <1>0 DEF TypeOK, Request, Link, LinkStates
        <4> QED BY <1>0, <3>2, <4>1, AppendIs DEF TypeOK, LinkFits
      <3> QED BY <1>7, <3>1, <3>2 DEF StoreLink
    <2>2. RowsOK' /\ Len(sessions) <= Len(sessions')
      BY <1>0, <1>7, <2>1 DEF StoreLink, TypeOK, RowsOK
    <2>3. CASE req[r].then # "open"
      BY <1>7, <2>1, <2>2, <2>3, FinishTyped DEF StoreLink
    <2>4. CASE req[r].then = "open"
      <3>1. PICK q \in Request : q = [req[r] EXCEPT !.pc = "open"]
        BY <1>0 DEF TypeOK, Request, Pcs
      <3>2. req' = [req EXCEPT ![r] = q]
        BY <1>0, <1>7, <2>4, <3>1 DEF StoreLink, Goto, TypeOK
      <3>3. req[r].link <= Len(links) /\ req[r].link \in Nat /\ Len(links') \in Nat
        BY <1>0, <2>1, SeqIsFun DEF Typed, RefsOK, InOrder, TypeOK, Request
      <3>4. InOrder(q)'
        BY <1>0, <1>7, <2>1, <3>1, <3>3 DEF StoreLink, Typed, RefsOK, InOrder
      <3> QED BY <2>1, <2>2, <3>2, <3>4, TypedReq
    <2> QED BY <2>3, <2>4
  <1>8. ASSUME NEW r \in Requests, OpenSession(r) PROVE Typed'
    <2>1. PICK x \in Session :
            x = [user |-> req[r].user, state |-> "live", next |-> 0, login |-> Len(sessions) + 1,
                 password |-> req[r].password, given |-> TRUE]
      <3>1. req[r] \in Request /\ Len(sessions) + 1 \in 1..MaxSessions
        <4>1. Len(sessions) < MaxSessions
          BY <1>8 DEF OpenSession, SessionFits
        <4> QED BY <1>0, <4>1 DEF TypeOK
      <3> QED BY <1>0, <3>1 DEF Request, Session, SessionStates
    <2>2. sessions' = Append(sessions, x) /\ Len(sessions) < MaxSessions
      BY <1>8, <2>1 DEF OpenSession, SessionFits
    <2>3. sessions' \in Seq(Session) /\ Len(sessions') <= MaxSessions /\ Len(sessions) <= Len(sessions')
      BY <1>0, <2>2, AppendIs DEF TypeOK
    <2>4. RowsOK' /\ Len(links) <= Len(links') /\ Finish(r)
      BY <1>0, <1>8, <2>3 DEF OpenSession, TypeOK, RowsOK
    <2> QED BY <2>3, <2>4, FinishTyped
  <1>9. ASSUME NEW r \in Requests, OpenNext(r) PROVE Typed'
    <2>1. req[r].of \in 1..Len(sessions)
      BY <1>0, <1>9 DEF OpenNext, Typed, RefsOK, InOrder, TypeOK, Request
    <2>2. PICK x \in Session :
            x = [sessions[req[r].of] EXCEPT !.state = "live", !.next = 0, !.given = FALSE]
      <3>1. sessions[req[r].of] \in Session
        BY <1>0, <2>1, Facts
      <3> QED BY <1>0, <3>1 DEF Session, SessionStates
    <2>3. sessions' = Append(sessions, x) /\ Len(sessions) < MaxSessions
      BY <1>9, <2>2 DEF OpenNext, SessionFits
    <2>4. sessions' \in Seq(Session) /\ Len(sessions') = Len(sessions) + 1
      BY <1>0, <2>3, AppendIs DEF TypeOK
    <2>5. PICK q \in Request : q = [req[r] EXCEPT !.pc = "rotate", !.new = Len(sessions) + 1]
      <3>1. req[r] \in Request /\ Len(sessions) + 1 \in 0..MaxSessions
        BY <1>0, <2>3 DEF TypeOK
      <3> QED BY <3>1 DEF Request, Pcs
    <2>6. req' = [req EXCEPT ![r] = q]
      BY <1>0, <1>9, <2>5 DEF OpenNext, TypeOK
    <2>7. RowsOK' /\ Len(links) <= Len(links')
      BY <1>0, <1>9, <2>3, <2>4 DEF OpenNext, TypeOK, RowsOK
    <2>8. InOrder(q)'
      <3>1. InOrder(req[r]) /\ req[r] \in Request /\ req[r].pc = "open" /\ req[r].of # 0
        BY <1>0, <1>9 DEF OpenNext, Typed, RefsOK, TypeOK
      <3>2. /\ q.pc = "rotate" /\ q.of = req[r].of /\ q.new = Len(sessions) + 1 /\ q.link = req[r].link
            /\ q.then = req[r].then
        BY <2>5, <3>1 DEF Request
      <3>3. UNCHANGED links
        BY <1>9 DEF OpenNext
      <3> QED BY <1>0, <2>1, <2>4, <3>1, <3>2, <3>3 DEF InOrder
    <2>9. Len(sessions) <= Len(sessions')
      BY <1>0, <2>4
    <2> QED BY <2>6, <2>7, <2>8, <2>9, TypedReq
  <1>10. ASSUME NEW r \in Requests, Rotate(r) PROVE Typed'
    <2>1. PICK given \in BOOLEAN :
            sessions' = [s \in DOMAIN sessions |->
              CASE s = req[r].new -> [sessions[s] EXCEPT !.given = given]
                [] s = req[r].of /\ sessions[req[r].of].state # "revoked" ->
                     [sessions[s] EXCEPT !.state = "revoked", !.next = req[r].new]
                [] OTHER -> sessions[s]]
      BY <1>10 DEF Rotate
    <2>2. req[r].new \in 0..MaxSessions
      BY <1>0 DEF TypeOK, Request
    <2>3. sessions' \in [1..Len(sessions) -> Session]
      BY <1>0, <2>1, <2>2, Facts DEF Session, SessionStates
    <2>4. sessions' \in Seq(Session) /\ Len(sessions') = Len(sessions)
      BY <1>0, <2>3, FunIsSeq
    <2>5. RowsOK' /\ Finish(r) /\ links' = links
      BY <1>0, <1>10, <2>4 DEF Rotate, TypeOK, RowsOK
    <2> QED BY <1>0, <2>4, <2>5, FinishTyped
  <1>11. ASSUME NEW r \in Requests, Drop(r) PROVE Typed'
    <2>1. RowsOK' /\ Finish(r) /\ Len(sessions') = Len(sessions) /\ links' = links
      BY <1>0, <1>11, RevokedIs DEF Drop, TypeOK, RowsOK
    <2> QED BY <1>0, <2>1, FinishTyped
  <1>12. ASSUME NEW r \in Requests, Sweep(r) PROVE Typed'
    <2>1. req[r].of \in 1..Len(sessions)
      BY <1>0, <1>12 DEF Sweep, Typed, RefsOK, InOrder, TypeOK, Request
    <2>2. sessions[req[r].of].login \in 1..MaxSessions
      BY <1>0, <2>1, Facts DEF Session
    <2>3. RowsOK' /\ Finish(r) /\ Len(sessions') = Len(sessions) /\ links' = links
      BY <1>0, <1>12, <2>2, RevokedIs DEF Sweep, TypeOK, RowsOK
    <2> QED BY <1>0, <2>3, FinishTyped
  <1>13. ASSUME NEW r \in Requests, Redeem(r) PROVE Typed'
    <2>1. req[r].link \in 1..Len(links) /\ req[r].link \in 0..MaxLinks /\ req[r].user \in Users
      BY <1>0, <1>13 DEF Redeem, Typed, RefsOK, InOrder, TypeOK, Request
    <2>2. account' \in [Users -> Account]
      <3>1. account' = [account EXCEPT ![req[r].user].password = @ + 1]
        BY <1>13 DEF Redeem
      <3>2. \A u \in Users : account[u] \in Account
        BY <1>0 DEF TypeOK
      <3> QED BY <1>0, <2>1, <3>1, <3>2 DEF TypeOK, Account
    <2>3. links' \in Seq(Link) /\ Len(links') = Len(links)
      <3>1. links' = [links EXCEPT ![req[r].link].state = "consumed", ![req[r].link].used = @ + 1]
        BY <1>13 DEF Redeem
      <3>2. links' \in [1..Len(links) -> Link]
        BY <1>0, <2>1, <3>1, Facts DEF Link, LinkStates
      <3> QED BY <1>0, <3>2, FunIsSeq
    <2>4. RowsOK' /\ Finish(r) /\ Len(sessions') = Len(sessions)
      BY <1>0, <1>13, <2>2, <2>3, RevokedIs DEF Redeem, TypeOK, RowsOK
    <2> QED BY <1>0, <2>3, <2>4, FinishTyped
  <1>14. ASSUME NEW r \in Requests, Confirm(r) PROVE Typed'
    <2>1. req[r].link \in 1..Len(links) /\ req[r].user \in Users
      BY <1>0, <1>14 DEF Confirm, Typed, RefsOK, InOrder, TypeOK, Request
    <2>2. account' \in [Users -> Account]
      BY <1>0, <1>14, <2>1 DEF Confirm, TypeOK, Account
    <2>3. links' \in Seq(Link) /\ Len(links') = Len(links)
      <3>1. links' = [links EXCEPT ![req[r].link].state = "consumed", ![req[r].link].used = @ + 1]
        BY <1>14 DEF Confirm
      <3>2. links' \in [1..Len(links) -> Link]
        BY <1>0, <2>1, <3>1, Facts DEF Link, LinkStates
      <3> QED BY <1>0, <3>2, FunIsSeq
    <2>4. RowsOK' /\ Finish(r) /\ Len(sessions') = Len(sessions)
      BY <1>0, <1>14, <2>1, <2>2, <2>3 DEF Confirm, TypeOK, RowsOK
    <2> QED BY <1>0, <2>3, <2>4, FinishTyped
  <1>15. ASSUME NEW r \in Requests, Recheck(r) PROVE Typed'
    <2>1. RowsOK' /\ Finish(r) /\ sessions' = sessions /\ links' = links
      BY <1>0, <1>15 DEF Recheck, TypeOK, RowsOK, Request
    <2> QED BY <1>0, <2>1, FinishTyped
  <1>16. ASSUME NEW r \in Requests, Dies(r) PROVE Typed'
    BY <1>16, SameRows, FinishTyped DEF Dies
  <1>17. ASSUME NEW k \in DOMAIN sessions, Lapse(k) PROVE Typed'
    <2>1. sessions' \in [1..Len(sessions) -> Session]
      BY <1>0, <1>17, Facts DEF Lapse, Session, SessionStates
    <2>2. sessions' \in Seq(Session) /\ Len(sessions') = Len(sessions)
      BY <1>0, <2>1, FunIsSeq
    <2> QED BY <1>0, <1>17, <2>2 DEF Lapse, Typed, TypeOK, RefsOK, InOrder
  <1>18. ASSUME NEW l \in DOMAIN links, AgeLink(l) PROVE Typed'
    <2>1. links' \in [1..Len(links) -> Link]
      BY <1>0, <1>18, Facts DEF AgeLink, Link, LinkStates
    <2>2. links' \in Seq(Link) /\ Len(links') = Len(links)
      BY <1>0, <2>1, FunIsSeq
    <2> QED BY <1>0, <1>18, <2>2 DEF AgeLink, Typed, TypeOK, RefsOK, InOrder
  <1>19. CASE UNCHANGED vars
    BY <1>19 DEF vars, Typed, TypeOK, RefsOK, InOrder
  <1> QED
    BY <1>1, <1>2, <1>3, <1>4, <1>5, <1>6, <1>7, <1>8, <1>9, <1>10, <1>11, <1>12, <1>13,
       <1>14, <1>15, <1>16, <1>17, <1>18, <1>19 DEF Next

THEOREM TypeCorrect == Spec => []TypeOK
  <1>1. Typed => TypeOK
    BY DEF Typed
  <1> QED BY <1>1, TypedInit, TypedNext, PTL DEF Spec
-----------------------------------------------------------------------------
\* Rotation.  The rows of a login come after its first one and are one user's.
RowsLinked ==
  /\ \A s \in DOMAIN sessions : sessions[s].login <= s
  /\ \A s, t \in DOMAIN sessions :
       sessions[s].login = sessions[t].login => sessions[s].user = sessions[t].user
  /\ \A c \in caught : c <= Len(sessions)

\* No two requests are about one login, and each is about its user's.
OnePerLogin ==
  /\ \A p \in Requests : req[p].of # 0 => req[p].user = sessions[req[p].of].user
  /\ \A p, q \in Requests :
       p # q /\ req[p].of # 0 /\ req[q].of # 0
         => sessions[req[p].of].login # sessions[req[q].of].login

\* While a refresh is under way its login was not caught, and no token of it
\* works but the presented one, which may have been revoked meanwhile.
RefreshOK(p) ==
  req[p].pc \in {"open", "rotate"} /\ req[p].of # 0 =>
    /\ sessions[req[p].of].login \notin caught
    /\ \A s \in DOMAIN sessions :
         sessions[s].login = sessions[req[p].of].login /\ Usable(s) => s = req[p].of
    /\ req[p].pc = "rotate" => /\ sessions[req[p].new].login = sessions[req[p].of].login
                               /\ req[p].new # req[p].of

ChainOK ==
  /\ RowsLinked /\ OnePerLogin /\ \A p \in Requests : RefreshOK(p)
  /\ OneUsableTokenPerLogin /\ ReuseEndsTheChain

\* What most steps do: rows only lose what they were worth, requests go on or
\* end, and a login is caught with all its rows revoked and nobody on it.
Fades ==
  /\ Len(sessions') = Len(sessions) /\ DOMAIN sessions' = DOMAIN sessions
  /\ \A s \in DOMAIN sessions :
       /\ sessions'[s].login = sessions[s].login /\ sessions'[s].user = sessions[s].user
       /\ sessions'[s].given = sessions[s].given
       /\ \/ sessions'[s].state = sessions[s].state
          \/ sessions'[s].state = "revoked"
          \/ sessions[s].state = "live" /\ sessions'[s].state = "expired"
Rests == \A p \in Requests : req'[p].of = 0 \/ req'[p] = req[p]
Catches ==
  \A c \in caught' : c \notin caught =>
    /\ c <= Len(sessions)
    /\ \A s \in DOMAIN sessions : sessions[s].login = c => sessions'[s].state = "revoked"
    /\ \A p \in Requests : req'[p].of # 0 => sessions[req'[p].of].login # c

LEMMA FadesChain ==
  ASSUME Typed, ChainOK, Fades, Rests, Catches
  PROVE  ChainOK'
  <1>0. /\ DOMAIN sessions = 1..Len(sessions) /\ Len(sessions) \in Nat
        /\ \A p \in Requests : req[p].of \in 0..Len(sessions) /\ req[p].new \in 0..Len(sessions)
                               /\ (req[p].pc = "rotate" => req[p].new # 0)
    BY Referred
  <1>1. RowsLinked'
    BY <1>0 DEF ChainOK, RowsLinked, Fades, Catches
  <1>2. OnePerLogin'
    BY <1>0 DEF ChainOK, OnePerLogin, Fades, Rests
  <1>3. \A s \in DOMAIN sessions : Usable(s)' => Usable(s)
    BY DEF Usable, Fades
  <1>4. ASSUME NEW p \in Requests PROVE RefreshOK(p)'
    <2>1. CASE req'[p].of = 0
      BY <2>1 DEF RefreshOK
    <2>2. CASE req'[p] = req[p] /\ req[p].of # 0
      BY <1>0, <1>3, <2>2 DEF ChainOK, RefreshOK, Fades, Catches
    <2> QED BY <2>1, <2>2 DEF Rests
  <1>5. OneUsableTokenPerLogin'
    BY <1>3 DEF ChainOK, OneUsableTokenPerLogin, Fades
  <1>6. ReuseEndsTheChain'
    BY DEF ChainOK, ReuseEndsTheChain, Fades, Catches
  <1> QED BY <1>1, <1>2, <1>4, <1>5, <1>6 DEF ChainOK

THEOREM ChainInit == Init => ChainOK
  BY DEF Init, NoRequest, ChainOK, RowsLinked, OnePerLogin, RefreshOK,
         OneUsableTokenPerLogin, ReuseEndsTheChain

\* A step that leaves the sessions alone and one request on no login.
LEMMA StillChain ==
  ASSUME Typed, ChainOK, NEW r \in Requests, UNCHANGED <<sessions, caught>>,
         NEW q, q.of = 0, req' = [req EXCEPT ![r] = q]
  PROVE  ChainOK'
  <1>1. Rests
    BY DEF Rests, Typed, TypeOK
  <1>2. Fades /\ Catches
    BY DEF Fades, Catches
  <1> QED BY <1>1, <1>2, FadesChain

LEMMA RevokedFades ==
  ASSUME TypeOK, NEW set, sessions' = Revoked(set)
  PROVE  Fades /\ \A s \in DOMAIN sessions : s \in set => sessions'[s].state = "revoked"
  <1>1. Len(sessions') = Len(sessions) /\ DOMAIN sessions' = DOMAIN sessions
    BY RevokedIs, Facts
  <1>2. ASSUME NEW s \in DOMAIN sessions
        PROVE  /\ sessions'[s].login = sessions[s].login /\ sessions'[s].user = sessions[s].user
               /\ sessions'[s].given = sessions[s].given
               /\ sessions'[s].state = IF s \in set THEN "revoked" ELSE sessions[s].state
    <2>1. sessions[s] \in Session
      BY Facts
    <2>2. sessions'[s] = IF s \in set THEN [sessions[s] EXCEPT !.state = "revoked"] ELSE sessions[s]
      BY RevokedIs, Facts
    <2> QED BY <2>1, <2>2 DEF Session
  <1> QED BY <1>1, <1>2 DEF Fades

LEMMA FinishRests ==
  ASSUME Typed, NEW r \in Requests, Finish(r)
  PROVE  Rests /\ req'[r].of = 0 /\ \A p \in Requests \ {r} : req'[p] = req[p]
  BY DEF Rests, Finish, NoRequest, Typed, TypeOK

THEOREM ChainNext == Overlap = FALSE /\ Typed /\ ChainOK /\ [Next]_vars => ChainOK'
  <1> SUFFICES ASSUME Overlap = FALSE, Typed, ChainOK, [Next]_vars PROVE ChainOK'
    OBVIOUS
  <1>0. /\ TypeOK /\ DOMAIN sessions = 1..Len(sessions) /\ Len(sessions) \in Nat
        /\ \A p \in Requests : /\ req[p].of \in 0..Len(sessions) /\ req[p].new \in 0..Len(sessions)
                               /\ req[p].pc = "rotate" => req[p].new # 0
                               /\ req[p].pc \in {"idle", "consume", "store"} => req[p].of = 0
                               /\ req[p].pc \in {"drop", "sweep", "rotate"} => req[p].of # 0
                               /\ req[p].then = "open" => req[p].of = 0
    BY Referred
  <1>1. ASSUME NEW r \in Requests, NEW u \in Users, Register(r, u) PROVE ChainOK'
    <2>1. PICK q : q = [NoRequest(u) EXCEPT !.pc = "consume", !.purpose = "email_verification",
                                            !.then = "open",
                                            !.password = account[u].password]
      OBVIOUS
    <2>2. q.of = 0
      BY <2>1 DEF NoRequest
    <2> QED BY <1>1, <2>1, <2>2, StillChain DEF Register
  <1>2. ASSUME NEW r \in Requests, NEW u \in Users, Login(r, u) PROVE ChainOK'
    <2>1. PICK q : q = [NoRequest(u) EXCEPT !.pc = "open", !.password = account[u].password]
      OBVIOUS
    <2>2. q.of = 0
      BY <2>1 DEF NoRequest
    <2> QED BY <1>2, <2>1, <2>2, StillChain DEF Login
  <1>3. ASSUME NEW r \in Requests, NEW u \in Users, NEW purpose \in Purposes, RequestLink(r, u, purpose)
        PROVE  ChainOK'
    <2>1. PICK q : q = [NoRequest(u) EXCEPT !.pc = "consume", !.purpose = purpose]
      OBVIOUS
    <2>2. q.of = 0
      BY <2>1 DEF NoRequest
    <2> QED BY <1>3, <2>1, <2>2, StillChain DEF RequestLink
  <1>4. ASSUME NEW r \in Requests, NEW k \in DOMAIN sessions, Refresh(r, k) \/ Logout(r, k)
        PROVE  ChainOK'
    <2>1. PICK pc \in {"sweep", "drop", "open"} :
            /\ req' = [req EXCEPT ![r] = [NoRequest(sessions[k].user) EXCEPT !.pc = pc, !.of = k]]
            /\ UNCHANGED <<sessions, caught>> /\ sessions[k].given /\ LoginQuiet(k)
            /\ pc = "open" => sessions[k].state = "live"
      <3>1. sessions[k].state \in SessionStates
        BY <1>0, Facts DEF Session
      <3> QED BY <1>4, <3>1 DEF Refresh, Logout, SessionStates
    <2>2. /\ req'[r].of = k /\ req'[r].pc = pc /\ req'[r].user = sessions[k].user
          /\ \A p \in Requests \ {r} : req'[p] = req[p]
      BY <1>0, <2>1 DEF NoRequest, TypeOK
    <2>3. \A p \in Requests : req[p].of # 0 => sessions[req[p].of].login # sessions[k].login
      BY <1>0, <2>1 DEF LoginQuiet, Busy
    <2>4. OnePerLogin'
      BY <2>1, <2>2, <2>3 DEF ChainOK, OnePerLogin
    <2>5. RefreshOK(r)'
      BY <2>1, <2>2 DEF ChainOK, RefreshOK, Usable, OneUsableTokenPerLogin, ReuseEndsTheChain
    <2>6. \A p \in Requests \ {r} : RefreshOK(p)'
      BY <2>1, <2>2 DEF ChainOK, RefreshOK, Usable
    <2>7. (RowsLinked /\ OneUsableTokenPerLogin /\ ReuseEndsTheChain)'
      BY <2>1 DEF ChainOK, RowsLinked, OneUsableTokenPerLogin, ReuseEndsTheChain, Usable
    <2> QED BY <2>4, <2>5, <2>6, <2>7 DEF ChainOK
  <1>5. ASSUME NEW r \in Requests, NEW l \in DOMAIN links, ResetPassword(r, l) \/ VerifyEmail(r, l)
        PROVE  ChainOK'
    <2>1. PICK pc \in {"redeem", "confirm", "recheck"} :
            /\ req' = [req EXCEPT ![r] = [NoRequest(links[l].user) EXCEPT !.pc = pc, !.link = l]]
            /\ UNCHANGED <<sessions, caught>>
      BY <1>5 DEF ResetPassword, VerifyEmail
    <2>2. PICK q : q = [NoRequest(links[l].user) EXCEPT !.pc = pc, !.link = l]
      OBVIOUS
    <2>3. q.of = 0
      BY <2>2 DEF NoRequest
    <2> QED BY <2>1, <2>2, <2>3, StillChain
  <1>6. ASSUME NEW r \in Requests, ConsumeLinks(r) PROVE ChainOK'
    <2>1. PICK q : q = [req[r] EXCEPT !.pc = "store"]
      OBVIOUS
    <2>2. q.of = 0 /\ req' = [req EXCEPT ![r] = q]
      BY <1>0, <1>6, <2>1 DEF ConsumeLinks, Goto, TypeOK, Request
    <2> QED BY <1>6, <2>2, StillChain DEF ConsumeLinks
  <1>7. ASSUME NEW r \in Requests, StoreLink(r) PROVE ChainOK'
    <2>1. CASE req[r].then = "open"
      <3>1. PICK q : q = [req[r] EXCEPT !.pc = "open"]
        OBVIOUS
      <3>2. q.of = 0 /\ req' = [req EXCEPT ![r] = q]
        BY <1>0, <1>7, <2>1, <3>1 DEF StoreLink, Goto, TypeOK, Request
      <3> QED BY <1>7, <3>2, StillChain DEF StoreLink
    <2>2. CASE req[r].then # "open"
      <3>1. Rests /\ Fades /\ Catches
        BY <1>7, <2>2, FinishRests DEF StoreLink, Fades, Catches
      <3> QED BY <3>1, FadesChain
    <2> QED BY <2>1, <2>2
  <1>8. ASSUME NEW r \in Requests, Confirm(r) \/ Recheck(r) \/ Dies(r) PROVE ChainOK'
    <2>1. Rests /\ Fades /\ Catches
      BY <1>8, FinishRests DEF Confirm, Recheck, Dies, Fades, Catches
    <2> QED BY <2>1, FadesChain
  <1>9. ASSUME NEW r \in Requests, Drop(r) \/ Redeem(r) PROVE ChainOK'
    <2>1. PICK set : sessions' = Revoked(set) /\ Finish(r) /\ UNCHANGED caught
      BY <1>9 DEF Drop, Redeem
    <2>2. Fades
      BY <1>0, <2>1, RevokedFades
    <2>3. Rests /\ Catches
      BY <2>1, FinishRests DEF Catches
    <2> QED BY <2>2, <2>3, FadesChain
  <1>10. ASSUME NEW r \in Requests, Sweep(r) PROVE ChainOK'
    <2>1. PICK set : set = OfUser(req[r].user)
      OBVIOUS
    <2>2. sessions' = Revoked(set) /\ Finish(r)
      BY <1>10, <2>1 DEF Sweep
    <2>3. Fades
      BY <1>0, <2>2, RevokedFades
    <2>4. \A s \in DOMAIN sessions : sessions[s].user = req[r].user => sessions'[s].state = "revoked"
      BY <1>0, <2>1, <2>2, RevokedFades DEF OfUser
    <2>5. caught' = caught \cup {sessions[req[r].of].login} /\ req[r].of \in DOMAIN sessions
      BY <1>0, <1>10 DEF Sweep
    <2>6. \A s \in DOMAIN sessions : sessions[s].login = sessions[req[r].of].login
                                      => sessions[s].user = req[r].user
      BY <1>0, <2>5 DEF ChainOK, RowsLinked, OnePerLogin
    <2>7. sessions[req[r].of].login <= Len(sessions)
      <3>1. sessions[req[r].of].login <= req[r].of
        BY <1>0, <2>5 DEF ChainOK, RowsLinked
      <3>2. sessions[req[r].of].login \in Nat
        BY <1>0, <2>5, Facts DEF Session
      <3> QED BY <1>0, <2>5, <3>1, <3>2
    <2>8. \A p \in Requests : req'[p].of # 0 => sessions[req'[p].of].login # sessions[req[r].of].login
      BY <1>0, <2>2, <2>5, FinishRests DEF ChainOK, OnePerLogin
    <2>9. Rests /\ Catches
      BY <2>2, <2>4, <2>5, <2>6, <2>7, <2>8, FinishRests DEF Catches
    <2> QED BY <2>3, <2>9, FadesChain
  <1>11. ASSUME NEW k \in DOMAIN sessions, Lapse(k) PROVE ChainOK'
    <2>1. Fades
      BY <1>0, <1>11, Facts DEF Lapse, Fades, Session
    <2>2. Rests /\ Catches
      BY <1>11 DEF Lapse, Rests, Catches
    <2> QED BY <2>1, <2>2, FadesChain
  <1>12. ASSUME NEW r \in Requests, OpenSession(r) PROVE ChainOK'
    <2>1. PICK x : x = [user |-> req[r].user, state |-> "live", next |-> 0,
                        login |-> Len(sessions) + 1, password |-> req[r].password, given |-> TRUE]
      OBVIOUS
    <2>2. x \in Session /\ x.login = Len(sessions) + 1
      <3>1. req[r] \in Request /\ Len(sessions) + 1 \in 1..MaxSessions /\ 0 \in 0..MaxSessions
        BY <1>0, <1>12, Facts DEF OpenSession, SessionFits, TypeOK
      <3> QED BY <2>1, <3>1 DEF Request, Session, SessionStates
    <2>3. /\ DOMAIN sessions' = 1..(Len(sessions) + 1) /\ Len(sessions') = Len(sessions) + 1
          /\ \A s \in DOMAIN sessions : sessions'[s] = sessions[s]
          /\ sessions'[Len(sessions) + 1] = x
      BY <1>0, <1>12, <2>1, <2>2, AppendIs, SeqIsFun DEF OpenSession, TypeOK
    <2>4. Finish(r) /\ caught' = caught
      BY <1>12 DEF OpenSession
    <2>5. \A s \in DOMAIN sessions : sessions[s].login < Len(sessions) + 1 /\ sessions[s].login \in Nat
      BY <1>0, Facts DEF ChainOK, RowsLinked, Session
    <2>6. RowsLinked'
      <3>1. \A s \in DOMAIN sessions' : sessions'[s].login <= s
        BY <1>0, <2>2, <2>3 DEF ChainOK, RowsLinked
      <3>2. \A s, t \in DOMAIN sessions' :
              sessions'[s].login = sessions'[t].login => sessions'[s].user = sessions'[t].user
        BY <1>0, <2>2, <2>3, <2>5 DEF ChainOK, RowsLinked
      <3>3. \A c \in caught' : c <= Len(sessions')
        BY <1>0, <2>3, <2>4 DEF ChainOK, RowsLinked, TypeOK
      <3> QED BY <3>1, <3>2, <3>3 DEF RowsLinked
    <2>7. OnePerLogin'
      BY <1>0, <2>3, <2>4, FinishRests DEF ChainOK, OnePerLogin
    <2>8. ASSUME NEW p \in Requests PROVE RefreshOK(p)'
      <3>1. CASE req'[p].of = 0
        BY <3>1 DEF RefreshOK
      <3>2. CASE req'[p] = req[p] /\ req[p].of # 0
        <4>1. req[p].of \in DOMAIN sessions /\ (req[p].pc = "rotate" => req[p].new \in DOMAIN sessions)
          BY <1>0, <3>2
        <4>2. \A s \in DOMAIN sessions' : sessions'[s].login = sessions[req[p].of].login
                                            => s \in DOMAIN sessions
          BY <1>0, <2>2, <2>3, <2>5, <4>1
        <4>3. sessions'[req[p].of] = sessions[req[p].of] /\ caught' = caught
              /\ (req[p].pc = "rotate" => sessions'[req[p].new] = sessions[req[p].new])
          BY <2>3, <2>4, <4>1
        <4>4. RefreshOK(p) /\ \A s \in DOMAIN sessions : Usable(s)' <=> Usable(s)
          BY <2>3 DEF ChainOK, Usable
        <4> QED BY <2>3, <3>2, <4>2, <4>3, <4>4 DEF RefreshOK
      <3> QED BY <2>4, <3>1, <3>2, FinishRests DEF Rests
    <2>9. OneUsableTokenPerLogin'
      BY <1>0, <2>2, <2>3, <2>5 DEF ChainOK, OneUsableTokenPerLogin, Usable
    <2>10. ReuseEndsTheChain'
      BY <1>0, <2>2, <2>3, <2>4 DEF ChainOK, ReuseEndsTheChain, RowsLinked, TypeOK
    <2> QED BY <2>6, <2>7, <2>8, <2>9, <2>10 DEF ChainOK
  <1>13. ASSUME NEW r \in Requests, OpenNext(r) PROVE ChainOK'
    <2>0. req[r].of \in DOMAIN sessions /\ req[r].of # 0 /\ req[r].pc = "open"
      BY <1>0, <1>13 DEF OpenNext
    <2>1. PICK x \in Session :
            x = [sessions[req[r].of] EXCEPT !.state = "live", !.next = 0, !.given = FALSE]
      <3>1. sessions[req[r].of] \in Session /\ 0 \in 0..MaxSessions
        BY <1>0, <2>0, Facts
      <3> QED BY <3>1 DEF Session, SessionStates
    <2>2. x.login = sessions[req[r].of].login /\ x.user = sessions[req[r].of].user /\ ~x.given
      BY <1>0, <2>0, <2>1, Facts DEF Session
    <2>3. /\ DOMAIN sessions' = 1..(Len(sessions) + 1) /\ Len(sessions') = Len(sessions) + 1
          /\ \A s \in DOMAIN sessions : sessions'[s] = sessions[s]
          /\ sessions'[Len(sessions) + 1] = x
      BY <1>0, <1>13, <2>1, AppendIs, SeqIsFun DEF OpenNext, TypeOK
    <2>4. /\ req'[r].of = req[r].of /\ req'[r].user = req[r].user
          /\ req'[r].new = Len(sessions) + 1 /\ req'[r].pc = "rotate" /\ caught' = caught
          /\ \A p \in Requests \ {r} : req'[p] = req[p]
      BY <1>0, <1>13 DEF OpenNext, TypeOK, Request
    <2>5. \A s \in DOMAIN sessions : sessions[s].login <= s
      BY DEF ChainOK, RowsLinked
    <2>6. RowsLinked'
      <3>1. x.login <= Len(sessions) + 1 /\ x.login \in Nat
        BY <1>0, <2>0, <2>2, <2>5, Facts DEF Session
      <3>2. \A s \in DOMAIN sessions' : sessions'[s].login <= s
        BY <1>0, <2>3, <2>5, <3>1
      <3>3. \A s, t \in DOMAIN sessions' :
              sessions'[s].login = sessions'[t].login => sessions'[s].user = sessions'[t].user
        BY <1>0, <2>0, <2>2, <2>3 DEF ChainOK, RowsLinked
      <3>4. \A c \in caught' : c <= Len(sessions')
        BY <1>0, <2>3, <2>4 DEF ChainOK, RowsLinked, TypeOK
      <3> QED BY <3>2, <3>3, <3>4 DEF RowsLinked
    <2>7. OnePerLogin'
      <3>1. \A p \in Requests : /\ req'[p].of = req[p].of /\ req'[p].user = req[p].user
                                /\ req[p].of # 0 => sessions'[req[p].of] = sessions[req[p].of]
        BY <1>0, <2>3, <2>4
      <3> QED BY <3>1 DEF ChainOK, OnePerLogin
    <2>8. RefreshOK(r)'
      BY <1>0, <2>0, <2>2, <2>3, <2>4 DEF ChainOK, RefreshOK, Usable
    <2>9. \A p \in Requests \ {r} : RefreshOK(p)'
      BY <1>0, <2>0, <2>2, <2>3, <2>4 DEF ChainOK, RefreshOK, OnePerLogin, Usable
    <2>10. OneUsableTokenPerLogin'
      BY <1>0, <2>2, <2>3 DEF ChainOK, OneUsableTokenPerLogin, Usable
    <2>11. ReuseEndsTheChain'
      BY <1>0, <2>0, <2>2, <2>3, <2>4 DEF ChainOK, ReuseEndsTheChain, RefreshOK
    <2> QED BY <2>6, <2>7, <2>8, <2>9, <2>10, <2>11 DEF ChainOK
  <1>14. ASSUME NEW r \in Requests, Rotate(r) PROVE ChainOK'
    <2>0. /\ req[r].of \in DOMAIN sessions /\ req[r].new \in DOMAIN sessions
          /\ req[r].of # 0 /\ req[r].pc = "rotate"
      <3>1. req[r].pc = "rotate"
        BY <1>14 DEF Rotate
      <3> QED BY <1>0, <3>1
    <2>1. PICK given \in BOOLEAN :
            sessions' = [s \in DOMAIN sessions |->
              CASE s = req[r].new -> [sessions[s] EXCEPT !.given = given]
                [] s = req[r].of /\ sessions[req[r].of].state # "revoked" ->
                     [sessions[s] EXCEPT !.state = "revoked", !.next = req[r].new]
                [] OTHER -> sessions[s]]
      BY <1>14 DEF Rotate
    <2>2. /\ DOMAIN sessions' = DOMAIN sessions /\ Len(sessions') = Len(sessions)
          /\ \A s \in DOMAIN sessions :
               /\ sessions'[s].login = sessions[s].login /\ sessions'[s].user = sessions[s].user
               /\ s # req[r].new => sessions'[s].given = sessions[s].given
               /\ s # req[r].of => sessions'[s].state = sessions[s].state
               /\ sessions[s].state = "revoked" => sessions'[s].state = "revoked"
      <3>1. \A s \in DOMAIN sessions : sessions[s] \in Session
        BY <1>0, Facts
      <3>2. DOMAIN sessions' = DOMAIN sessions /\ Len(sessions') = Len(sessions)
        <4>1. sessions' \in Seq(Session)
          BY TypedNext DEF Typed, TypeOK
        <4>2. DOMAIN sessions' = 1..Len(sessions)
          BY <1>0, <2>1
        <4>3. \A s \in 1..Len(sessions) : sessions'[s] \in Session
          BY <4>1, <4>2, SeqIsFun
        <4>4. sessions' \in [1..Len(sessions) -> Session]
          BY <2>1, <4>2, <4>3
        <4> QED BY <1>0, <4>4, FunIsSeq
      <3> QED BY <2>1, <3>1, <3>2 DEF Session
    <2>3. req[r].new # req[r].of /\ sessions[req[r].new].login = sessions[req[r].of].login
      BY <2>0 DEF ChainOK, RefreshOK
    <2>4. sessions'[req[r].of].state = "revoked"
      BY <1>0, <2>0, <2>1, <2>3, Facts DEF Session
    <2>5. \A s \in DOMAIN sessions : Usable(s)' => Usable(s) \/ s = req[r].new
      BY <2>2, <2>4 DEF Usable
    <2>6. Finish(r) /\ caught' = caught
      BY <1>14 DEF Rotate
    <2>7. RowsLinked'
      BY <1>0, <2>2, <2>6 DEF ChainOK, RowsLinked
    <2>8. OnePerLogin'
      BY <1>0, <2>2, <2>6, FinishRests DEF ChainOK, OnePerLogin
    <2>9. \A p \in Requests : RefreshOK(p)'
      <3>1. RefreshOK(r)'
        BY <2>6, FinishRests DEF RefreshOK
      <3>2. ASSUME NEW p \in Requests \ {r}, req[p].of # 0 PROVE RefreshOK(p)'
        <4>1. req'[p] = req[p] /\ sessions[req[p].of].login # sessions[req[r].of].login
          BY <2>0, <2>6, <3>2, FinishRests DEF ChainOK, OnePerLogin
        <4>2. req[p].of \in DOMAIN sessions /\ (req[p].pc = "rotate" => req[p].new \in DOMAIN sessions)
          BY <1>0, <3>2
        <4> QED BY <2>0, <2>2, <2>3, <2>5, <2>6, <4>1, <4>2 DEF ChainOK, RefreshOK
      <3>3. ASSUME NEW p \in Requests \ {r}, req[p].of = 0 PROVE RefreshOK(p)'
        BY <2>6, <3>3, FinishRests DEF RefreshOK
      <3> QED BY <3>1, <3>2, <3>3
    <2>10. OneUsableTokenPerLogin'
      <3>1. \A s \in DOMAIN sessions : sessions[s].login = sessions[req[r].of].login /\ Usable(s)'
                                         => s = req[r].new
        BY <2>0, <2>4, <2>5 DEF ChainOK, RefreshOK, Usable
      <3>2. \A s, t \in DOMAIN sessions :
              sessions[s].login = sessions[t].login /\ Usable(s)' /\ Usable(t)' => s = t
        BY <2>0, <2>3, <2>5, <3>1 DEF ChainOK, OneUsableTokenPerLogin
      <3> QED BY <2>2, <3>2 DEF OneUsableTokenPerLogin
    <2>11. ReuseEndsTheChain'
      BY <2>2, <2>6 DEF ChainOK, ReuseEndsTheChain
    <2> QED BY <2>7, <2>8, <2>9, <2>10, <2>11 DEF ChainOK
  <1>15. ASSUME NEW l \in DOMAIN links, AgeLink(l) PROVE ChainOK'
    <2>1. Fades /\ Rests /\ Catches
      BY <1>15 DEF AgeLink, Fades, Rests, Catches
    <2> QED BY <2>1, FadesChain
  <1>16. CASE UNCHANGED vars
    <2>1. Fades /\ Rests /\ Catches
      BY <1>16 DEF vars, Fades, Rests, Catches
    <2> QED BY <2>1, FadesChain
  <1> QED
    BY <1>1, <1>2, <1>3, <1>4, <1>5, <1>6, <1>7, <1>8, <1>9, <1>10, <1>11, <1>12, <1>13,
       <1>14, <1>15, <1>16 DEF Next

\* Clients that wait for their answers: whatever statement fails, dies or is
\* overtaken, a login has one usable token, and a caught login has none.
THEOREM OneUsableTokenHolds == Overlap = FALSE => (Spec => []OneUsableTokenPerLogin)
  <1> SUFFICES ASSUME Overlap = FALSE PROVE Spec => []OneUsableTokenPerLogin
    OBVIOUS
  <1>1. Typed /\ ChainOK /\ [Next]_vars => ChainOK'
    BY ChainNext
  <1>2. ChainOK => OneUsableTokenPerLogin
    BY DEF ChainOK
  <1> QED BY <1>1, <1>2, TypedInit, TypedNext, ChainInit, PTL DEF Spec

THEOREM ReuseEndsTheChainHolds == Overlap = FALSE => (Spec => []ReuseEndsTheChain)
  <1> SUFFICES ASSUME Overlap = FALSE PROVE Spec => []ReuseEndsTheChain
    OBVIOUS
  <1>1. Typed /\ ChainOK /\ [Next]_vars => ChainOK'
    BY ChainNext
  <1>2. ChainOK => ReuseEndsTheChain
    BY DEF ChainOK
  <1> QED BY <1>1, <1>2, TypedInit, TypedNext, ChainInit, PTL DEF Spec
-----------------------------------------------------------------------------
\* Mailed links.  A link that was used is consumed, and it, its uses and those
\* who are about to use it are no more than the requests.
UsesEnd ==
  \A l \in DOMAIN links : links[l].used > 0 =>
    /\ links[l].state = "consumed"
    /\ links[l].used + Cardinality(Redeeming(l)) <= Cardinality(Requests)

Works(l) == links[l].state \in {"fresh", "ripe"}
Mine(p, l) == links[l].user = req[p].user /\ links[l].purpose = req[p].purpose

\* What a request has consumed before it stores its link does not work.
SeenEnd ==
  \A p \in Requests :
    /\ req[p].pc = "consume" => req[p].ended = 0
    /\ req[p].pc = "store" =>
         /\ req[p].ended <= Len(links)
         /\ \A l \in DOMAIN links : Mine(p, l) /\ l <= req[p].ended => ~Works(l)

LinksOK == UsesEnd /\ SeenEnd /\ OnlyUnseenLinksStay

\* What most steps do: no link comes back to life and none is redeemed, and no
\* request comes to where it redeems or stores one.
AgesOnly ==
  /\ DOMAIN links' = DOMAIN links /\ Len(links') = Len(links)
  /\ \A l \in DOMAIN links :
       /\ links'[l].user = links[l].user /\ links'[l].purpose = links[l].purpose
       /\ links'[l].used = links[l].used /\ links'[l].ended = links[l].ended
       /\ links[l].state = "consumed" => links'[l].state = "consumed"
       /\ links'[l].state \in {"fresh", "ripe"} => Works(l)
MailsOn ==
  \A p \in Requests : /\ req'[p].pc = "store" => req'[p] = req[p]
                      /\ req'[p].pc = "consume" => req'[p] = req[p] \/ req'[p].ended = 0
GoesOn ==
  MailsOn /\ \A p \in Requests : req'[p].pc \in {"redeem", "confirm"} => req'[p] = req[p]

LEMMA FewRequests ==
  /\ IsFiniteSet(Requests) /\ Cardinality(Requests) \in Nat /\ Cardinality(Requests) > 0
  /\ \A T \in SUBSET Requests : /\ IsFiniteSet(T) /\ Cardinality(T) \in Nat
                                /\ Cardinality(T) <= Cardinality(Requests)
                                /\ T # Requests => Cardinality(T) < Cardinality(Requests)
  <1>1. IsFiniteSet(Requests) /\ Requests # {}
    BY SessionsAssumption
  <1>2. Cardinality(Requests) \in Nat /\ Cardinality(Requests) # 0
    BY <1>1, FS_CardinalityType, FS_EmptySet
  <1>3. ASSUME NEW T \in SUBSET Requests
        PROVE  /\ IsFiniteSet(T) /\ Cardinality(T) \in Nat
               /\ Cardinality(T) <= Cardinality(Requests)
               /\ T # Requests => Cardinality(T) < Cardinality(Requests)
    <2>1. IsFiniteSet(T) /\ Cardinality(T) <= Cardinality(Requests)
          /\ (Cardinality(T) = Cardinality(Requests) => T = Requests)
      BY <1>1, <1>3, FS_Subset
    <2>2. Cardinality(T) \in Nat
      BY <2>1, FS_CardinalityType
    <2> QED BY <1>2, <2>1, <2>2
  <1> QED BY <1>1, <1>2, <1>3

LEMMA AgesUses ==
  ASSUME Typed, UsesEnd, AgesOnly,
         \A l \in DOMAIN links : links[l].used = 0 \/ Redeeming(l)' \subseteq Redeeming(l)
  PROVE  UsesEnd'
  <1>1. SUFFICES ASSUME NEW l \in DOMAIN links, links'[l].used > 0
                 PROVE  /\ links'[l].state = "consumed"
                        /\ links'[l].used + Cardinality(Redeeming(l)') <= Cardinality(Requests)
    BY DEF UsesEnd, AgesOnly
  <1>2. /\ links[l].used > 0 /\ links'[l].used = links[l].used /\ links[l].state = "consumed"
        /\ links[l].used + Cardinality(Redeeming(l)) <= Cardinality(Requests)
    BY <1>1 DEF UsesEnd, AgesOnly
  <1>3. links[l].used \in Nat
    BY Facts, Referred DEF Link
  <1>4. Redeeming(l)' \subseteq Redeeming(l) /\ Redeeming(l) \subseteq Requests
    BY <1>2, <1>3 DEF Redeeming
  <1>5. IsFiniteSet(Redeeming(l)) /\ Cardinality(Redeeming(l)) \in Nat
    BY <1>4, FewRequests
  <1>6. Cardinality(Redeeming(l)') <= Cardinality(Redeeming(l)) /\ Cardinality(Redeeming(l)') \in Nat
    BY <1>4, <1>5, FS_Subset, FS_CardinalityType
  <1>7. links'[l].state = "consumed"
    BY <1>2 DEF AgesOnly
  <1> QED BY <1>2, <1>3, <1>5, <1>6, <1>7, FewRequests

LEMMA AgesSeen ==
  ASSUME Typed, LinksOK, AgesOnly, MailsOn
  PROVE  SeenEnd' /\ OnlyUnseenLinksStay'
  <1>1. \A l \in DOMAIN links : Works(l)' => Works(l)
    BY DEF Works, AgesOnly
  <1>2. SeenEnd'
    BY <1>1 DEF LinksOK, SeenEnd, Mine, AgesOnly, MailsOn
  <1>3. OnlyUnseenLinksStay'
    BY <1>1 DEF LinksOK, OnlyUnseenLinksStay, Redeemable, AgesOnly, Works
  <1> QED BY <1>2, <1>3

LEMMA AgesLinks ==
  ASSUME Typed, LinksOK, AgesOnly, GoesOn
  PROVE  LinksOK'
  <1>1. \A l : Redeeming(l)' \subseteq Redeeming(l)
    BY DEF GoesOn, Redeeming
  <1>2. UsesEnd'
    BY <1>1, AgesUses DEF LinksOK
  <1>3. SeenEnd' /\ OnlyUnseenLinksStay'
    BY AgesSeen DEF GoesOn
  <1> QED BY <1>2, <1>3 DEF LinksOK

THEOREM LinksInit == Init => LinksOK
  BY DEF Init, NoRequest, LinksOK, UsesEnd, SeenEnd, OnlyUnseenLinksStay

\* The rows of links after a statement that works on one of them.
LEMMA RedeemedIs ==
  ASSUME TypeOK, NEW l \in DOMAIN links,
         links' = [links EXCEPT ![l].state = "consumed", ![l].used = @ + 1]
  PROVE  /\ DOMAIN links' = DOMAIN links /\ Len(links') = Len(links)
         /\ \A m \in DOMAIN links :
              /\ links'[m].user = links[m].user /\ links'[m].purpose = links[m].purpose
              /\ links'[m].ended = links[m].ended
              /\ m # l => links'[m] = links[m]
         /\ links'[l].state = "consumed" /\ links'[l].used = links[l].used + 1
  <1>1. /\ \A m \in DOMAIN links : links[m] \in Link
        /\ DOMAIN links = 1..Len(links) /\ Len(links) \in Nat
    BY Facts
  <1>2. DOMAIN links' = DOMAIN links /\ links' \in [1..Len(links) -> Link]
    BY <1>1 DEF Link, LinkStates
  <1>3. Len(links') = Len(links)
    BY <1>1, <1>2, FunIsSeq
  <1> QED BY <1>1, <1>2, <1>3 DEF Link

\* Redeem and Confirm, as far as the links go: the link has one use more and one
\* request less to use it.
LEMMA RedeemedLinks ==
  ASSUME Typed, LinksOK, NEW r \in Requests, req[r].pc \in {"redeem", "confirm"}, Finish(r),
         links' = [links EXCEPT ![req[r].link].state = "consumed", ![req[r].link].used = @ + 1]
  PROVE  LinksOK'
  <1>0. TypeOK /\ req[r].link \in DOMAIN links
    BY Referred
  <1>1. PICK m \in DOMAIN links : m = req[r].link
    BY <1>0
  <1>2. /\ DOMAIN links' = DOMAIN links /\ Len(links') = Len(links)
        /\ \A k \in DOMAIN links :
             /\ links'[k].user = links[k].user /\ links'[k].purpose = links[k].purpose
             /\ links'[k].ended = links[k].ended
             /\ k # m => links'[k] = links[k]
        /\ links'[m].state = "consumed" /\ links'[m].used = links[m].used + 1
    <2>1. links' = [links EXCEPT ![m].state = "consumed", ![m].used = @ + 1]
      BY <1>1
    <2> QED BY <1>0, <2>1, RedeemedIs
  <1>3. req'[r].pc = "idle" /\ \A p \in Requests \ {r} : req'[p] = req[p]
    BY <1>0 DEF Finish, NoRequest, TypeOK
  <1>4. \A k \in DOMAIN links : Works(k)' => Works(k)
    BY <1>2 DEF Works
  <1>5. SeenEnd'
    BY <1>2, <1>3, <1>4 DEF LinksOK, SeenEnd, Mine
  <1>6. OnlyUnseenLinksStay'
    BY <1>2, <1>4 DEF LinksOK, OnlyUnseenLinksStay, Redeemable, Works
  <1>7. ASSUME NEW l \in DOMAIN links, l # m, links'[l].used > 0
        PROVE  /\ links'[l].state = "consumed"
               /\ links'[l].used + Cardinality(Redeeming(l)') <= Cardinality(Requests)
    <2>1. links'[l] = links[l]
      BY <1>2, <1>7
    <2>2. Redeeming(l)' = Redeeming(l)
      BY <1>1, <1>3, <1>7 DEF Redeeming
    <2> QED BY <1>7, <2>1, <2>2 DEF LinksOK, UsesEnd
  <1>8. links'[m].used + Cardinality(Redeeming(m)') <= Cardinality(Requests)
    <2>1. r \in Redeeming(m) /\ Redeeming(m)' = Redeeming(m) \ {r} /\ Redeeming(m) \subseteq Requests
      BY <1>1, <1>3 DEF Redeeming
    <2>2. IsFiniteSet(Redeeming(m)) /\ Cardinality(Redeeming(m)) \in Nat
          /\ Cardinality(Redeeming(m)) <= Cardinality(Requests)
      BY <2>1, FewRequests
    <2>3. Cardinality(Redeeming(m) \ {r}) = Cardinality(Redeeming(m)) - 1
      BY <2>1, <2>2, FS_RemoveElement
    <2>4. links[m].used \in Nat
      BY <1>0, Facts DEF Link
    <2>5. CASE links[m].used = 0
      BY <1>2, <2>1, <2>2, <2>3, <2>5, FewRequests
    <2>6. CASE links[m].used > 0
      <3>1. links[m].used + Cardinality(Redeeming(m)) <= Cardinality(Requests)
        BY <2>6 DEF LinksOK, UsesEnd
      <3> QED BY <1>2, <2>1, <2>2, <2>3, <2>4, <3>1, FewRequests
    <2> QED BY <2>4, <2>5, <2>6
  <1>9. UsesEnd'
    BY <1>2, <1>7, <1>8 DEF UsesEnd
  <1> QED BY <1>5, <1>6, <1>9 DEF LinksOK

THEOREM LinksNext == Typed /\ LinksOK /\ [Next]_vars => LinksOK'
  <1> SUFFICES ASSUME Typed, LinksOK, [Next]_vars PROVE LinksOK'
    OBVIOUS
  <1>0. /\ TypeOK /\ DOMAIN links = 1..Len(links) /\ Len(links) \in Nat
        /\ \A p \in Requests : req[p] \in Request
    BY Referred DEF TypeOK
  <1>a. ASSUME UNCHANGED links PROVE AgesOnly
    BY <1>a DEF AgesOnly, Works
  <1>b. ASSUME NEW r \in Requests, Finish(r) PROVE GoesOn
    BY <1>0, <1>b DEF GoesOn, MailsOn, Finish, NoRequest, TypeOK
  <1>1. ASSUME NEW r \in Requests, NEW u \in Users,
               \/ Register(r, u) \/ Login(r, u)
               \/ \E purpose \in Purposes : RequestLink(r, u, purpose)
        PROVE  LinksOK'
    <2>1. /\ req'[r].pc \in {"consume", "open"} /\ req'[r].ended = 0
          /\ \A p \in Requests \ {r} : req'[p] = req[p]
      BY <1>0, <1>1 DEF Register, Login, RequestLink, NoRequest, TypeOK
    <2>2. UNCHANGED links
      BY <1>1 DEF Register, Login, RequestLink
    <2> QED BY <1>a, <2>1, <2>2, AgesLinks DEF GoesOn, MailsOn
  <1>2. ASSUME NEW r \in Requests, NEW k \in DOMAIN sessions, Refresh(r, k) \/ Logout(r, k)
        PROVE  LinksOK'
    <2>1. PICK pc \in {"sweep", "drop", "open"} :
            /\ req' = [req EXCEPT ![r] = [NoRequest(sessions[k].user) EXCEPT !.pc = pc, !.of = k]]
            /\ UNCHANGED <<account, links>>
      <3>1. sessions[k].state \in SessionStates
        BY <1>0, Facts DEF Session
      <3> QED BY <1>2, <3>1 DEF Refresh, Logout, SessionStates
    <2>2. GoesOn
      BY <1>0, <2>1 DEF NoRequest, TypeOK, GoesOn, MailsOn
    <2> QED BY <1>a, <2>1, <2>2, AgesLinks
  <1>3. ASSUME NEW r \in Requests, NEW l \in DOMAIN links, ResetPassword(r, l) \/ VerifyEmail(r, l)
        PROVE  LinksOK'
    <2>1. PICK pc \in {"redeem", "confirm", "recheck"} :
            /\ req' = [req EXCEPT ![r] = [NoRequest(links[l].user) EXCEPT !.pc = pc, !.link = l]]
            /\ UNCHANGED <<account, links>>
            /\ pc \in {"redeem", "confirm"} => Works(l)
      BY <1>3 DEF ResetPassword, VerifyEmail, Redeemable, Works
    <2>2. /\ req'[r].pc = pc /\ req'[r].link = l
          /\ \A p \in Requests \ {r} : req'[p] = req[p]
      BY <1>0, <2>1 DEF NoRequest, TypeOK
    <2>3. links[l].used \in Nat
      BY <1>0, Facts DEF Link
    <2>4. ASSUME NEW m \in DOMAIN links PROVE links[m].used = 0 \/ Redeeming(m)' \subseteq Redeeming(m)
      <3>1. CASE m # l \/ pc = "recheck"
        BY <2>2, <3>1 DEF Redeeming
      <3>2. CASE m = l /\ pc # "recheck"
        BY <2>1, <2>3, <3>2 DEF LinksOK, UsesEnd, Works
      <3> QED BY <3>1, <3>2
    <2>5. UsesEnd'
      BY <1>a, <2>1, <2>4, AgesUses DEF LinksOK
    <2>6. SeenEnd' /\ OnlyUnseenLinksStay'
      BY <1>a, <2>1, <2>2, AgesSeen DEF MailsOn
    <2> QED BY <2>5, <2>6 DEF LinksOK
  <1>4. ASSUME NEW r \in Requests, ConsumeLinks(r) PROVE LinksOK'
    <2>1. \A p \in Requests \ {r} : req'[p] = req[p]
      BY <1>0, <1>4 DEF ConsumeLinks, Goto, TypeOK
    <2>2. req'[r].pc = "store" /\ req'[r].user = req[r].user /\ req'[r].purpose = req[r].purpose
      BY <1>0, <1>4 DEF ConsumeLinks, Goto, TypeOK, Request
    <2>3. AgesOnly /\ \/ \A l \in DOMAIN links : Mine(r, l) => ~Works(l)'
                      \/ UNCHANGED links
      <3>1. CASE UNCHANGED links
        BY <1>a, <3>1
      <3>2. CASE links' = [l \in DOMAIN links |->
                             IF Mine(r, l) THEN [links[l] EXCEPT !.state = "consumed"] ELSE links[l]]
        <4>1. \A l \in DOMAIN links : links[l] \in Link
          BY <1>0, Facts
        <4>2. DOMAIN links' = DOMAIN links /\ links' \in [1..Len(links) -> Link]
          BY <1>0, <3>2, <4>1 DEF Link, LinkStates
        <4>3. Len(links') = Len(links)
          BY <1>0, <4>2, FunIsSeq
        <4> QED BY <3>2, <4>1, <4>2, <4>3 DEF AgesOnly, Works, Link
      <3> QED BY <1>4, <3>1, <3>2 DEF ConsumeLinks, Mine
    <2>4. \A l : Redeeming(l)' \subseteq Redeeming(l)
      BY <2>1, <2>2 DEF Redeeming
    <2>5. UsesEnd'
      BY <2>3, <2>4, AgesUses DEF LinksOK
    <2>6. \A l \in DOMAIN links : Works(l)' => Works(l)
      BY <2>3 DEF Works, AgesOnly
    <2>7. OnlyUnseenLinksStay'
      BY <2>3, <2>6 DEF LinksOK, OnlyUnseenLinksStay, Redeemable, AgesOnly, Works
    <2>8. req'[r].ended <= Len(links) /\ \A l \in DOMAIN links : Mine(r, l) /\ l <= req'[r].ended => ~Works(l)'
      <3>1. CASE UNCHANGED links /\ Goto(r, "store")
        <4>1. req'[r].ended = 0
          BY <1>0, <1>4, <3>1 DEF Goto, ConsumeLinks, LinksOK, SeenEnd, TypeOK, Request
        <4> QED BY <1>0, <4>1
      <3>2. CASE (\A l \in DOMAIN links : Mine(r, l) => ~Works(l)') /\ req'[r].ended = Len(links)
        BY <1>0, <3>2
      <3>3. req' = [req EXCEPT ![r].pc = "store", ![r].ended = Len(links)] => req'[r].ended = Len(links)
        BY <1>0 DEF TypeOK, Request
      <3>4. \/ UNCHANGED links /\ Goto(r, "store")
            \/ /\ links' = [l \in DOMAIN links |->
                              IF Mine(r, l) THEN [links[l] EXCEPT !.state = "consumed"] ELSE links[l]]
               /\ req' = [req EXCEPT ![r].pc = "store", ![r].ended = Len(links)]
        BY <1>4 DEF ConsumeLinks, Mine
      <3>5. links' = [l \in DOMAIN links |->
                        IF Mine(r, l) THEN [links[l] EXCEPT !.state = "consumed"] ELSE links[l]]
              => \A l \in DOMAIN links : Mine(r, l) => ~Works(l)'
        <4>1. \A l \in DOMAIN links : links[l] \in Link
          BY <1>0, Facts
        <4> QED BY <4>1 DEF Works, Link
      <3> QED BY <3>1, <3>2, <3>3, <3>4, <3>5
    <2>9. SeenEnd'
      BY <2>1, <2>2, <2>3, <2>6, <2>8 DEF LinksOK, SeenEnd, AgesOnly, Mine
    <2> QED BY <2>5, <2>7, <2>9 DEF LinksOK
  <1>5. ASSUME NEW r \in Requests, StoreLink(r) PROVE LinksOK'
    <2>1. /\ req'[r].pc \in {"idle", "open"} /\ \A p \in Requests \ {r} : req'[p] = req[p]
          /\ req[r].pc = "store"
      BY <1>0, <1>5 DEF StoreLink, Finish, Goto, NoRequest, TypeOK, Request
    <2>2. CASE UNCHANGED links
      BY <1>a, <2>1, <2>2, AgesLinks DEF GoesOn, MailsOn
    <2>3. CASE links' = Append(links, [user |-> req[r].user, purpose |-> req[r].purpose,
                                       state |-> "fresh", used |-> 0, ended |-> req[r].ended])
      <3>1. PICK x \in Link : x = [user |-> req[r].user, purpose |-> req[r].purpose,
                                   state |-> "fresh", used |-> 0, ended |-> req[r].ended]
        BY <1>0 DEF TypeOK, Request, Link, LinkStates
      <3>2. /\ DOMAIN links' = 1..(Len(links) + 1) /\ Len(links) + 1 \notin DOMAIN links
            /\ Len(links') = Len(links) + 1
            /\ \A l \in DOMAIN links : links'[l] = links[l]
            /\ links'[Len(links) + 1] = x
        BY <1>0, <2>3, <3>1, AppendIs, SeqIsFun DEF TypeOK
      <3>3. \A l : Redeeming(l)' = Redeeming(l)
        BY <2>1 DEF Redeeming
      <3>4. \A l \in DOMAIN links' : l \in DOMAIN links \/ l = Len(links) + 1
        BY <1>0, <3>2
      <3>5. UsesEnd'
        BY <3>1, <3>2, <3>3, <3>4 DEF LinksOK, UsesEnd
      <3>6. SeenEnd'
        <4>1. SUFFICES ASSUME NEW p \in Requests, p # r
                       PROVE  /\ req[p].pc = "consume" => req[p].ended = 0
                              /\ req[p].pc = "store" =>
                                   /\ req[p].ended <= Len(links')
                                   /\ \A l \in DOMAIN links' :
                                        /\ links'[l].user = req[p].user /\ links'[l].purpose = req[p].purpose
                                        /\ l <= req[p].ended
                                        => links'[l].state \notin {"fresh", "ripe"}
          BY <2>1 DEF SeenEnd, Mine, Works
        <4>2. req[p].ended \in Nat
          BY <1>0, SessionsAssumption DEF Request
        <4> QED BY <1>0, <3>2, <3>4, <4>2 DEF LinksOK, SeenEnd, Mine, Works
      <3>7. OnlyUnseenLinksStay'
        <4>1. ASSUME NEW l \in DOMAIN links', NEW m \in DOMAIN links', Works(l)',
                     links'[m].user = links'[l].user, links'[m].purpose = links'[l].purpose
              PROVE  l >= m \/ l > links'[m].ended
          <5>1. CASE l = Len(links) + 1
            BY <1>0, <3>2, <5>1
          <5>2. CASE l \in DOMAIN links /\ m \in DOMAIN links
            BY <3>2, <4>1, <5>2 DEF LinksOK, OnlyUnseenLinksStay, Redeemable, Works
          <5>3. CASE l \in DOMAIN links /\ m = Len(links) + 1
            <6>1. Mine(r, l) /\ Works(l) /\ links'[m].ended = req[r].ended
              BY <3>1, <3>2, <4>1, <5>3 DEF Mine, Works
            <6>2. req[r].ended \in Nat /\ l \in Nat
              BY <1>0, <5>3, SessionsAssumption DEF Request
            <6> QED BY <2>1, <6>1, <6>2, <5>3 DEF LinksOK, SeenEnd
          <5> QED BY <3>4, <5>1, <5>2, <5>3
        <4> QED BY <4>1 DEF OnlyUnseenLinksStay, Redeemable, Works
      <3> QED BY <3>5, <3>6, <3>7 DEF LinksOK
    <2> QED BY <1>5, <2>2, <2>3 DEF StoreLink
  <1>6. ASSUME NEW r \in Requests, Redeem(r) \/ Confirm(r) PROVE LinksOK'
    BY <1>6, RedeemedLinks DEF Redeem, Confirm
  <1>7. ASSUME NEW r \in Requests,
               OpenSession(r) \/ Rotate(r) \/ Drop(r) \/ Sweep(r) \/ Recheck(r) \/ Dies(r)
        PROVE  LinksOK'
    <2>1. Finish(r) /\ UNCHANGED links
      BY <1>7 DEF OpenSession, Rotate, Drop, Sweep, Recheck, Dies
    <2> QED BY <1>a, <1>b, <2>1, AgesLinks
  <1>8. ASSUME NEW r \in Requests, OpenNext(r) PROVE LinksOK'
    <2>1. GoesOn
      BY <1>0, <1>8 DEF OpenNext, GoesOn, MailsOn, TypeOK, Request
    <2> QED BY <1>8, <1>a, <2>1, AgesLinks DEF OpenNext
  <1>9. ASSUME NEW k \in DOMAIN sessions, Lapse(k) PROVE LinksOK'
    BY <1>9, <1>a, AgesLinks DEF Lapse, GoesOn, MailsOn
  <1>10. ASSUME NEW l \in DOMAIN links, AgeLink(l) PROVE LinksOK'
    <2>1. \A m \in DOMAIN links : links[m] \in Link
      BY <1>0, Facts
    <2>2. DOMAIN links' = DOMAIN links /\ links' \in [1..Len(links) -> Link]
      BY <1>0, <1>10, <2>1 DEF AgeLink, Link, LinkStates
    <2>3. Len(links') = Len(links)
      BY <1>0, <2>2, FunIsSeq
    <2>4. AgesOnly
      BY <1>0, <1>10, <2>1, <2>2, <2>3 DEF AgeLink, AgesOnly, Works, Link
    <2> QED BY <1>10, <2>4, AgesLinks DEF AgeLink, GoesOn, MailsOn
  <1>11. CASE UNCHANGED vars
    BY <1>11, <1>a, AgesLinks DEF vars, GoesOn, MailsOn
  <1> QED
    BY <1>1, <1>2, <1>3, <1>4, <1>5, <1>6, <1>7, <1>8, <1>9, <1>10, <1>11 DEF Next

\* A used link takes no request that was not under way at its first use, whatever
\* overlaps and whatever fails.
THEOREM LinkEndsWithItsUseHolds == Spec => []LinkEndsWithItsUse
  <1>1. Typed /\ LinksOK /\ [Next]_vars => LinksOK'
    BY LinksNext
  <1>2. LinksOK => LinkEndsWithItsUse
    BY DEF LinksOK, UsesEnd, LinkEndsWithItsUse
  <1> QED BY <1>1, <1>2, TypedInit, TypedNext, LinksInit, PTL DEF Spec

\* A mail request ends every link it has found, whatever overlaps; only its own
\* failed UPDATE spares them.
THEOREM OnlyUnseenLinksStayHolds == Spec => []OnlyUnseenLinksStay
  <1>1. Typed /\ LinksOK /\ [Next]_vars => LinksOK'
    BY LinksNext
  <1>2. LinksOK => OnlyUnseenLinksStay
    BY DEF LinksOK
  <1> QED BY <1>1, <1>2, TypedInit, TypedNext, LinksInit, PTL DEF Spec
-----------------------------------------------------------------------------
\* Resets.  A request that will store the first session of a login, and the rows
\* that are or will again be a working session of one.
Opens(p) == req[p].of = 0 /\ (req[p].pc = "open" \/ req[p].then = "open")
Lives(s) == sessions[s].state = "live" \/ \E p \in Requests : req[p].pc = "open" /\ req[p].of = s
OldFirsts(u) == {p \in Requests : /\ Opens(p) /\ req[p].user = u
                                  /\ req[p].password # account[u].password}
OldRows(u) == {s \in DOMAIN sessions : /\ Lives(s) /\ sessions[s].user = u
                                       /\ sessions[s].password # account[u].password}

\* The logins with an older password, those that are still to come with them.
Standing(u) == {<<"first", p>> : p \in OldFirsts(u)}
                 \cup {<<"login", sessions[s].login>> : s \in OldRows(u)}
StandingOK == \A u \in Users : /\ IsFiniteSet(Standing(u))
                               /\ Cardinality(Standing(u)) < Cardinality(Requests)

LEMMA SmallerIs ==
  ASSUME NEW S, IsFiniteSet(S), Cardinality(S) < Cardinality(Requests), NEW T \in SUBSET S
  PROVE  IsFiniteSet(T) /\ Cardinality(T) < Cardinality(Requests)
  <1>1. IsFiniteSet(T) /\ Cardinality(T) <= Cardinality(S)
    BY FS_Subset
  <1>2. Cardinality(T) \in Nat /\ Cardinality(S) \in Nat /\ Cardinality(Requests) \in Nat
    BY <1>1, FS_CardinalityType, FewRequests
  <1> QED BY <1>1, <1>2

LEMMA ImageIs ==
  ASSUME NEW S, IsFiniteSet(S), NEW f, DOMAIN f = S, f \in [S -> {f[x] : x \in S}]
  PROVE  IsFiniteSet({f[x] : x \in S}) /\ Cardinality({f[x] : x \in S}) <= Cardinality(S)
  <1>1. f \in Surjection(S, {f[x] : x \in S})
    BY DEF Surjection
  <1> QED BY <1>1, FS_Surjection

\* What most steps do: nobody gets a new password, rows lose what they were
\* worth, and who starts a session starts from what is true now.
FewerStand ==
  /\ \A u \in Users : account'[u].password = account[u].password
  /\ DOMAIN sessions' = DOMAIN sessions
  /\ \A s \in DOMAIN sessions :
       /\ sessions'[s].user = sessions[s].user /\ sessions'[s].login = sessions[s].login
       /\ sessions'[s].password = sessions[s].password
       /\ sessions'[s].state = "live" => sessions[s].state = "live"
  /\ \A p \in Requests :
       /\ Opens(p)' => \/ Opens(p) /\ req'[p].user = req[p].user /\ req'[p].password = req[p].password
                       \/ req'[p].password = account[req'[p].user].password
       /\ req'[p].pc = "open" /\ req'[p].of # 0 =>
            \/ req[p].pc = "open" /\ req[p].of = req'[p].of
            \/ sessions[req'[p].of].state = "live"

LEMMA FewerStandOK ==
  ASSUME Typed, StandingOK, FewerStand
  PROVE  StandingOK'
  <1>1. SUFFICES ASSUME NEW u \in Users
                 PROVE  IsFiniteSet(Standing(u)') /\ Cardinality(Standing(u)') < Cardinality(Requests)
    BY DEF StandingOK
  <1>2. 0 \notin DOMAIN sessions
    BY Referred
  <1>3. OldFirsts(u)' \subseteq OldFirsts(u)
    BY DEF OldFirsts, FewerStand
  <1>4. ASSUME NEW s \in OldRows(u)'
        PROVE  s \in OldRows(u) /\ sessions'[s].login = sessions[s].login
    <2>1. /\ s \in DOMAIN sessions /\ Lives(s)' /\ sessions[s].user = u
          /\ sessions[s].password # account[u].password
          /\ sessions'[s].login = sessions[s].login
      BY <1>4 DEF OldRows, FewerStand
    <2>2. Lives(s)
      BY <1>2, <2>1 DEF Lives, FewerStand
    <2> QED BY <2>1, <2>2 DEF OldRows
  <1>5. Standing(u)' \subseteq Standing(u)
    BY <1>3, <1>4 DEF Standing
  <1> QED BY <1>5, SmallerIs DEF StandingOK

\* A row is added, and a request goes on: the logins that stand have no more in
\* number when each is an old one, or the one that this request was to start.
LEMMA AddedStandOK ==
  ASSUME Typed, StandingOK, NEW r \in Requests, NEW x, UNCHANGED account,
         sessions' = Append(sessions, x),
         \A p \in Requests \ {r} : req'[p] = req[p],
         req'[r].pc # "open", req'[r].then # "open", req[r].pc = "open",
         x.state = "live",
         \/ req[r].of = 0 /\ x.user = req[r].user /\ x.password = req[r].password
         \/ /\ req[r].of # 0 /\ x.user = sessions[req[r].of].user
            /\ x.password = sessions[req[r].of].password /\ x.login = sessions[req[r].of].login
  PROVE  StandingOK'
  <1>1. SUFFICES ASSUME NEW u \in Users
                 PROVE  IsFiniteSet(Standing(u)') /\ Cardinality(Standing(u)') < Cardinality(Requests)
    BY DEF StandingOK
  <1> DEFINE n == Len(sessions) + 1
  <1>2. /\ DOMAIN sessions' = 1..n /\ DOMAIN sessions = 1..Len(sessions) /\ Len(sessions) \in Nat
        /\ \A s \in DOMAIN sessions : sessions'[s] = sessions[s]
        /\ sessions'[n] = x
        /\ \A p \in Requests : req[p].of \in 0..Len(sessions)
    <2>1. sessions \in Seq(Session) /\ \A p \in Requests : req[p].of \in 0..Len(sessions)
      BY Referred DEF TypeOK
    <2> QED BY <2>1
  <1>3. OldFirsts(u)' = OldFirsts(u) \ {r}
    <2>1. \A p \in Requests \ {r} : Opens(p)' <=> Opens(p)
      BY DEF Opens
    <2>2. ~Opens(r)'
      BY DEF Opens
    <2> QED BY <2>1, <2>2 DEF OldFirsts
  <1>4. ASSUME NEW s \in OldRows(u)', s # n
        PROVE  s \in OldRows(u) /\ sessions'[s].login = sessions[s].login
    <2>1. s \in DOMAIN sessions /\ sessions'[s] = sessions[s]
      BY <1>2, <1>4 DEF OldRows
    <2>2. Lives(s)
      <3>1. Lives(s)'
        BY <1>4 DEF OldRows
      <3> QED BY <2>1, <3>1 DEF Lives
    <2> QED BY <1>4, <2>1, <2>2 DEF OldRows
  <1>5. n \in OldRows(u)' => x.user = u /\ x.password # account[u].password
    BY <1>2 DEF OldRows
  <1> HIDE DEF n
  <1>6. CASE n \notin OldRows(u)'
    <2>1. Standing(u)' \subseteq Standing(u)
      BY <1>3, <1>4, <1>6 DEF Standing
    <2> QED BY <2>1, SmallerIs DEF StandingOK
  <1>7. CASE n \in OldRows(u)' /\ req[r].of # 0
    <2>1. req[r].of \in OldRows(u)
      BY <1>2, <1>5, <1>7 DEF OldRows, Lives
    <2>2. <<"login", sessions'[n].login>> \in {<<"login", sessions[s].login>> : s \in OldRows(u)}
      BY <1>2, <1>7, <2>1
    <2>3. Standing(u)' \subseteq Standing(u)
      BY <1>3, <1>4, <2>2 DEF Standing
    <2> QED BY <2>3, SmallerIs DEF StandingOK
  <1>8. CASE n \in OldRows(u)' /\ req[r].of = 0
    <2> DEFINE old == Standing(u) \ {<<"first", r>>}
               new == old \cup {<<"login", x.login>>}
    <2>1. r \in OldFirsts(u)
      BY <1>5, <1>8 DEF OldFirsts, Opens
    <2>2. <<"first", r>> \in Standing(u)
      BY <2>1 DEF Standing
    <2>3. IsFiniteSet(Standing(u)) /\ Cardinality(Standing(u)) < Cardinality(Requests)
      BY DEF StandingOK
    <2>4. IsFiniteSet(old) /\ Cardinality(old) = Cardinality(Standing(u)) - 1
      BY <2>2, <2>3, FS_RemoveElement
    <2>5. Cardinality(old) \in Nat /\ Cardinality(Standing(u)) \in Nat
      BY <2>3, <2>4, FS_CardinalityType
    <2>6. IsFiniteSet(new) /\ (Cardinality(new) = Cardinality(old) \/ Cardinality(new) = Cardinality(old) + 1)
      <3> HIDE DEF old
      <3> QED BY <2>4, FS_AddElement
    <2>7. Cardinality(new) < Cardinality(Requests)
      <3> HIDE DEF old, new
      <3> QED BY <2>3, <2>4, <2>5, <2>6, FewRequests
    <2>8. Standing(u)' \subseteq new
      <3>1. ASSUME NEW p \in OldFirsts(u)' PROVE <<"first", p>> \in new
        BY <1>3, <3>1 DEF Standing
      <3>2. ASSUME NEW s \in OldRows(u)' PROVE <<"login", sessions'[s].login>> \in new
        <4>1. CASE s = n
          BY <1>2, <4>1
        <4>2. CASE s # n
          BY <1>4, <3>2, <4>2 DEF Standing
        <4> QED BY <4>1, <4>2
      <3> HIDE DEF new
      <3> QED BY <3>1, <3>2 DEF Standing
    <2> HIDE DEF new
    <2> QED BY <2>6, <2>7, <2>8, SmallerIs
  <1> QED BY <1>6, <1>7, <1>8

\* A reset leaves the logins that the other requests are about to go on with.
LEMMA RedeemStandOK ==
  ASSUME Typed, StandingOK, NEW r \in Requests, Redeem(r)
  PROVE  StandingOK'
  <1>0. /\ TypeOK /\ DOMAIN sessions = 1..Len(sessions) /\ req[r].user \in Users
        /\ \A p \in Requests : req[p].of \in 0..Len(sessions)
    BY Referred
  <1>1. SUFFICES ASSUME NEW u \in Users
                 PROVE  IsFiniteSet(Standing(u)') /\ Cardinality(Standing(u)') < Cardinality(Requests)
    BY DEF StandingOK
  <1>2. /\ DOMAIN sessions' = DOMAIN sessions
        /\ \A s \in DOMAIN sessions :
             /\ sessions'[s].user = sessions[s].user /\ sessions'[s].login = sessions[s].login
             /\ sessions'[s].password = sessions[s].password
             /\ sessions'[s].state = IF sessions[s].user = req[r].user THEN "revoked" ELSE sessions[s].state
    <2>1. sessions' = Revoked(OfUser(req[r].user))
      BY DEF Redeem
    <2>2. \A s \in DOMAIN sessions : sessions[s] \in Session
      BY <1>0, Facts
    <2>3. DOMAIN sessions' = DOMAIN sessions
          /\ \A s \in DOMAIN sessions :
               sessions'[s] = IF s \in OfUser(req[r].user) THEN [sessions[s] EXCEPT !.state = "revoked"]
                                                          ELSE sessions[s]
      BY <1>0, <2>1, RevokedIs
    <2>4. \A s \in DOMAIN sessions : s \in OfUser(req[r].user) <=> sessions[s].user = req[r].user
      BY DEF OfUser
    <2> QED BY <2>2, <2>3, <2>4 DEF Session
  <1>3. /\ req'[r].pc = "idle" /\ req'[r].then = "idle" /\ \A p \in Requests \ {r} : req'[p] = req[p]
    BY <1>0 DEF Redeem, Finish, NoRequest, TypeOK
  <1>4. CASE u # req[r].user
    <2>1. account'[u] = account[u]
      BY <1>0, <1>4 DEF Redeem, TypeOK
    <2>2. OldFirsts(u)' \subseteq OldFirsts(u)
      BY <1>3, <2>1 DEF OldFirsts, Opens
    <2>3. ASSUME NEW s \in OldRows(u)'
          PROVE  s \in OldRows(u) /\ sessions'[s].login = sessions[s].login
      BY <1>2, <1>3, <1>4, <2>1, <2>3 DEF OldRows, Lives
    <2>4. Standing(u)' \subseteq Standing(u)
      BY <2>2, <2>3 DEF Standing
    <2> QED BY <2>4, SmallerIs DEF StandingOK
  <1>5. CASE u = req[r].user
    <2> DEFINE others == Requests \ {r}
               f == [p \in others |-> IF req[p].of = 0 THEN <<"first", p>>
                                                       ELSE <<"login", sessions[req[p].of].login>>]
               image == {f[p] : p \in others}
    <2>1. IsFiniteSet(others) /\ Cardinality(others) < Cardinality(Requests)
      BY FewRequests
    <2>2. IsFiniteSet(image) /\ Cardinality(image) <= Cardinality(others)
      <3>1. DOMAIN f = others /\ f \in [others -> image]
        OBVIOUS
      <3> HIDE DEF f, others
      <3> QED BY <2>1, <3>1, ImageIs
    <2>3. Cardinality(image) < Cardinality(Requests)
      <3>1. Cardinality(image) \in Nat /\ Cardinality(others) \in Nat
        BY <2>1, <2>2, FS_CardinalityType
      <3> HIDE DEF image, others
      <3> QED BY <2>1, <2>2, <3>1, FewRequests
    <2>4. ASSUME NEW p \in OldFirsts(u)' PROVE <<"first", p>> \in image
      <3>1. p \in others /\ req[p].of = 0
        BY <1>3, <2>4 DEF OldFirsts, Opens
      <3>2. f[p] = <<"first", p>>
        BY <3>1
      <3> HIDE DEF f
      <3> QED BY <3>1, <3>2
    <2>5. ASSUME NEW s \in OldRows(u)' PROVE <<"login", sessions'[s].login>> \in image
      <3>1. s \in DOMAIN sessions /\ Lives(s)' /\ sessions'[s].state = "revoked" /\ s # 0
        BY <1>0, <1>2, <1>5, <2>5 DEF OldRows
      <3>2. PICK p \in Requests : req'[p].pc = "open" /\ req'[p].of = s
        BY <3>1 DEF Lives
      <3>3. p \in others /\ req[p].of = s
        BY <1>3, <3>2
      <3>4. f[p] = <<"login", sessions'[s].login>>
        BY <1>2, <3>1, <3>3
      <3> HIDE DEF f
      <3> QED BY <3>3, <3>4
    <2>6. Standing(u)' \subseteq image
      <3> HIDE DEF image
      <3> QED BY <2>4, <2>5 DEF Standing
    <2> HIDE DEF image
    <2> QED BY <2>2, <2>3, <2>6, SmallerIs
  <1> QED BY <1>4, <1>5

THEOREM StandingInit == Init => StandingOK
  <1> SUFFICES ASSUME Init, NEW u \in Users
               PROVE  IsFiniteSet(Standing(u)) /\ Cardinality(Standing(u)) < Cardinality(Requests)
    BY DEF StandingOK
  <1>1. \A p \in Requests : req[p].pc = "idle" /\ req[p].then = "idle"
    BY DEF Init, NoRequest
  <1>2. OldFirsts(u) = {} /\ OldRows(u) = {}
    BY <1>1 DEF Init, OldFirsts, OldRows, Opens
  <1>3. Standing(u) = {}
    BY <1>2 DEF Standing
  <1> QED BY <1>3, FS_EmptySet, FewRequests

THEOREM StandingNext == Typed /\ StandingOK /\ [Next]_vars => StandingOK'
  <1> SUFFICES ASSUME Typed, StandingOK, [Next]_vars PROVE StandingOK'
    OBVIOUS
  <1>0. /\ TypeOK /\ DOMAIN sessions = 1..Len(sessions) /\ Len(sessions) \in Nat
        /\ \A p \in Requests : req[p] \in Request /\ req[p].user \in Users
        /\ \A s \in DOMAIN sessions : sessions[s] \in Session
        /\ \A u \in Users : account[u] \in Account
        /\ \A p \in Requests : req[p].of \in 0..Len(sessions)
        /\ \A p \in Requests : req[p].then = "open" => req[p].of = 0
    BY Referred, Facts DEF TypeOK
  \* A request ends, or goes on without coming to where it opens a session.
  <1>a. ASSUME NEW r \in Requests, \A p \in Requests \ {r} : req'[p] = req[p],
               \/ Opens(r)' => /\ Opens(r) /\ req'[r].user = req[r].user
                               /\ req'[r].password = req[r].password
               \/ req'[r].password = account[req'[r].user].password,
               req'[r].pc # "open" \/ req'[r].of = 0,
               UNCHANGED sessions, \A u \in Users : account'[u].password = account[u].password
        PROVE  StandingOK'
    <2>1. FewerStand
      BY <1>a DEF FewerStand, Opens
    <2> QED BY <2>1, FewerStandOK
  <1>b. ASSUME NEW r \in Requests, Finish(r)
        PROVE  /\ \A p \in Requests \ {r} : req'[p] = req[p]
               /\ req'[r].pc = "idle" /\ req'[r].then = "idle"
    BY <1>0, <1>b DEF Finish, NoRequest, TypeOK
  <1>1. ASSUME NEW r \in Requests, NEW u \in Users,
               \/ Register(r, u) \/ Login(r, u)
               \/ \E purpose \in Purposes : RequestLink(r, u, purpose)
        PROVE  StandingOK'
    <2>1. \A p \in Requests \ {r} : req'[p] = req[p]
      BY <1>0, <1>1 DEF Register, Login, RequestLink, NoRequest, TypeOK
    <2>2. \/ req'[r].pc = "consume" /\ req'[r].then = "idle"
          \/ req'[r].password = account[req'[r].user].password
      <3>1. CASE Register(r, u)
        <4>1. req'[r] = [NoRequest(u) EXCEPT !.pc = "consume", !.purpose = "email_verification",
                                             !.then = "open", !.password = account[u].password]
          BY <1>0, <3>1 DEF Register, TypeOK
        <4> QED BY <4>1 DEF NoRequest
      <3>2. CASE Login(r, u)
        <4>1. req'[r] = [NoRequest(u) EXCEPT !.pc = "open", !.password = account[u].password]
          BY <1>0, <3>2 DEF Login, TypeOK
        <4> QED BY <4>1 DEF NoRequest
      <3>3. CASE \E purpose \in Purposes : RequestLink(r, u, purpose)
        BY <1>0, <3>3 DEF RequestLink, NoRequest, TypeOK
      <3> QED BY <1>1, <3>1, <3>2, <3>3
    <2>3. req'[r].of = 0
      <3>1. CASE Register(r, u)
        <4>1. req'[r] = [NoRequest(u) EXCEPT !.pc = "consume", !.purpose = "email_verification",
                                             !.then = "open", !.password = account[u].password]
          BY <1>0, <3>1 DEF Register, TypeOK
        <4> QED BY <4>1 DEF NoRequest
      <3>2. CASE Login(r, u)
        <4>1. req'[r] = [NoRequest(u) EXCEPT !.pc = "open", !.password = account[u].password]
          BY <1>0, <3>2 DEF Login, TypeOK
        <4> QED BY <4>1 DEF NoRequest
      <3>3. CASE \E purpose \in Purposes : RequestLink(r, u, purpose)
        BY <1>0, <3>3 DEF RequestLink, NoRequest, TypeOK
      <3> QED BY <1>1, <3>1, <3>2, <3>3
    <2>4. UNCHANGED sessions /\ \A v \in Users : account'[v].password = account[v].password
      <3>1. UNCHANGED sessions /\ (UNCHANGED account \/ account' = [account EXCEPT ![u].exists = TRUE])
        BY <1>1 DEF Register, Login, RequestLink
      <3>2. account \in [Users -> Account]
        BY <1>0 DEF TypeOK
      <3>3. CASE account' = [account EXCEPT ![u].exists = TRUE]
        <4>1. ASSUME NEW v \in Users PROVE account'[v].password = account[v].password
          <5>1. CASE v = u
            BY <3>2, <3>3, <5>1 DEF Account
          <5>2. CASE v # u
            BY <3>2, <3>3, <5>2
          <5> QED BY <5>1, <5>2
        <4> QED BY <3>1, <4>1
      <3> QED BY <3>1, <3>3
    <2> QED BY <1>a, <2>1, <2>2, <2>3, <2>4 DEF Opens
  <1>2. ASSUME NEW r \in Requests, NEW k \in DOMAIN sessions, Refresh(r, k) \/ Logout(r, k)
        PROVE  StandingOK'
    <2>1. PICK pc \in {"sweep", "drop", "open"} :
            /\ req' = [req EXCEPT ![r] = [NoRequest(sessions[k].user) EXCEPT !.pc = pc, !.of = k]]
            /\ UNCHANGED <<account, sessions>>
            /\ pc = "open" => sessions[k].state = "live"
      <3>1. sessions[k].state \in SessionStates
        BY <1>0 DEF Session
      <3> QED BY <1>2, <3>1 DEF Refresh, Logout, SessionStates
    <2>2. /\ req'[r].pc = pc /\ req'[r].of = k /\ req'[r].then = "idle" /\ k # 0
          /\ \A p \in Requests \ {r} : req'[p] = req[p]
      BY <1>0, <2>1 DEF NoRequest, TypeOK
    <2>3. FewerStand
      BY <2>1, <2>2 DEF FewerStand, Opens
    <2> QED BY <2>3, FewerStandOK
  <1>3. ASSUME NEW r \in Requests, NEW l \in DOMAIN links, ResetPassword(r, l) \/ VerifyEmail(r, l)
        PROVE  StandingOK'
    <2>1. /\ req'[r].pc # "open" /\ req'[r].then = "idle"
          /\ \A p \in Requests \ {r} : req'[p] = req[p]
      BY <1>0, <1>3 DEF ResetPassword, VerifyEmail, NoRequest, TypeOK
    <2>2. UNCHANGED <<sessions, account>>
      BY <1>3 DEF ResetPassword, VerifyEmail
    <2> QED BY <1>a, <2>1, <2>2 DEF Opens
  <1>4. ASSUME NEW r \in Requests, ConsumeLinks(r) \/ StoreLink(r) PROVE StandingOK'
    <2>1. /\ \A p \in Requests \ {r} : req'[p] = req[p]
          /\ UNCHANGED <<sessions, account>>
      BY <1>0, <1>4 DEF ConsumeLinks, StoreLink, Goto, Finish, TypeOK
    <2>2. \/ req'[r].pc = "idle" /\ req'[r].then = "idle"
          \/ /\ req'[r].user = req[r].user /\ req'[r].password = req[r].password
             /\ req'[r].of = req[r].of /\ req'[r].then = req[r].then
             /\ req'[r].pc = "store" \/ req[r].then = "open"
      BY <1>0, <1>4 DEF ConsumeLinks, StoreLink, Goto, Finish, NoRequest, TypeOK, Request
    <2>3. req'[r].pc # "open" \/ req'[r].of = 0
      BY <1>0, <2>2
    <2> QED BY <1>a, <2>1, <2>2, <2>3 DEF Opens
  <1>5. ASSUME NEW r \in Requests, OpenSession(r) PROVE StandingOK'
    <2>1. PICK x : /\ x = [user |-> req[r].user, state |-> "live", next |-> 0, login |-> Len(sessions) + 1,
                          password |-> req[r].password, given |-> TRUE]
                   /\ sessions' = Append(sessions, x) /\ Finish(r) /\ UNCHANGED account
                   /\ req[r].pc = "open" /\ req[r].of = 0
      BY <1>5 DEF OpenSession
    <2> QED BY <1>b, <2>1, AddedStandOK
  <1>6. ASSUME NEW r \in Requests, OpenNext(r) PROVE StandingOK'
    <2>1. PICK x : /\ x = [sessions[req[r].of] EXCEPT !.state = "live", !.next = 0, !.given = FALSE]
                   /\ sessions' = Append(sessions, x) /\ UNCHANGED account
                   /\ req[r].pc = "open" /\ req[r].of # 0
      BY <1>6 DEF OpenNext
    <2>2. sessions[req[r].of] \in Session
      BY <1>0, <2>1
    <2>3. /\ x.state = "live" /\ x.user = sessions[req[r].of].user
          /\ x.password = sessions[req[r].of].password /\ x.login = sessions[req[r].of].login
      BY <2>1, <2>2 DEF Session
    <2>4. /\ req'[r].pc = "rotate" /\ req'[r].then # "open" /\ \A p \in Requests \ {r} : req'[p] = req[p]
      BY <1>0, <1>6 DEF OpenNext, TypeOK, Request
    <2> QED BY <2>1, <2>3, <2>4, AddedStandOK
  <1>7. ASSUME NEW r \in Requests, Rotate(r) \/ Drop(r) \/ Sweep(r) PROVE StandingOK'
    <2>1. Finish(r) /\ UNCHANGED account
      BY <1>7 DEF Rotate, Drop, Sweep
    <2>2. /\ DOMAIN sessions' = DOMAIN sessions
          /\ \A s \in DOMAIN sessions :
               /\ sessions'[s].user = sessions[s].user /\ sessions'[s].login = sessions[s].login
               /\ sessions'[s].password = sessions[s].password
               /\ sessions'[s].state = "live" => sessions[s].state = "live"
      <3>1. CASE Rotate(r)
        <4>1. DOMAIN sessions' = DOMAIN sessions
              /\ \A s \in DOMAIN sessions :
                   \/ sessions'[s] = sessions[s]
                   \/ \E given \in BOOLEAN : sessions'[s] = [sessions[s] EXCEPT !.given = given]
                   \/ sessions'[s] = [sessions[s] EXCEPT !.state = "revoked", !.next = req[r].new]
          BY <3>1 DEF Rotate
        <4> QED BY <1>0, <4>1 DEF Session
      <3>2. CASE Drop(r) \/ Sweep(r)
        <4>1. PICK set : sessions' = Revoked(set)
          BY <3>2 DEF Drop, Sweep
        <4>2. DOMAIN sessions' = DOMAIN sessions
              /\ \A s \in DOMAIN sessions :
                   \/ sessions'[s] = sessions[s]
                   \/ sessions'[s] = [sessions[s] EXCEPT !.state = "revoked"]
          BY <1>0, <4>1, RevokedIs
        <4> QED BY <1>0, <4>2 DEF Session
      <3> QED BY <1>7, <3>1, <3>2
    <2>3. FewerStand
      BY <1>b, <2>1, <2>2 DEF FewerStand, Opens
    <2> QED BY <2>3, FewerStandOK
  <1>8. ASSUME NEW r \in Requests, Redeem(r) PROVE StandingOK'
    BY <1>8, RedeemStandOK
  <1>9. ASSUME NEW r \in Requests, Confirm(r) \/ Recheck(r) \/ Dies(r) PROVE StandingOK'
    <2>1. Finish(r) /\ UNCHANGED sessions
      BY <1>9 DEF Confirm, Recheck, Dies
    <2>2. \A u \in Users : account'[u].password = account[u].password
      <3>1. UNCHANGED account \/ account' = [account EXCEPT ![req[r].user].verified = TRUE]
        BY <1>9 DEF Confirm, Recheck, Dies
      <3> QED BY <1>0, <3>1 DEF TypeOK, Account
    <2> QED BY <1>a, <1>b, <2>1, <2>2 DEF Opens
  <1>10. ASSUME NEW k \in DOMAIN sessions, Lapse(k) PROVE StandingOK'
    <2>1. FewerStand
      BY <1>0, <1>10 DEF Lapse, FewerStand, Opens, Session
    <2> QED BY <2>1, FewerStandOK
  <1>11. CASE (\E l \in DOMAIN links : AgeLink(l)) \/ UNCHANGED vars
    <2>1. UNCHANGED <<account, sessions, req>>
      BY <1>11 DEF AgeLink, vars
    <2>2. FewerStand
      BY <2>1 DEF FewerStand, Opens
    <2> QED BY <2>2, FewerStandOK
  <1> QED
    BY <1>1, <1>2, <1>3, <1>4, <1>5, <1>6, <1>7, <1>8, <1>9, <1>10, <1>11 DEF Next

\* A reset leaves fewer logins with an older password than requests run at once,
\* however many there were, whatever overlaps and whatever fails.
THEOREM ResetEndsSettledLoginsHolds == Spec => []ResetEndsSettledLogins
  <1>1. ASSUME StandingOK PROVE ResetEndsSettledLogins
    <2>1. SUFFICES ASSUME NEW u \in Users PROVE Cardinality(Outlived(u)) < Cardinality(Requests)
      BY DEF ResetEndsSettledLogins
    <2> DEFINE f == [t \in Standing(u) |-> t[2]]
               image == {f[t] : t \in Standing(u)}
    <2>2. IsFiniteSet(Standing(u)) /\ Cardinality(Standing(u)) < Cardinality(Requests)
      BY <1>1 DEF StandingOK
    <2>3. IsFiniteSet(image) /\ Cardinality(image) <= Cardinality(Standing(u))
      <3>1. DOMAIN f = Standing(u) /\ f \in [Standing(u) -> image]
        OBVIOUS
      <3> HIDE DEF f
      <3> QED BY <2>2, <3>1, ImageIs
    <2>4. Cardinality(image) < Cardinality(Requests)
      <3>1. Cardinality(image) \in Nat /\ Cardinality(Standing(u)) \in Nat
        BY <2>2, <2>3, FS_CardinalityType
      <3> HIDE DEF image
      <3> QED BY <2>2, <2>3, <3>1, FewRequests
    <2>5. ASSUME NEW x \in Outlived(u) PROVE x \in image
      <3>1. PICK s \in OldRows(u) : x = sessions[s].login
        BY <2>5 DEF Outlived, OfUser, OldRows, Lives
      <3>2. <<"login", x>> \in Standing(u)
        BY <3>1 DEF Standing
      <3>3. f[<<"login", x>>] = x
        BY <3>2
      <3> HIDE DEF f
      <3> QED BY <3>2, <3>3
    <2> HIDE DEF image
    <2> QED BY <2>3, <2>4, <2>5, SmallerIs
  <1>2. Typed /\ StandingOK /\ [Next]_vars => StandingOK'
    BY StandingNext
  <1>3. StandingOK => ResetEndsSettledLogins
    BY <1>1
  <1> QED BY <1>2, <1>3, TypedInit, TypedNext, StandingInit, PTL DEF Spec
-----------------------------------------------------------------------------
\* VerifyEmail says yes about verified addresses only, whoever overlaps: an
\* address once verified stays so.
THEOREM ToldNext == Typed /\ ToldIsVerified /\ [Next]_vars => ToldIsVerified'
  <1> SUFFICES ASSUME Typed, ToldIsVerified, [Next]_vars PROVE ToldIsVerified'
    OBVIOUS
  <1>0. /\ account \in [Users -> Account] /\ told \subseteq Users
        /\ \A r \in Requests : req[r].user \in Users
        /\ \A u \in Users : account[u] \in Account
    BY DEF Typed, TypeOK, Request
  <1>1. ASSUME UNCHANGED <<account, told>> PROVE ToldIsVerified'
    BY <1>1 DEF ToldIsVerified
  <1>2. ASSUME NEW r \in Requests, NEW u \in Users, Register(r, u) PROVE ToldIsVerified'
    <2>1. \A v \in Users : account'[v].verified = account[v].verified
      BY <1>0, <1>2 DEF Register, Account
    <2> QED BY <1>0, <1>2, <2>1 DEF Register, ToldIsVerified
  <1>3. ASSUME NEW r \in Requests, Redeem(r) PROVE ToldIsVerified'
    <2>1. \A v \in Users : account'[v].verified = account[v].verified
      BY <1>0, <1>3 DEF Redeem, Account
    <2> QED BY <1>0, <1>3, <2>1 DEF Redeem, ToldIsVerified
  <1>4. ASSUME NEW r \in Requests, Confirm(r) PROVE ToldIsVerified'
    <2>1. \A v \in Users : account'[v].verified = (account[v].verified \/ v = req[r].user)
      <3>1. account' = [account EXCEPT ![req[r].user].verified = TRUE]
        BY <1>4 DEF Confirm
      <3>2. \A v \in Users : v # req[r].user => account'[v] = account[v]
        BY <1>0, <3>1
      <3>3. account'[req[r].user].verified = TRUE
        BY <1>0, <3>1 DEF Account
      <3>4. \A v \in Users : account[v].verified \in BOOLEAN
        BY <1>0 DEF Account
      <3> QED BY <3>2, <3>3, <3>4
    <2> QED BY <1>0, <1>4, <2>1 DEF Confirm, ToldIsVerified
  <1>5. ASSUME NEW r \in Requests, Recheck(r) PROVE ToldIsVerified'
    BY <1>5 DEF Recheck, ToldIsVerified
  <1>6. ASSUME NEW r \in Requests,
               \/ \E u \in Users : \/ Login(r, u)
                                   \/ \E purpose \in Purposes : RequestLink(r, u, purpose)
               \/ \E k \in DOMAIN sessions : Refresh(r, k) \/ Logout(r, k)
               \/ \E l \in DOMAIN links : ResetPassword(r, l) \/ VerifyEmail(r, l)
               \/ ConsumeLinks(r) \/ StoreLink(r) \/ OpenSession(r) \/ OpenNext(r)
               \/ Rotate(r) \/ Drop(r) \/ Sweep(r) \/ Dies(r)
        PROVE  ToldIsVerified'
    <2>1. UNCHANGED <<account, told>>
      BY <1>6 DEF Login, RequestLink, Refresh, Logout, ResetPassword, VerifyEmail, ConsumeLinks,
                  StoreLink, OpenSession, OpenNext, Rotate, Drop, Sweep, Dies
    <2> QED BY <1>1, <2>1
  <1>7. CASE (\E k \in DOMAIN sessions : Lapse(k)) \/ (\E l \in DOMAIN links : AgeLink(l)) \/ UNCHANGED vars
    BY <1>1, <1>7 DEF Lapse, AgeLink, vars
  <1> QED BY <1>2, <1>3, <1>4, <1>5, <1>6, <1>7 DEF Next

THEOREM ToldIsVerifiedHolds == Spec => []ToldIsVerified
  <1>1. Init => ToldIsVerified
    BY DEF Init, ToldIsVerified
  <1> QED BY <1>1, TypedInit, TypedNext, ToldNext, PTL DEF Spec
==============================================================================
