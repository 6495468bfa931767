----------------------------- MODULE RolesProofs -----------------------------
(* What holds of Roles for any number of users, roles and calls.            *)
EXTENDS Roles, TLAPS

Past == {"found", "unheld", "locked", "cleared"}
Writing(c) == call[c].pc \in {"locked", "cleared"}

In(h, r) == {u \in Users : <<u, r>> \in h}

\* What a call brought with it and has found.
Sound ==
  \A c \in Calls :
    /\ call[c].op \in {"create", "update"} => call[c].set \in Bundles
    /\ Writing(c) => call[c].op = "update"
    /\ call[c].pc \in Past /\ call[c].op \in {"update", "delete"} =>
         call[c].role \in RoleIds /\ status[call[c].role] # "unused"

\* The lock of UpdateRole is held by one call.
OneWriter ==
  \A c, d \in Calls : Writing(c) /\ Writing(d) /\ call[c].role = call[d].role => c = d

\* So what the transaction has deleted is all there is.
SeenIsAll ==
  \A c \in Calls :
    call[c].pc = "cleared" /\ status[call[c].role] = "live" => call[c].seen = perms[call[c].role]

IInv ==
  /\ TypeOK /\ Sound /\ OneWriter /\ SeenIsAll
  /\ WholePermissionSets /\ DeletionTakesLateGrantsOnly /\ GoneGrantsNothing
-----------------------------------------------------------------------------
(* What the steps do to the calls.                                          *)

Others(c) == \A d \in Calls : d # c => call'[d] = call[d]

LEMMA NoCallTyped == NoCall \in Call /\ NoCall.pc = "idle" /\ NoCall.op = "grant"
  BY RolesAssumption DEF NoCall, Request, Call, AllRoles

LEMMA DoneIs ==
  ASSUME TypeOK, NEW c \in Calls, Done(c)
  PROVE  call' \in [Calls -> Call] /\ call'[c] = NoCall /\ Others(c)
  BY NoCallTyped DEF TypeOK, Done, Others

LEMMA GoesIs ==
  ASSUME TypeOK, NEW c \in Calls,
         NEW pc \in {"allowed", "found", "unheld", "locked"}, Goes(c, pc)
  PROVE  /\ call' \in [Calls -> Call] /\ call'[c] = [call[c] EXCEPT !.pc = pc] /\ Others(c)
         /\ call'[c].pc = pc /\ call'[c].op = call[c].op /\ call'[c].role = call[c].role
         /\ call'[c].set = call[c].set /\ call'[c].seen = call[c].seen /\ call'[c].late = call[c].late
  <1>1. call[c] \in Call
    BY DEF TypeOK
  <1>2. [call[c] EXCEPT !.pc = pc] \in Call
    BY <1>1 DEF Call
  <1>3. call'[c] = [call[c] EXCEPT !.pc = pc]
    BY DEF TypeOK, Goes
  <1>4. call' \in [Calls -> Call] /\ Others(c)
    BY <1>2 DEF TypeOK, Goes, Others
  <1> QED BY <1>1, <1>3, <1>4 DEF Call

LEMMA AskIs ==
  ASSUME TypeOK, NEW c \in Calls, NEW op \in {"create", "update", "delete", "grant", "revoke"},
         NEW by \in Users, NEW r \in AllRoles, NEW u \in Users, NEW B \in SUBSET Permissions,
         Ask(c, op, by, r, u, B)
  PROVE  /\ call' \in [Calls -> Call] /\ Others(c)
         /\ call'[c].pc \in {"asked", "allowed"} /\ call'[c].op = op /\ call'[c].set = B
  <1> DEFINE to == IF <<by, Super>> \in holds THEN "allowed" ELSE "asked"
             new == [Request(op, by, r, u, B) EXCEPT !.pc = to]
  <1>1. new \in Call /\ new.pc \in {"asked", "allowed"} /\ new.op = op /\ new.set = B
    BY DEF Request, Call
  <1>2. call' = [call EXCEPT ![c] = new]
    BY DEF Ask
  <1> HIDE DEF new
  <1> QED BY <1>1, <1>2 DEF TypeOK, Others

LEMMA ClearIs ==
  ASSUME TypeOK, Sound, NEW c \in Calls, Clear(c)
  PROVE  /\ call' \in [Calls -> Call] /\ Others(c)
         /\ call'[c].pc = "cleared" /\ call'[c].op = call[c].op /\ call'[c].role = call[c].role
         /\ call'[c].set = call[c].set /\ call'[c].seen = perms[call[c].role]
  <1> DEFINE new == [call[c] EXCEPT !.pc = "cleared", !.seen = perms[call[c].role]]
  <1>1. call[c] \in Call /\ call[c].role \in RoleIds
    BY DEF TypeOK, Sound, Clear, Writing, Past
  <1>2. perms[call[c].role] \in SUBSET Permissions
    BY <1>1 DEF TypeOK
  <1>3. /\ new \in Call /\ new.pc = "cleared" /\ new.op = call[c].op /\ new.role = call[c].role
        /\ new.set = call[c].set /\ new.seen = perms[call[c].role]
    BY <1>1, <1>2 DEF Call
  <1>4. call' = [call EXCEPT ![c] = new]
    BY DEF Clear
  <1> HIDE DEF new
  <1> QED BY <1>3, <1>4 DEF TypeOK, Others

\* A grant tells the deletions under way, and changes nothing else of other calls.
LEMMA GrantIs ==
  ASSUME TypeOK, NEW c \in Calls, Grant(c)
  PROVE  /\ call' \in [Calls -> Call] /\ call'[c] = NoCall
         /\ \A d \in Calls : d # c =>
              /\ call'[d].pc = call[d].pc /\ call'[d].op = call[d].op /\ call'[d].role = call[d].role
              /\ call'[d].set = call[d].set /\ call'[d].seen = call[d].seen
              /\ call'[d].late = IF At(d, "unheld", "delete") /\ call[d].role = call[c].role
                                 THEN call[d].late \cup {call[c].to} ELSE call[d].late
  <1> DEFINE L(d) == [call[d] EXCEPT !.late = @ \cup {call[c].to}]
  <1>1. ASSUME NEW d \in Calls
        PROVE  /\ call[d] \in Call /\ L(d) \in Call
               /\ L(d).pc = call[d].pc /\ L(d).op = call[d].op /\ L(d).role = call[d].role
               /\ L(d).set = call[d].set /\ L(d).seen = call[d].seen
               /\ L(d).late = call[d].late \cup {call[c].to}
    BY DEF TypeOK, Call
  <1>2. call' = [d \in Calls |->
                   CASE d = c -> NoCall
                     [] d # c /\ At(d, "unheld", "delete") /\ call[d].role = call[c].role -> L(d)
                     [] OTHER -> call[d]]
    BY DEF Grant
  <1> HIDE DEF L
  <1> QED BY <1>1, <1>2, NoCallTyped

-----------------------------------------------------------------------------
LEMMA InitIInv == Init => IInv
  <1> SUFFICES ASSUME Init PROVE IInv
    OBVIOUS
  <1>1. \A c \in Calls : call[c].pc = "idle" /\ call[c].op = "grant"
    BY NoCallTyped DEF Init
  <1>2. TypeOK
    BY NoCallTyped, RolesAssumption DEF Init, TypeOK, AllRoles
  <1>3. \A r \in RoleIds : Holders(r) = {}
    BY RolesAssumption DEF Init, Holders
  <1>4. GoneGrantsNothing /\ WholePermissionSets
    BY <1>3 DEF Init, GoneGrantsNothing, WholePermissionSets
  <1>5. Sound /\ OneWriter /\ SeenIsAll /\ DeletionTakesLateGrantsOnly
    BY <1>1 DEF Sound, OneWriter, SeenIsAll, DeletionTakesLateGrantsOnly, Writing, Past, At
  <1> QED BY <1>2, <1>4, <1>5 DEF IInv

\* A step that changes one call only.
LEMMA CallOnly ==
  ASSUME IInv, NEW c \in Calls, call' \in [Calls -> Call], Others(c),
         UNCHANGED <<status, perms, holds>>,
         call'[c].op \in {"create", "update"} => call'[c].set \in Bundles,
         call'[c].pc \in {"locked", "cleared"} =>
           /\ call'[c].op = "update"
           /\ \A d \in Calls : d # c /\ Writing(d) => call[d].role # call'[c].role,
         call'[c].pc \in Past /\ call'[c].op \in {"update", "delete"} =>
           call'[c].role \in RoleIds /\ status[call'[c].role] # "unused",
         call'[c].pc = "cleared" => call'[c].seen = perms[call'[c].role],
         call'[c].pc = "unheld" => Holders(call'[c].role) \subseteq call'[c].late
  PROVE  IInv'
  <1>1. TypeOK'
    BY DEF IInv, TypeOK
  <1>2. Sound'
    <2> SUFFICES ASSUME NEW d \in Calls
                 PROVE  /\ call'[d].op \in {"create", "update"} => call'[d].set \in Bundles
                        /\ call'[d].pc \in {"locked", "cleared"} => call'[d].op = "update"
                        /\ call'[d].pc \in Past /\ call'[d].op \in {"update", "delete"} =>
                             call'[d].role \in RoleIds /\ status[call'[d].role] # "unused"
      BY DEF Sound, Writing
    <2>1. CASE d = c
      BY <2>1
    <2>2. CASE d # c
      BY <2>2 DEF Others, IInv, Sound, Writing
    <2> QED BY <2>1, <2>2
  <1>3. OneWriter'
    <2> SUFFICES ASSUME NEW d \in Calls, NEW e \in Calls,
                        call'[d].pc \in {"locked", "cleared"}, call'[e].pc \in {"locked", "cleared"},
                        call'[d].role = call'[e].role, d # e
                 PROVE  FALSE
      BY DEF OneWriter, Writing
    <2>1. CASE d = c
      BY <2>1 DEF Others, Writing
    <2>2. CASE e = c
      BY <2>2 DEF Others, Writing
    <2>3. CASE d # c /\ e # c
      BY <2>3 DEF Others, IInv, OneWriter, Writing
    <2> QED BY <2>1, <2>2, <2>3
  <1>4. SeenIsAll'
    <2> SUFFICES ASSUME NEW d \in Calls, call'[d].pc = "cleared", status[call'[d].role] = "live"
                 PROVE  call'[d].seen = perms[call'[d].role]
      BY DEF SeenIsAll
    <2>1. CASE d = c
      BY <2>1
    <2>2. CASE d # c
      BY <2>2 DEF Others, IInv, SeenIsAll
    <2> QED BY <2>1, <2>2
  <1>5. \A r : Holders(r)' = Holders(r)
    BY DEF Holders
  <1>6. DeletionTakesLateGrantsOnly'
    <2> SUFFICES ASSUME NEW d \in Calls, call'[d].pc = "unheld", call'[d].op = "delete"
                 PROVE  Holders(call'[d].role) \subseteq call'[d].late
      BY DEF DeletionTakesLateGrantsOnly, At, Holders
    <2>1. CASE d = c
      BY <2>1
    <2>2. CASE d # c
      BY <2>2 DEF Others, IInv, DeletionTakesLateGrantsOnly, At
    <2> QED BY <2>1, <2>2
  <1>7. WholePermissionSets' /\ GoneGrantsNothing'
    BY <1>5 DEF IInv, WholePermissionSets, GoneGrantsNothing
  <1> QED BY <1>1, <1>2, <1>3, <1>4, <1>6, <1>7 DEF IInv

\* A call that ends without a write.
LEMMA EndOnly ==
  ASSUME IInv, NEW c \in Calls, Done(c), UNCHANGED <<status, perms, holds>>
  PROVE  IInv'
  <1>1. call' \in [Calls -> Call] /\ call'[c] = NoCall /\ Others(c)
    BY DoneIs DEF IInv
  <1>2. call'[c].pc = "idle" /\ call'[c].op = "grant"
    BY <1>1, NoCallTyped
  <1> QED BY <1>1, <1>2, CallOnly DEF Past

\* A call that goes on without a write.
LEMMA GoOn ==
  ASSUME IInv, NEW c \in Calls, NEW pc \in {"allowed", "found", "unheld", "locked"},
         Goes(c, pc), UNCHANGED <<status, perms, holds>>,
         pc = "locked" => call[c].op = "update" /\ ~Locked(call[c].role),
         pc \in Past /\ call[c].op \in {"update", "delete"} =>
           call[c].role \in RoleIds /\ status[call[c].role] # "unused",
         pc = "unheld" => Holders(call[c].role) = {}
  PROVE  IInv'
  <1>1. /\ call' \in [Calls -> Call] /\ Others(c)
        /\ call'[c].pc = pc /\ call'[c].op = call[c].op /\ call'[c].role = call[c].role
        /\ call'[c].set = call[c].set
    BY GoesIs DEF IInv
  <1>2. call'[c].op \in {"create", "update"} => call'[c].set \in Bundles
    BY <1>1 DEF IInv, Sound
  <1>3. pc = "locked" => \A d \in Calls : d # c /\ Writing(d) => call[d].role # call[c].role
    BY DEF Locked, Writing
  <1> QED BY <1>1, <1>2, <1>3, CallOnly
-----------------------------------------------------------------------------
LEMMA AskKeeps ==
  ASSUME IInv, NEW c \in Calls, NEW op \in {"create", "update", "delete", "grant", "revoke"},
         NEW by \in Users, NEW r \in AllRoles, NEW u \in Users, NEW B \in Bundles \cup {{}},
         op \in {"create", "update"} => B \in Bundles, Ask(c, op, by, r, u, B)
  PROVE  IInv'
  <1>1. B \in SUBSET Permissions
    BY DEF Permissions
  <1>2. /\ call' \in [Calls -> Call] /\ Others(c)
        /\ call'[c].pc \in {"asked", "allowed"} /\ call'[c].op = op /\ call'[c].set = B
    BY <1>1, AskIs DEF IInv
  <1>3. UNCHANGED <<status, perms, holds>>
    BY DEF Ask
  <1> QED BY <1>2, <1>3, CallOnly DEF Past

LEMMA PermitKeeps == ASSUME IInv, NEW c \in Calls, Permit(c) PROVE IInv'
  BY GoOn DEF Permit, Past

LEMMA FindKeeps == ASSUME IInv, NEW c \in Calls, Find(c) PROVE IInv'
  <1>1. call[c] \in Call
    BY DEF IInv, TypeOK
  <1>2. call[c].op \in {"update", "delete"} =>
          call[c].role \in RoleIds /\ status[call[c].role] # "unused"
    BY <1>1 DEF Find, Exists, Call, AllRoles
  <1> QED BY <1>2, GoOn DEF Find

LEMMA CountKeeps == ASSUME IInv, NEW c \in Calls, Count(c) PROVE IInv'
  <1>1. call[c].role \in RoleIds /\ status[call[c].role] # "unused"
    BY DEF IInv, Sound, Count, At, Past
  <1> QED BY <1>1, GoOn DEF Count, At

LEMMA LockKeeps == ASSUME IInv, NEW c \in Calls, Lock(c) PROVE IInv'
  <1>1. call[c].role \in RoleIds /\ status[call[c].role] # "unused"
    BY DEF IInv, Sound, Lock, At, Past
  <1> QED BY <1>1, GoOn DEF Lock, At

LEMMA ClearKeeps == ASSUME IInv, NEW c \in Calls, Clear(c) PROVE IInv'
  <1>1. /\ call' \in [Calls -> Call] /\ Others(c)
        /\ call'[c].pc = "cleared" /\ call'[c].op = call[c].op /\ call'[c].role = call[c].role
        /\ call'[c].set = call[c].set /\ call'[c].seen = perms[call[c].role]
    BY ClearIs DEF IInv
  <1>2. /\ call[c].op = "update" /\ call[c].set \in Bundles
        /\ call[c].role \in RoleIds /\ status[call[c].role] # "unused"
    BY DEF IInv, Sound, Clear, Writing, Past
  <1>3. \A d \in Calls : d # c /\ Writing(d) => call[d].role # call[c].role
    BY DEF IInv, OneWriter, Clear, Writing
  <1>4. UNCHANGED <<status, perms, holds>>
    BY DEF Clear
  <1> QED BY <1>1, <1>2, <1>3, <1>4, CallOnly

LEMMA StopKeeps == ASSUME IInv, NEW c \in Calls, Stop(c) PROVE IInv'
  BY EndOnly DEF Stop
-----------------------------------------------------------------------------
(* The steps that write.  The call itself ends.                             *)

\* What the ended call and the others satisfy, where the roles they name are left alone.
LEMMA AfterEnd ==
  ASSUME IInv, NEW c \in Calls, call' \in [Calls -> Call], call'[c] = NoCall, Others(c),
         \A r \in RoleIds : status[r] # "unused" => status'[r] # "unused"
  PROVE  Sound' /\ OneWriter'
  <1>1. call'[c].pc = "idle" /\ call'[c].op = "grant"
    BY NoCallTyped
  <1>2. Sound'
    BY <1>1 DEF Others, IInv, Sound, Writing, Past
  <1>3. OneWriter'
    BY <1>1 DEF Others, IInv, OneWriter, Writing
  <1> QED BY <1>2, <1>3

LEMMA CreateKeeps == ASSUME IInv, NEW c \in Calls, NEW r \in RoleIds, Create(c, r) PROVE IInv'
  <1>1. call' \in [Calls -> Call] /\ call'[c] = NoCall /\ Others(c)
    BY DoneIs DEF IInv, Create
  <1>2. call[c] \in Call /\ call[c].set \in Bundles /\ call[c].set \in SUBSET Permissions
    BY DEF IInv, Sound, TypeOK, Create, At, Call
  <1>3. TypeOK'
    BY <1>1, <1>2 DEF IInv, TypeOK, Create
  <1>4. Sound' /\ OneWriter'
    BY <1>1, AfterEnd DEF IInv, TypeOK, Create
  <1>5. call'[c].pc = "idle"
    BY <1>1, NoCallTyped
  <1>6. SeenIsAll'
    <2> SUFFICES ASSUME NEW d \in Calls, d # c, call[d].pc = "cleared", status'[call[d].role] = "live"
                 PROVE  call[d].seen = perms'[call[d].role]
      BY <1>1, <1>5 DEF SeenIsAll, Others
    <2>1. call[d].role \in RoleIds /\ status[call[d].role] # "unused"
      BY DEF IInv, Sound, Writing, Past
    <2>2. call[d].role # r
      BY <2>1 DEF Create
    <2> QED BY <2>1, <2>2 DEF IInv, TypeOK, SeenIsAll, Create
  <1>7. \A s : Holders(s)' = Holders(s)
    BY DEF Holders, Create
  <1>8. DeletionTakesLateGrantsOnly'
    BY <1>1, <1>5, <1>7 DEF IInv, DeletionTakesLateGrantsOnly, At, Others
  <1>9. WholePermissionSets' /\ GoneGrantsNothing'
    BY <1>2, <1>7 DEF IInv, TypeOK, WholePermissionSets, GoneGrantsNothing, Create
  <1> QED BY <1>3, <1>4, <1>6, <1>8, <1>9 DEF IInv

LEMMA DeleteKeeps == ASSUME IInv, NEW c \in Calls, Delete(c) PROVE IInv'
  <1> DEFINE r == call[c].role
  <1>1. call' \in [Calls -> Call] /\ call'[c] = NoCall /\ Others(c) /\ call'[c].pc = "idle"
    BY DoneIs, NoCallTyped DEF IInv, Delete
  <1>2. r \in RoleIds
    BY DEF IInv, Sound, Delete, At, Past
  <1>3. /\ status' = [status EXCEPT ![r] = "gone"] /\ perms' = [perms EXCEPT ![r] = {}]
        /\ holds' = holds \ (Users \X {r}) /\ ~Locked(r)
    BY DEF Delete
  <1>4. TypeOK'
    BY <1>1, <1>3 DEF IInv, TypeOK
  <1>5. Sound' /\ OneWriter'
    <2>1. \A s \in RoleIds : status[s] # "unused" => status'[s] # "unused"
      BY <1>2, <1>3 DEF IInv, TypeOK
    <2> QED BY <1>1, <2>1, AfterEnd
  <1>6. SeenIsAll'
    <2> SUFFICES ASSUME NEW d \in Calls, d # c, call[d].pc = "cleared", status'[call[d].role] = "live"
                 PROVE  call[d].seen = perms'[call[d].role]
      BY <1>1 DEF SeenIsAll, Others
    <2>1. call[d].role \in RoleIds /\ call[d].role # r
      BY <1>3 DEF IInv, Sound, Writing, Past, Locked
    <2> QED BY <2>1, <1>3 DEF IInv, TypeOK, SeenIsAll
  <1>7. /\ \A s : In(holds', s) \subseteq Holders(s)
        /\ In(holds', r) = {}
    BY <1>3 DEF Holders, In
  <1>8. DeletionTakesLateGrantsOnly'
    <2> SUFFICES ASSUME NEW d \in Calls, d # c, At(d, "unheld", "delete")
                 PROVE  In(holds', call[d].role) \subseteq call[d].late
      BY <1>1 DEF DeletionTakesLateGrantsOnly, At, Others, Holders, In
    <2> QED BY <1>7 DEF IInv, DeletionTakesLateGrantsOnly, Holders, In
  <1>9. WholePermissionSets' /\ GoneGrantsNothing'
    BY <1>2, <1>3, <1>7 DEF IInv, TypeOK, WholePermissionSets, GoneGrantsNothing, Holders, In
  <1> QED BY <1>4, <1>5, <1>6, <1>8, <1>9 DEF IInv

LEMMA WriteKeeps == ASSUME IInv, NEW c \in Calls, Write(c) PROVE IInv'
  <1> DEFINE r == call[c].role
  <1>1. call' \in [Calls -> Call] /\ call'[c] = NoCall /\ Others(c) /\ call'[c].pc = "idle"
    BY DoneIs, NoCallTyped DEF IInv, Write
  <1>2. /\ call[c] \in Call /\ r \in RoleIds /\ r # Super /\ status[r] = "live" /\ call[c].set \in Bundles
        /\ call[c].set \in SUBSET Permissions
    BY RolesAssumption DEF IInv, TypeOK, Call, Sound, Write, Writing, Past, Exists
  <1>3. call[c].seen = perms[r]
    BY <1>2 DEF IInv, SeenIsAll, Write
  <1>4. perms' = [perms EXCEPT ![r] = call[c].set] /\ UNCHANGED <<status, holds>>
    <2>1. perms' = [perms EXCEPT ![r] = (@ \ call[c].seen) \cup call[c].set] /\ UNCHANGED <<status, holds>>
      BY DEF Write
    <2>2. (perms[r] \ call[c].seen) \cup call[c].set = call[c].set
      BY <1>3
    <2> QED BY <2>1, <2>2
  <1>5. TypeOK'
    BY <1>1, <1>2, <1>4 DEF IInv, TypeOK
  <1>6. Sound' /\ OneWriter'
    BY <1>1, <1>4, AfterEnd
  <1>7. SeenIsAll'
    <2> SUFFICES ASSUME NEW d \in Calls, d # c, call[d].pc = "cleared", status[call[d].role] = "live"
                 PROVE  call[d].seen = perms'[call[d].role]
      BY <1>1, <1>4 DEF SeenIsAll, Others
    <2>1. call[d].role \in RoleIds /\ call[d].role # r
      BY DEF IInv, OneWriter, Sound, Writing, Past, Write
    <2> QED BY <2>1, <1>4 DEF IInv, TypeOK, SeenIsAll
  <1>8. \A s : Holders(s)' = Holders(s)
    BY <1>4 DEF Holders
  <1>9. DeletionTakesLateGrantsOnly'
    BY <1>1, <1>8 DEF IInv, DeletionTakesLateGrantsOnly, At, Others
  <1>10. WholePermissionSets' /\ GoneGrantsNothing'
    BY <1>2, <1>4, <1>8 DEF IInv, TypeOK, WholePermissionSets, GoneGrantsNothing
  <1> QED BY <1>5, <1>6, <1>7, <1>9, <1>10 DEF IInv

LEMMA GrantKeeps == ASSUME IInv, NEW c \in Calls, Grant(c) PROVE IInv'
  <1> DEFINE r == call[c].role  u == call[c].to
  <1>1. /\ call' \in [Calls -> Call] /\ call'[c] = NoCall
        /\ \A d \in Calls : d # c =>
             /\ call'[d].pc = call[d].pc /\ call'[d].op = call[d].op /\ call'[d].role = call[d].role
             /\ call'[d].set = call[d].set /\ call'[d].seen = call[d].seen
             /\ call'[d].late = IF At(d, "unheld", "delete") /\ call[d].role = r
                                THEN call[d].late \cup {u} ELSE call[d].late
    BY GrantIs DEF IInv
  <1>2. call'[c].pc = "idle" /\ call'[c].op = "grant"
    BY <1>1, NoCallTyped
  <1>3. u \in Users /\ r \in AllRoles
    BY DEF IInv, TypeOK, Call
  <1>4. holds' = holds \cup {<<u, r>>} /\ UNCHANGED <<status, perms>> /\ Exists(r)
    BY DEF Grant
  <1>5. TypeOK'
    BY <1>1, <1>3, <1>4 DEF IInv, TypeOK
  <1>6. Sound'
    BY <1>1, <1>2, <1>4 DEF IInv, Sound, Writing, Past
  <1>7. OneWriter'
    BY <1>1, <1>2 DEF IInv, OneWriter, Writing
  <1>8. SeenIsAll'
    BY <1>1, <1>2, <1>4 DEF IInv, SeenIsAll
  <1>9. \A s : s # r => In(holds', s) = Holders(s)
    BY <1>4 DEF Holders, In
  <1>10. DeletionTakesLateGrantsOnly'
    <2> SUFFICES ASSUME NEW d \in Calls, d # c, At(d, "unheld", "delete")
                 PROVE  In(holds', call[d].role) \subseteq call'[d].late
      BY <1>1, <1>2 DEF DeletionTakesLateGrantsOnly, At, Holders, In
    <2>1. Holders(call[d].role) \subseteq call[d].late
      BY DEF IInv, DeletionTakesLateGrantsOnly
    <2>2. In(holds', call[d].role) \subseteq
            IF call[d].role = r THEN Holders(call[d].role) \cup {u} ELSE Holders(call[d].role)
      BY <1>4 DEF Holders, In
    <2> QED BY <1>1, <2>1, <2>2
  <1>11. \A s \in RoleIds : status[s] # "live" => s # r
    BY <1>4, RolesAssumption DEF Exists
  <1>12. WholePermissionSets' /\ GoneGrantsNothing'
    BY <1>4, <1>9, <1>11 DEF IInv, WholePermissionSets, GoneGrantsNothing, Holders, In
  <1> QED BY <1>5, <1>6, <1>7, <1>8, <1>10, <1>12 DEF IInv

LEMMA RevokeKeeps == ASSUME IInv, NEW c \in Calls, Revoke(c) PROVE IInv'
  <1>1. call' \in [Calls -> Call] /\ call'[c] = NoCall /\ Others(c) /\ call'[c].pc = "idle"
    BY DoneIs, NoCallTyped DEF IInv, Revoke
  <1>2. holds' \subseteq holds /\ UNCHANGED <<status, perms>>
    BY DEF Revoke
  <1>3. TypeOK'
    BY <1>1, <1>2 DEF IInv, TypeOK
  <1>4. Sound' /\ OneWriter'
    BY <1>1, <1>2, AfterEnd
  <1>5. SeenIsAll'
    BY <1>1, <1>2 DEF IInv, SeenIsAll, Others
  <1>6. \A s : In(holds', s) \subseteq Holders(s)
    BY <1>2 DEF Holders, In
  <1>7. DeletionTakesLateGrantsOnly'
    <2> SUFFICES ASSUME NEW d \in Calls, d # c, At(d, "unheld", "delete")
                 PROVE  In(holds', call[d].role) \subseteq call[d].late
      BY <1>1 DEF DeletionTakesLateGrantsOnly, At, Others, Holders, In
    <2> QED BY <1>6 DEF IInv, DeletionTakesLateGrantsOnly, Holders, In
  <1>8. WholePermissionSets' /\ GoneGrantsNothing'
    BY <1>2, <1>6 DEF IInv, WholePermissionSets, GoneGrantsNothing, Holders, In
  <1> QED BY <1>3, <1>4, <1>5, <1>7, <1>8 DEF IInv
-----------------------------------------------------------------------------
LEMMA StepIInv == IInv /\ [Next]_vars => IInv'
  <1> SUFFICES ASSUME IInv, [Next]_vars PROVE IInv'
    OBVIOUS
  <1>1. CASE UNCHANGED vars
    BY <1>1 DEF vars, IInv, TypeOK, Sound, Writing, OneWriter, SeenIsAll, WholePermissionSets,
                DeletionTakesLateGrantsOnly, GoneGrantsNothing, At, Holders
  <1>2. CASE Next
    <2> PICK c \in Calls :
          \/ \E op \in {"grant", "revoke"}, by, u \in Users, r \in AllRoles : Ask(c, op, by, r, u, {})
          \/ \E by \in Users, B \in Bundles : Ask(c, "create", by, Super, by, B)
          \/ \E by \in Users, r \in AllRoles, B \in Bundles : Ask(c, "update", by, r, by, B)
          \/ \E by \in Users, r \in AllRoles : Ask(c, "delete", by, r, by, {})
          \/ \E r \in RoleIds : Create(c, r)
          \/ Permit(c) \/ Find(c) \/ Count(c) \/ Delete(c) \/ Lock(c) \/ Clear(c) \/ Write(c)
          \/ Grant(c) \/ Revoke(c) \/ Stop(c)
      BY <1>2 DEF Next
    <2>1. CASE \E op \in {"grant", "revoke"}, by, u \in Users, r \in AllRoles : Ask(c, op, by, r, u, {})
      <3> PICK op \in {"grant", "revoke"}, by \in Users, u \in Users, r \in AllRoles : Ask(c, op, by, r, u, {})
        BY <2>1
      <3> QED BY AskKeeps
    <2>2. CASE \E by \in Users, B \in Bundles : Ask(c, "create", by, Super, by, B)
      <3> PICK by \in Users, B \in Bundles : Ask(c, "create", by, Super, by, B)
        BY <2>2
      <3> Super \in AllRoles
        BY DEF AllRoles
      <3> QED BY AskKeeps
    <2>3. CASE \E by \in Users, r \in AllRoles, B \in Bundles : Ask(c, "update", by, r, by, B)
      <3> PICK by \in Users, r \in AllRoles, B \in Bundles : Ask(c, "update", by, r, by, B)
        BY <2>3
      <3> QED BY AskKeeps
    <2>4. CASE \E by \in Users, r \in AllRoles : Ask(c, "delete", by, r, by, {})
      <3> PICK by \in Users, r \in AllRoles : Ask(c, "delete", by, r, by, {})
        BY <2>4
      <3> QED BY AskKeeps
    <2>5. CASE \E r \in RoleIds : Create(c, r)
      BY <2>5, CreateKeeps
    <2>6. CASE Permit(c) \/ Find(c) \/ Count(c) \/ Lock(c) \/ Clear(c) \/ Stop(c)
      BY <2>6, PermitKeeps, FindKeeps, CountKeeps, LockKeeps, ClearKeeps, StopKeeps
    <2>7. CASE Delete(c) \/ Write(c) \/ Grant(c) \/ Revoke(c)
      BY <2>7, DeleteKeeps, WriteKeeps, GrantKeeps, RevokeKeeps
    <2> QED BY <2>1, <2>2, <2>3, <2>4, <2>5, <2>6, <2>7
  <1> QED BY <1>1, <1>2

\* The inductive invariant.
LEMMA Always == Spec => []IInv
  BY InitIInv, StepIInv, PTL DEF Spec

\* Every variable keeps its type.
THEOREM TypeCorrect == Spec => []TypeOK
  <1>1. IInv => TypeOK
    BY DEF IInv
  <1> QED BY <1>1, Always, PTL

\* UpdateRole: of any number of updates at once, the set of one stands.
THEOREM WholePermissionSetsHolds == Spec => []WholePermissionSets
  <1>1. IInv => WholePermissionSets
    BY DEF IInv
  <1> QED BY <1>1, Always, PTL

\* DeleteRole takes no assignment that was there when it counted.
THEOREM LateGrantsHolds == Spec => []DeletionTakesLateGrantsOnly
  <1>1. IInv => DeletionTakesLateGrantsOnly
    BY DEF IInv
  <1> QED BY <1>1, Always, PTL

\* A deleted role grants nothing to anybody, whatever calls still name it.
THEOREM GoneHolds == Spec => []GoneGrantsNothing
  <1>1. IInv => GoneGrantsNothing
    BY DEF IInv
  <1> QED BY <1>1, Always, PTL
==============================================================================
