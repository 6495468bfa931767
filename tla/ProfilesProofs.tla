---------------------------- MODULE ProfilesProofs ----------------------------
(* What holds of Profiles for any number of accounts, profiles and requests.  *)
EXTENDS Profiles, FiniteSetTheorems, TLAPS

\* What a request knows of the row it will write.
Informed ==
  \A q \in Requests :
    /\ request[q].pc = "named" => request[q].slug \in Slugs
    /\ request[q].pc \in {"owned", "merged", "decided"} =>
         request[q].slug \in Slugs /\ There(request[q].slug)
    /\ request[q].pc = "merged" /\ ~request[q].late => request[q].read = Reading(request[q].slug)
    /\ request[q].pc = "decided" /\ ~request[q].late =>
         Allowed(profile[request[q].slug].status, request[q].to)

\* The profiles of an account can be counted, and are few.
Few == (\A a \in Accounts : IsFiniteSet(Owned(a))) /\ ProfilesWithinOverlap

IInv == TypeOK /\ Informed /\ Few

Others(q) == \A p \in Requests : p # q => request'[p] = request[p]
-----------------------------------------------------------------------------
LEMMA BlankTyped == Blank \in Values
  BY ProfilesAssumption DEF Blank

LEMMA NoPatchTyped == NoPatch \in Patches
  <1>1. NoPatch \in [{} -> Values]
    BY DEF NoPatch
  <1>2. {} \in SUBSET Fields
    OBVIOUS
  <1> QED BY <1>1, <1>2 DEF Patches

LEMMA AtTyped ==
  ASSUME NEW pc \in {"idle", "checked", "owned", "decided"},
         NEW a \in Accounts \cup {None}, NEW s \in Slugs \cup {None}
  PROVE  /\ At(pc, a, s) \in Request
         /\ At(pc, a, s).pc = pc /\ At(pc, a, s).slug = s /\ At(pc, a, s).by = a
  <1>1. [f \in Scalars |-> Blank] \in [Scalars -> Values]
    BY BlankTyped
  <1>2. "pending" \in Statuses /\ FALSE \in BOOLEAN
    BY DEF Statuses
  <1>3. At(pc, a, s) \in Request
    BY <1>1, <1>2, NoPatchTyped DEF At, Request
  <1>4. /\ At(pc, a, s).pc = pc /\ At(pc, a, s).slug = s /\ At(pc, a, s).by = a
    BY DEF At
  <1> QED BY <1>3, <1>4

LEMMA IdleTyped == Idle \in Request /\ Idle.pc = "idle"
  BY AtTyped DEF Idle

LEMMA RowTyped ==
  ASSUME NEW a \in Accounts \cup {None}, NEW st \in Statuses \cup {"none"},
         NEW has \in [Fields -> Values]
  PROVE  /\ Row(a, st, has) \in Profile
         /\ Row(a, st, has).owner = a /\ Row(a, st, has).status = st
  <1>1. FALSE \in BOOLEAN
    OBVIOUS
  <1> QED BY <1>1 DEF Row, Profile

LEMMA ReadingTyped ==
  ASSUME TypeOK, NEW s \in Slugs PROVE Reading(s) \in [Scalars -> Values]
  BY DEF TypeOK, Profile, Reading, Fields
\* A step that leaves the owners alone and starts no creation for an account with a profile.
LEMMA FewStay ==
  ASSUME IInv, \A a \in Accounts : Owned(a)' = Owned(a),
         \A a \in Accounts : Owned(a) # {} => Creating(a)' \subseteq Creating(a)
  PROVE  Few'
<1>1. \A a \in Accounts : IsFiniteSet(Owned(a))'
  BY DEF IInv, Few
<1>2. ASSUME NEW a \in Accounts, Owned(a) # {}
      PROVE  Cardinality(Owned(a)) + Cardinality(Creating(a)') <= Cardinality(Requests)
  <2>1. IsFiniteSet(Creating(a)) /\ Creating(a)' \in SUBSET Creating(a)
    BY <1>2, ProfilesAssumption, FS_Subset DEF Creating
  <2>2. Cardinality(Creating(a)') <= Cardinality(Creating(a)) /\ IsFiniteSet(Creating(a)')
    BY <2>1, FS_Subset
  <2>3. /\ Cardinality(Creating(a)') \in Nat /\ Cardinality(Creating(a)) \in Nat
        /\ Cardinality(Owned(a)) \in Nat /\ Cardinality(Requests) \in Nat
    BY <2>1, <2>2, ProfilesAssumption, FS_CardinalityType DEF IInv, Few
  <2>4. Cardinality(Owned(a)) + Cardinality(Creating(a)) <= Cardinality(Requests)
    BY <1>2 DEF IInv, Few, ProfilesWithinOverlap
  <2> QED BY <2>2, <2>3, <2>4
<1>3. ProfilesWithinOverlap'
  BY <1>2 DEF ProfilesWithinOverlap
<1> QED BY <1>1, <1>3 DEF Few

\* An account without a profile, or with a creation under way, gets one.
LEMMA FewMore ==
  ASSUME IInv, NEW q \in Requests, NEW s \in Slugs, NEW b,
         \A a \in Accounts : Owned(a)' = IF a = b THEN Owned(a) \cup {s} ELSE Owned(a),
         \A a \in Accounts : Creating(a)' = Creating(a) \ {q},
         b \in Accounts => q \in Creating(b)
  PROVE  Few'
<1>1. \A a \in Accounts : IsFiniteSet(Owned(a))'
  BY FS_AddElement DEF IInv, Few
<1>2. ASSUME NEW a \in Accounts, Owned(a)' # {}
      PROVE  Cardinality(Owned(a)') + Cardinality(Creating(a)') <= Cardinality(Requests)
  <2>1. IsFiniteSet(Creating(a)) /\ Cardinality(Creating(a)) <= Cardinality(Requests)
    BY ProfilesAssumption, FS_Subset DEF Creating
  <2>2. /\ IsFiniteSet(Creating(a)')
        /\ Cardinality(Creating(a)') = IF q \in Creating(a) THEN Cardinality(Creating(a)) - 1
                                                           ELSE Cardinality(Creating(a))
    BY <2>1, FS_RemoveElement
  <2>3. /\ Cardinality(Creating(a)') \in Nat /\ Cardinality(Creating(a)) \in Nat
        /\ Cardinality(Owned(a)) \in Nat /\ Cardinality(Requests) \in Nat
    BY <2>1, <2>2, ProfilesAssumption, FS_CardinalityType DEF IInv, Few
  <2>4. Owned(a) # {} => Cardinality(Owned(a)) + Cardinality(Creating(a)) <= Cardinality(Requests)
    BY DEF IInv, Few, ProfilesWithinOverlap
  <2>5. CASE a # b
    <3>1. Owned(a)' = Owned(a)
      BY <2>5
    <3> QED BY <1>2, <2>2, <2>3, <2>4, <3>1
  <2>6. CASE a = b
    <3>1. q \in Creating(a)
      BY <2>6
    <3>2. Owned(a)' = Owned(a) \cup {s} /\ IsFiniteSet(Owned(a))
      BY <2>6 DEF IInv, Few
    <3>3. Cardinality(Owned(a)') <= Cardinality(Owned(a)) + 1 /\ Cardinality(Owned(a)') \in Nat
      <4>1. Cardinality(Owned(a) \cup {s}) = IF s \in Owned(a) THEN Cardinality(Owned(a))
                                                               ELSE Cardinality(Owned(a)) + 1
        BY <3>2, FS_AddElement
      <4>2. Cardinality(Owned(a)') = Cardinality(Owned(a) \cup {s})
        BY <3>2
      <4> QED BY <2>3, <4>1, <4>2
    <3>4. Owned(a) = {} => Cardinality(Owned(a)) = 0
      BY FS_EmptySet
    <3> QED BY <2>1, <2>2, <2>3, <2>4, <3>1, <3>3, <3>4
  <2> QED BY <2>5, <2>6
<1>3. ProfilesWithinOverlap'
  BY <1>2 DEF ProfilesWithinOverlap
<1> QED BY <1>1, <1>3 DEF Few
-----------------------------------------------------------------------------
LEMMA InitIInv == Init => IInv
  <1> SUFFICES ASSUME Init PROVE IInv
    OBVIOUS
  <1> DEFINE blank == [f \in Fields |-> Blank]
  <1>0. blank \in [Fields -> Values]
    BY BlankTyped
  <1>1. NoRow \in Profile /\ NoRow.status = "none"
    <2>1. None \in Accounts \cup {None} /\ "none" \in Statuses \cup {"none"}
      OBVIOUS
    <2> HIDE DEF blank
    <2>2. Row(None, "none", blank) \in Profile /\ Row(None, "none", blank).status = "none"
      BY <2>1, <1>0, RowTyped
    <2> QED BY <2>2 DEF NoRow, blank
  <1>2. \A q \in Requests : request[q].pc = "idle"
    BY IdleTyped DEF Init
  <1>3. request \in [Requests -> Request]
    BY IdleTyped DEF Init
  <1>4. Informed
    BY <1>2 DEF Informed
  <1>5. profile \in [Slugs -> Profile] /\ \A s, t \in Slugs : There(s) /\ There(t) => s = t
    <2>1. CASE profile = [s \in Slugs |-> NoRow]
      BY <2>1, <1>1 DEF There
    <2>2. ASSUME NEW s \in Slugs, NEW a \in Accounts \cup {None},
                 profile = [[t \in Slugs |-> NoRow] EXCEPT ![s] = Row(a, "approved", blank)]
          PROVE  profile \in [Slugs -> Profile] /\ \A t \in Slugs : There(t) => t = s
      <3>1. Row(a, "approved", blank) \in Profile
        BY <1>0, RowTyped DEF Statuses
      <3> QED BY <1>1, <2>2, <3>1 DEF There
    <2> QED BY <2>1, <2>2 DEF Init
  <1>6. Few
    <2> SUFFICES ASSUME NEW a \in Accounts
                 PROVE  /\ IsFiniteSet(Owned(a))
                        /\ Owned(a) # {} =>
                             Cardinality(Owned(a)) + Cardinality(Creating(a)) <= Cardinality(Requests)
      BY DEF Few, ProfilesWithinOverlap
    <2>1. Creating(a) = {}
      BY <1>2 DEF Creating
    <2>2. \A s, t \in Owned(a) : s = t
      BY <1>5 DEF Owned
    <2>3. CASE Owned(a) = {}
      BY <2>3, FS_EmptySet
    <2>4. CASE Owned(a) # {}
      <3>1. PICK s : Owned(a) = {s}
        BY <2>2, <2>4
      <3>2. IsFiniteSet(Owned(a)) /\ Cardinality(Owned(a)) = 1 /\ Cardinality(Creating(a)) = 0
        BY <2>1, <3>1, FS_Singleton, FS_EmptySet
      <3>3. Cardinality(Requests) \in Nat /\ Cardinality(Requests) # 0
        BY ProfilesAssumption, FS_CardinalityType, FS_EmptySet
      <3> QED BY <3>2, <3>3
    <2> QED BY <2>3, <2>4
  <1> QED BY <1>3, <1>4, <1>5, <1>6 DEF IInv, TypeOK

\* A step that changes one request only.
LEMMA RequestOnly ==
  ASSUME IInv, NEW q \in Requests, NEW new \in Request,
         request' = [request EXCEPT ![q] = new], profile' = profile,
         new.pc \in {"checked", "named"} =>
           Owned(new.by) = {} \/ (request[q].pc \in {"checked", "named"} /\ request[q].by = new.by),
         new.pc = "named" => new.slug \in Slugs,
         new.pc \in {"owned", "merged", "decided"} => new.slug \in Slugs /\ There(new.slug),
         new.pc = "merged" /\ ~new.late => new.read = Reading(new.slug),
         new.pc = "decided" /\ ~new.late => Allowed(profile[new.slug].status, new.to)
  PROVE  IInv'
  <1>1. TypeOK' /\ request'[q] = new /\ Others(q)
    BY DEF IInv, TypeOK, Others
  <1>2. Few'
    <2>1. \A a \in Accounts : Owned(a)' = Owned(a)
      BY DEF Owned, There
    <2>2. \A a \in Accounts : Owned(a) # {} => Creating(a)' \subseteq Creating(a)
      BY <1>1 DEF Creating, Others
    <2> QED BY <2>1, <2>2, FewStay
  <1>3. Informed'
    <2> SUFFICES ASSUME NEW p \in Requests
                 PROVE  /\ request'[p].pc = "named" => request'[p].slug \in Slugs
                        /\ request'[p].pc \in {"owned", "merged", "decided"} =>
                             request'[p].slug \in Slugs /\ There(request'[p].slug)
                        /\ request'[p].pc = "merged" /\ ~request'[p].late =>
                             request'[p].read = Reading(request'[p].slug)
                        /\ request'[p].pc = "decided" /\ ~request'[p].late =>
                             Allowed(profile[request'[p].slug].status, request'[p].to)
      BY DEF Informed, There, Reading
    <2>1. CASE p = q
      BY <2>1, <1>1
    <2>2. CASE p # q
      BY <2>2, <1>1 DEF Others, IInv, Informed
    <2> QED BY <2>1, <2>2
  <1> QED BY <1>1, <1>2, <1>3 DEF IInv

\* A request that ends without a write.
LEMMA EndOnly ==
  ASSUME IInv, NEW q \in Requests, request' = [request EXCEPT ![q] = Idle], profile' = profile
  PROVE  IInv'
  BY IdleTyped, RequestOnly
-----------------------------------------------------------------------------
(* The steps of one request that read.                                      *)

LEMMA CheckKeeps == ASSUME IInv, NEW q \in Requests, NEW a \in Accounts, Check(q, a) PROVE IInv'
  <1> DEFINE new == At("checked", a, None)
  <1>1. new \in Request /\ new.pc = "checked" /\ new.by = a
    BY AtTyped
  <1> HIDE DEF new
  <1> QED BY <1>1, RequestOnly DEF Check, new

LEMMA NameKeeps == ASSUME IInv, NEW q \in Requests, NEW s \in Slugs, Name(q, s) PROVE IInv'
  <1> DEFINE new == [request[q] EXCEPT !.pc = "named", !.slug = s]
  <1>1. request[q] \in Request /\ request[q].pc = "checked"
    BY DEF IInv, TypeOK, Name
  <1>2. new \in Request /\ new.pc = "named" /\ new.slug = s /\ new.by = request[q].by
    BY <1>1 DEF Request
  <1>3. request' = [request EXCEPT ![q] = new] /\ profile' = profile
    BY DEF Name
  <1> HIDE DEF new
  <1> QED BY <1>1, <1>2, <1>3, RequestOnly

LEMMA OwnKeeps ==
  ASSUME IInv, NEW q \in Requests, NEW a \in Accounts, NEW s \in Slugs, NEW patch \in Patches,
         Own(q, a, s, patch)
  PROVE  IInv'
  <1> DEFINE new == [At("owned", None, s) EXCEPT !.patch = patch]
  <1>1. /\ At("owned", None, s) \in Request
        /\ At("owned", None, s).pc = "owned" /\ At("owned", None, s).slug = s
    BY AtTyped
  <1>2. new \in Request /\ new.pc = "owned" /\ new.slug = s
    BY <1>1 DEF Request
  <1>3. request' = [request EXCEPT ![q] = new] /\ profile' = profile /\ There(s)
    BY DEF Own
  <1> HIDE DEF new
  <1> QED BY <1>2, <1>3, RequestOnly

LEMMA MergeKeeps == ASSUME IInv, NEW q \in Requests, Merge(q) PROVE IInv'
  <1> PICK s : s = request[q].slug
    OBVIOUS
  <1> PICK read : read = Reading(s)
    OBVIOUS
  <1> DEFINE new == [request[q] EXCEPT !.pc = "merged", !.read = read]
  <1>1. request[q] \in Request /\ s \in Slugs /\ There(s)
    BY DEF IInv, TypeOK, Informed, Merge
  <1>2. read \in [Scalars -> Values]
    BY <1>1, ReadingTyped DEF IInv
  <1>3. new \in Request /\ new.pc = "merged" /\ new.slug = s /\ new.read = read
    BY <1>1, <1>2 DEF Request
  <1>4. request' = [request EXCEPT ![q] = new] /\ profile' = profile
    BY DEF Merge
  <1> HIDE DEF new
  <1> QED BY <1>1, <1>3, <1>4, RequestOnly

LEMMA DecideKeeps ==
  ASSUME IInv, NEW q \in Requests, NEW s \in Slugs, NEW to \in Statuses, Decide(q, s, to)
  PROVE  IInv'
  <1> DEFINE new == [At("decided", None, s) EXCEPT !.to = to]
  <1>1. /\ At("decided", None, s) \in Request
        /\ At("decided", None, s).pc = "decided" /\ At("decided", None, s).slug = s
    BY AtTyped
  <1>2. new \in Request /\ new.pc = "decided" /\ new.slug = s /\ new.to = to
    BY <1>1 DEF Request
  <1>3. /\ request' = [request EXCEPT ![q] = new] /\ profile' = profile
        /\ There(s) /\ Allowed(profile[s].status, to)
    BY DEF Decide
  <1> HIDE DEF new
  <1> QED BY <1>2, <1>3, RequestOnly
-----------------------------------------------------------------------------
(* The steps that write a row.                                              *)

LEMMA InsertKeeps ==
  ASSUME IInv, NEW q \in Requests, NEW has \in [Fields -> Values], Insert(q, has)
  PROVE  IInv'
  <1> PICK a : a = request[q].by
    OBVIOUS
  <1> PICK s : s = request[q].slug
    OBVIOUS
  <1>1. a \in Accounts \cup {None} /\ s \in Slugs /\ ~There(s)
    BY DEF IInv, TypeOK, Request, Informed, Insert
  <1> DEFINE row == Row(a, "pending", has)
  <1>2. row \in Profile /\ row.owner = a /\ row.status = "pending"
    <2>1. "pending" \in Statuses \cup {"none"}
      BY DEF Statuses
    <2> QED BY ONLY <1>1, <2>1, has \in [Fields -> Values], RowTyped, Zenon
  <1>3. profile' = [profile EXCEPT ![s] = row] /\ request' = [request EXCEPT ![q] = Idle]
    BY DEF Insert
  <1> HIDE DEF row
  <1>4. /\ profile' \in [Slugs -> Profile] /\ request' \in [Requests -> Request]
        /\ profile'[s] = row /\ \A t \in Slugs : t # s => profile'[t] = profile[t]
        /\ request'[q] = Idle /\ Others(q)
    BY <1>1, <1>2, <1>3, IdleTyped DEF IInv, TypeOK, Others
  <1>5. Informed'
    <2> SUFFICES ASSUME NEW p \in Requests, p # q
                 PROVE  /\ request[p].pc = "named" => request[p].slug \in Slugs
                        /\ request[p].pc \in {"owned", "merged", "decided"} =>
                             request[p].slug \in Slugs /\ profile'[request[p].slug].status # "none"
                        /\ request[p].pc = "merged" /\ ~request[p].late =>
                             request[p].read = [f \in Scalars |-> profile'[request[p].slug].has[f]]
                        /\ request[p].pc = "decided" /\ ~request[p].late =>
                             Allowed(profile'[request[p].slug].status, request[p].to)
      BY <1>4, IdleTyped DEF Informed, There, Reading, Others
    <2>1. request[p].pc \in {"owned", "merged", "decided"} =>
            request[p].slug \in Slugs /\ request[p].slug # s
      BY <1>1 DEF IInv, Informed
    <2> QED BY <2>1, <1>4 DEF IInv, Informed, There, Reading
  <1>6. Few'
    <2>1. \A c \in Accounts : Owned(c)' = IF c = a THEN Owned(c) \cup {s} ELSE Owned(c)
      BY <1>1, <1>2, <1>4 DEF Owned, There
    <2>2. \A c \in Accounts : Creating(c)' = Creating(c) \ {q}
      BY <1>4, IdleTyped DEF Creating, Others
    <2>3. a \in Accounts => q \in Creating(a)
      BY DEF Creating, Insert
    <2> QED BY <1>1, <2>1, <2>2, <2>3, FewMore
  <1> QED BY <1>4, <1>5, <1>6 DEF IInv, TypeOK

\* A write marks the readings of its kind; it changes nothing else of other requests.
LEMMA MarkIs ==
  ASSUME IInv, NEW q \in Requests, NEW pc, NEW s,
         request' = Overtaking(q, pc, s)
  PROVE  /\ request' \in [Requests -> Request] /\ request'[q] = Idle
         /\ \A p \in Requests : p # q =>
              /\ request'[p].pc = request[p].pc /\ request'[p].slug = request[p].slug
              /\ request'[p].by = request[p].by /\ request'[p].to = request[p].to
              /\ request'[p].read = request[p].read
              /\ ~request'[p].late => ~request[p].late /\ ~(request[p].pc = pc /\ request[p].slug = s)
  <1> DEFINE M(p) == [request[p] EXCEPT !.late = TRUE]
  <1>1. ASSUME NEW p \in Requests
        PROVE  /\ request[p] \in Request /\ M(p) \in Request /\ M(p).late
               /\ M(p).pc = request[p].pc /\ M(p).slug = request[p].slug /\ M(p).by = request[p].by
               /\ M(p).to = request[p].to /\ M(p).read = request[p].read
    BY DEF IInv, TypeOK, Request
  <1>2. request' = [p \in Requests |->
           CASE p = q -> Idle
             [] p # q /\ request[p].pc = pc /\ request[p].slug = s -> M(p)
             [] OTHER -> request[p]]
    BY DEF Overtaking
  <1> HIDE DEF M
  <1>3. request' \in [Requests -> Request] /\ request'[q] = Idle
    BY <1>1, <1>2, IdleTyped
  <1>4. ASSUME NEW p \in Requests, p # q
        PROVE  /\ request'[p].pc = request[p].pc /\ request'[p].slug = request[p].slug
               /\ request'[p].by = request[p].by /\ request'[p].to = request[p].to
               /\ request'[p].read = request[p].read
               /\ ~request'[p].late => ~request[p].late /\ ~(request[p].pc = pc /\ request[p].slug = s)
    <2>1. CASE request[p].pc = pc /\ request[p].slug = s
      <3>1. request'[p] = M(p)
        BY <2>1, <1>2, <1>4
      <3> QED BY <3>1, <1>1
    <2>2. CASE ~(request[p].pc = pc /\ request[p].slug = s)
      <3>1. request'[p] = request[p]
        BY <2>2, <1>2, <1>4
      <3> QED BY <3>1, <2>2
    <2> QED BY <2>1, <2>2
  <1> QED BY <1>3, <1>4

LEMMA SaveKeeps == ASSUME IInv, NEW q \in Requests, Save(q) PROVE IInv'
  <1> PICK s : s = request[q].slug
    OBVIOUS
  <1> PICK patch : patch = request[q].patch
    OBVIOUS
  <1> PICK read : read = request[q].read
    OBVIOUS
  <1> DEFINE has == [f \in Fields |-> CASE f \in DOMAIN patch -> patch[f]
                                        [] f \in Scalars \ DOMAIN patch -> read[f]
                                        [] OTHER -> profile[s].has[f]]
             row == [profile[s] EXCEPT !.has = has]
  <1>1. request[q] \in Request /\ s \in Slugs /\ There(s) /\ profile[s] \in Profile
    BY DEF IInv, TypeOK, Informed, Save
  <1>2. has \in [Fields -> Values]
    <2>1. patch \in Patches /\ read \in [Scalars -> Values] /\ profile[s].has \in [Fields -> Values]
      BY <1>1 DEF Request, Profile
    <2>2. \A f \in DOMAIN patch : patch[f] \in Values
      BY <2>1 DEF Patches
    <2> QED BY <2>1, <2>2
  <1> HIDE DEF has
  <1>3. row \in Profile /\ row.status = profile[s].status /\ row.owner = profile[s].owner
    BY <1>1, <1>2 DEF Profile
  <1>5. profile' = [profile EXCEPT ![s] = row]
    BY DEF Save, has
  <1> HIDE DEF row
  <1>6. /\ profile' \in [Slugs -> Profile] /\ profile'[s] = row
        /\ \A t \in Slugs : t # s => profile'[t] = profile[t]
    BY <1>1, <1>3, <1>5 DEF IInv, TypeOK
  <1>7. \A t \in Slugs : profile'[t].status = profile[t].status /\ profile'[t].owner = profile[t].owner
    BY <1>3, <1>6
  <1>8. /\ request' \in [Requests -> Request] /\ request'[q] = Idle
        /\ \A p \in Requests : p # q =>
             /\ request'[p].pc = request[p].pc /\ request'[p].slug = request[p].slug
             /\ request'[p].by = request[p].by /\ request'[p].to = request[p].to
             /\ request'[p].read = request[p].read
             /\ ~request'[p].late => ~request[p].late /\ ~(request[p].pc = "merged" /\ request[p].slug = s)
    <2>1. request' = Overtaking(q, "merged", s)
      BY DEF Save
    <2> QED BY ONLY <2>1, IInv, q \in Requests, MarkIs
  <1>9. Few'
    <2>1. \A a \in Accounts : Owned(a)' = Owned(a)
      BY <1>7 DEF Owned, There
    <2>2. \A a \in Accounts : Creating(a)' \subseteq Creating(a)
      BY <1>8, IdleTyped DEF Creating
    <2> QED BY <2>1, <2>2, FewStay
  <1>10. Informed'
    <2> SUFFICES ASSUME NEW p \in Requests, p # q
                 PROVE  /\ request[p].pc = "named" => request[p].slug \in Slugs
                        /\ request[p].pc \in {"owned", "merged", "decided"} =>
                             request[p].slug \in Slugs /\ profile'[request[p].slug].status # "none"
                        /\ request[p].pc = "merged" /\ ~request[p].late /\ request[p].slug # s =>
                             request[p].read = [f \in Scalars |-> profile'[request[p].slug].has[f]]
                        /\ request[p].pc = "decided" /\ ~request[p].late =>
                             Allowed(profile'[request[p].slug].status, request[p].to)
      BY <1>8, IdleTyped DEF Informed, There, Reading
    <2>1. request[p].pc \in {"owned", "merged", "decided"} => request[p].slug \in Slugs
      BY DEF IInv, Informed
    <2> QED BY <2>1, <1>6, <1>7 DEF IInv, Informed, There, Reading
  <1> QED BY <1>6, <1>8, <1>9, <1>10 DEF IInv, TypeOK

LEMMA SetStatusKeeps == ASSUME IInv, NEW q \in Requests, SetStatus(q) PROVE IInv'
  <1> PICK s : s = request[q].slug
    OBVIOUS
  <1> PICK to : to = request[q].to
    OBVIOUS
  <1> DEFINE row == [profile[s] EXCEPT !.status = to]
  <1>1. /\ s \in Slugs /\ There(s) /\ profile[s] \in Profile /\ to \in Statuses /\ to # "none"
    BY DEF IInv, TypeOK, Informed, SetStatus, Request, Statuses
  <1>2. row \in Profile /\ row.status = to /\ row.owner = profile[s].owner /\ row.has = profile[s].has
    BY <1>1 DEF Profile
  <1>4. profile' = [profile EXCEPT ![s] = row]
    BY DEF SetStatus
  <1> HIDE DEF row
  <1>5. /\ profile' \in [Slugs -> Profile] /\ profile'[s] = row
        /\ \A t \in Slugs : t # s => profile'[t] = profile[t]
    BY <1>1, <1>2, <1>4 DEF IInv, TypeOK
  <1>6. \A t \in Slugs :
          /\ profile'[t].owner = profile[t].owner /\ profile'[t].has = profile[t].has
          /\ There(t)' = There(t)
    BY <1>1, <1>2, <1>5 DEF There
  <1>7. /\ request' \in [Requests -> Request] /\ request'[q] = Idle
        /\ \A p \in Requests : p # q =>
             /\ request'[p].pc = request[p].pc /\ request'[p].slug = request[p].slug
             /\ request'[p].by = request[p].by /\ request'[p].to = request[p].to
             /\ request'[p].read = request[p].read
             /\ ~request'[p].late => ~request[p].late /\ ~(request[p].pc = "decided" /\ request[p].slug = s)
    <2>1. request' = Overtaking(q, "decided", s)
      BY DEF SetStatus
    <2> QED BY ONLY <2>1, IInv, q \in Requests, MarkIs
  <1>8. Few'
    <2>1. \A a \in Accounts : Owned(a)' = Owned(a)
      BY <1>6 DEF Owned
    <2>2. \A a \in Accounts : Creating(a)' \subseteq Creating(a)
      BY <1>7, IdleTyped DEF Creating
    <2> QED BY <2>1, <2>2, FewStay
  <1>9. Informed'
    <2> SUFFICES ASSUME NEW p \in Requests, p # q
                 PROVE  /\ request[p].pc = "named" => request[p].slug \in Slugs
                        /\ request[p].pc \in {"owned", "merged", "decided"} =>
                             request[p].slug \in Slugs /\ profile'[request[p].slug].status # "none"
                        /\ request[p].pc = "merged" /\ ~request[p].late =>
                             request[p].read = [f \in Scalars |-> profile'[request[p].slug].has[f]]
                        /\ request[p].pc = "decided" /\ ~request[p].late /\ request[p].slug # s =>
                             Allowed(profile'[request[p].slug].status, request[p].to)
      BY <1>7, IdleTyped DEF Informed, There, Reading
    <2>1. request[p].pc \in {"owned", "merged", "decided"} =>
            request[p].slug \in Slugs /\ profile'[request[p].slug].status # "none"
      BY <1>6 DEF IInv, Informed, There
    <2>2. request[p].pc = "merged" =>
            [f \in Scalars |-> profile'[request[p].slug].has[f]] = Reading(request[p].slug)
      BY <2>1, <1>6 DEF Reading
    <2> QED BY <2>1, <2>2, <1>5 DEF IInv, Informed
  <1> QED BY <1>5, <1>7, <1>8, <1>9 DEF IInv, TypeOK

LEMMA SetVerifiedKeeps ==
  ASSUME IInv, NEW s \in Slugs, NEW v \in BOOLEAN, SetVerified(s, v) PROVE IInv'
  <1> DEFINE row == [profile[s] EXCEPT !.verified = v]
  <1>1. profile[s] \in Profile
    BY DEF IInv, TypeOK
  <1>2. /\ row \in Profile /\ row.status = profile[s].status /\ row.owner = profile[s].owner
        /\ row.has = profile[s].has
    BY <1>1 DEF Profile
  <1>4. profile' = [profile EXCEPT ![s] = row] /\ request' = request
    BY DEF SetVerified
  <1> HIDE DEF row
  <1>5. \A t \in Slugs :
          /\ profile'[t].status = profile[t].status /\ profile'[t].owner = profile[t].owner
          /\ profile'[t].has = profile[t].has
    BY <1>2, <1>4 DEF IInv, TypeOK
  <1>6. TypeOK'
    BY <1>2, <1>4 DEF IInv, TypeOK
  <1>7. Few'
    <2>1. \A a \in Accounts : Owned(a)' = Owned(a)
      BY <1>5 DEF Owned, There
    <2>2. \A a \in Accounts : Creating(a)' = Creating(a)
      BY <1>4 DEF Creating
    <2> QED BY <2>1, <2>2, FewStay
  <1>8. Informed'
    BY <1>4, <1>5 DEF IInv, Informed, There, Reading
  <1> QED BY <1>6, <1>7, <1>8 DEF IInv
-----------------------------------------------------------------------------
LEMMA StepIInv == IInv /\ [Next]_vars => IInv'
  <1> SUFFICES ASSUME IInv, [Next]_vars PROVE IInv'
    OBVIOUS
  <1>1. CASE UNCHANGED vars
    BY <1>1 DEF vars, IInv, TypeOK, Informed, Few, ProfilesWithinOverlap, Owned, Creating, There, Reading
  <1>2. ASSUME NEW q \in Requests, NEW a \in Accounts, Check(q, a) PROVE IInv'
    BY <1>2, CheckKeeps
  <1>3. ASSUME NEW q \in Requests, NEW s \in Slugs, Name(q, s) PROVE IInv'
    BY <1>3, NameKeeps
  <1>4. ASSUME NEW q \in Requests, NEW has \in [Fields -> Values], Insert(q, has) PROVE IInv'
    BY <1>4, InsertKeeps
  <1>5. ASSUME NEW q \in Requests, NEW a \in Accounts, NEW s \in Slugs, NEW patch \in Patches,
               Own(q, a, s, patch)
        PROVE  IInv'
    BY <1>5, OwnKeeps
  <1>6. ASSUME NEW q \in Requests, NEW s \in Slugs, NEW to \in Statuses, Decide(q, s, to) PROVE IInv'
    BY <1>6, DecideKeeps
  <1>7. ASSUME NEW q \in Requests, Merge(q) \/ Save(q) \/ SetStatus(q) PROVE IInv'
    BY <1>7, MergeKeeps, SaveKeeps, SetStatusKeeps
  <1>8. ASSUME NEW q \in Requests, Stop(q) PROVE IInv'
    BY <1>8, EndOnly DEF Stop
  <1>9. ASSUME NEW s \in Slugs, NEW v \in BOOLEAN, SetVerified(s, v) PROVE IInv'
    BY <1>9, SetVerifiedKeeps
  <1> QED BY <1>1, <1>2, <1>3, <1>4, <1>5, <1>6, <1>7, <1>8, <1>9 DEF Next

\* The inductive invariant.
LEMMA Always == Spec => []IInv
  BY InitIInv, StepIInv, PTL DEF Spec

\* Both variables keep their types.
THEOREM TypeCorrect == Spec => []TypeOK
  <1>1. IInv => TypeOK
    BY DEF IInv
  <1> QED BY <1>1, Always, PTL

\* An account has no more profiles than it had creations under way at once, for any number of
\* requests; a client that sends one at a time gets one profile.
THEOREM WithinOverlapHolds == Spec => []ProfilesWithinOverlap
  <1>1. IInv => ProfilesWithinOverlap
    BY DEF IInv, Few
  <1> QED BY <1>1, Always, PTL

\* Only a decision that another one has overtaken leaves the lifecycle.
THEOREM LifecycleHolds == Spec => LifecycleUnlessOvertaken
  <1> DEFINE Moves ==
        \A s \in Slugs :
          profile[s].status \notin {"none", profile'[s].status} =>
            \/ <<profile[s].status, profile'[s].status>> \in Lifecycle
            \/ \E q \in Requests : request[q].pc = "decided" /\ request[q].slug = s /\ request[q].late
  <1>1. ASSUME IInv, [Next]_vars PROVE [Moves]_vars
    <2> SUFFICES ASSUME NEW s \in Slugs, profile[s].status \notin {"none", profile'[s].status}
                 PROVE  \/ <<profile[s].status, profile'[s].status>> \in Lifecycle
                        \/ \E q \in Requests :
                             request[q].pc = "decided" /\ request[q].slug = s /\ request[q].late
      OBVIOUS
    <2>1. profile[s] \in Profile /\ There(s)
      BY <1>1 DEF IInv, TypeOK, There
    <2>2. ASSUME NEW q \in Requests, NEW has, Insert(q, has) PROVE FALSE
      BY <2>1, <2>2, <1>1 DEF Insert, IInv, TypeOK
    <2>3. ASSUME NEW q \in Requests, Save(q) PROVE FALSE
      BY <2>1, <2>3, <1>1 DEF Save, IInv, TypeOK, Profile
    <2>4. ASSUME NEW t \in Slugs, NEW v, SetVerified(t, v) PROVE FALSE
      BY <2>1, <2>4, <1>1 DEF SetVerified, IInv, TypeOK, Profile
    <2>5. PICK q \in Requests : SetStatus(q)
      BY <2>2, <2>3, <2>4, <1>1 DEF Next, vars, Check, Name, Own, Merge, Decide, Stop
    <2>6. request[q].slug = s /\ profile'[s].status = request[q].to /\ request[q].pc = "decided"
      BY <2>1, <2>5, <1>1 DEF SetStatus, IInv, TypeOK, Profile
    <2>7. ~request[q].late => Allowed(profile[s].status, profile'[s].status)
      BY <2>6, <1>1 DEF IInv, Informed
    <2> QED BY <2>6, <2>7 DEF Allowed, Lifecycle
  <1>2. Spec => [][Moves]_vars
    BY <1>1, Always, PTL DEF Spec
  <1> QED BY <1>2 DEF LifecycleUnlessOvertaken

\* An edit that no other one has overtaken changes the fields it was given.
THEOREM PatchHolds == Spec => PatchTouchesOnlyItsFields
  <1> DEFINE Edits ==
        \A s \in Slugs, f \in Fields :
          There(s) /\ profile'[s].has[f] # profile[s].has[f] =>
            \E q \in Requests :
              /\ request[q].pc = "merged" /\ request[q].slug = s
              /\ f \in DOMAIN request[q].patch \/ (f \in Scalars /\ request[q].late)
  <1>1. ASSUME IInv, [Next]_vars PROVE [Edits]_vars
    <2> SUFFICES ASSUME NEW s \in Slugs, NEW f \in Fields,
                        There(s), profile'[s].has[f] # profile[s].has[f]
                 PROVE  \E q \in Requests :
                          /\ request[q].pc = "merged" /\ request[q].slug = s
                          /\ f \in DOMAIN request[q].patch \/ (f \in Scalars /\ request[q].late)
      OBVIOUS
    <2>1. profile[s] \in Profile
      BY <1>1 DEF IInv, TypeOK
    <2>2. ASSUME NEW q \in Requests, NEW has, Insert(q, has) PROVE FALSE
      BY <2>1, <2>2, <1>1 DEF Insert, IInv, TypeOK
    <2>3. ASSUME NEW q \in Requests, SetStatus(q) PROVE FALSE
      BY <2>1, <2>3, <1>1 DEF SetStatus, IInv, TypeOK, Profile
    <2>4. ASSUME NEW t \in Slugs, NEW v, SetVerified(t, v) PROVE FALSE
      BY <2>1, <2>4, <1>1 DEF SetVerified, IInv, TypeOK, Profile
    <2>5. PICK q \in Requests : Save(q)
      BY <2>2, <2>3, <2>4, <1>1 DEF Next, vars, Check, Name, Own, Merge, Decide, Stop
    <2>6. request[q].slug = s /\ request[q].pc = "merged"
      BY <2>1, <2>5, <1>1 DEF Save, IInv, TypeOK, Profile
    <2>7. profile'[s].has[f] = CASE f \in DOMAIN request[q].patch -> request[q].patch[f]
                                 [] f \in Scalars \ DOMAIN request[q].patch -> request[q].read[f]
                                 [] OTHER -> profile[s].has[f]
      BY <2>1, <2>5, <2>6, <1>1 DEF Save, IInv, TypeOK, Profile
    <2>8. ~request[q].late /\ f \in Scalars => request[q].read[f] = profile[s].has[f]
      BY <2>6, <1>1 DEF IInv, Informed, Reading
    <2> QED BY <2>6, <2>7, <2>8
  <1>2. Spec => [][Edits]_vars
    BY <1>1, Always, PTL DEF Spec
  <1> QED BY <1>2 DEF PatchTouchesOnlyItsFields
==============================================================================
