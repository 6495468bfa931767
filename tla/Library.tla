------------------------------- MODULE Library -------------------------------
(***************************************************************************)
(* A teacher's library (internal/resources) over the uploaded files        *)
(* (internal/files).  A resource names a file by the id of its row, inside *)
(* its JSON content, which no foreign key follows.                         *)
(*                                                                         *)
(* A write is one UPDATE by id.  What is read before it - the owner and    *)
(* the type - never changes, so reading and writing are one step here.     *)
(* Nor does a write look the file up: any id passes.                       *)
(* IsAssigned is FALSE in this phase of the code, and Delete never asks    *)
(* for anything else.                                                      *)
(***************************************************************************)
EXTENDS Uploads, ResourceContent

CONSTANTS
  Resources,   \* bound: the rows of resources, gone ones included
  Raws         \* contents as clients send them; where one names a file, it may be any

\* A content has all of its fields, and there is a new id for every choice without one.
ASSUME RawsAssumption ==
  \A raw \in Raws :
    /\ [raw EXCEPT !.file = NoAsset, !.audio = NoAsset] \in AnyContent({NoAsset})
    /\ \A i \in DOMAIN raw.questions :
         LET choices == raw.questions[i].choices
         IN Cardinality(Missing(choices)) <= Cardinality(Unused(choices))

VARIABLE resource

libraryVars == <<blob, asset, upload, resource>>

NoResource == [state |-> "none"]
Live(k) == resource[k].state = "live"

\* Contents name files by any id; that of an upload still to come stands for one nobody has.
Nameable(file) == IF file = NoAsset THEN {NoAsset} ELSE Assets
Naming(raw) ==
  {[raw EXCEPT !.file = named.file, !.audio = named.audio] :
     named \in [file : Nameable(raw.file), audio : Nameable(raw.audio)]}
Sent == UNION {Naming(raw) : raw \in Raws}

LibraryInit == UploadsInit /\ resource = [k \in Resources |-> NoResource]

Set(k, r) == resource' = [resource EXCEPT ![k] = r] /\ UNCHANGED uploadVars
-----------------------------------------------------------------------------
Create(k, t, c, status) ==
  /\ resource[k].state = "none" /\ ContentOK(t, c)
  /\ Set(k, [state |-> "live", type |-> t, content |-> StripTo(t, c), status |-> status, archived |-> FALSE])

\* The type stays, and so do status and archived_at.
Update(k, c) ==
  /\ Live(k) /\ ContentOK(resource[k].type, c)
  /\ Set(k, [resource[k] EXCEPT !.content = StripTo(resource[k].type, c)])

SetPublished(k, status) == Live(k) /\ Set(k, [resource[k] EXCEPT !.status = status])

SetArchived(k, archived) == Live(k) /\ Set(k, [resource[k] EXCEPT !.archived = archived])

\* DeleteResource.  The file it named stays, row and bytes.
Delete(k) == Live(k) /\ Set(k, [state |-> "gone"])

LibraryNext ==
  \/ UploadsNext /\ UNCHANGED resource
  \/ \E k \in Resources :
       \/ \E t \in Types, c \in Sent, status \in {"draft", "published"} : Create(k, t, c, status)
       \/ \E c \in Sent : Update(k, c)
       \/ \E status \in {"draft", "published"} : SetPublished(k, status)
       \/ \E archived \in BOOLEAN : SetArchived(k, archived)
       \/ Delete(k)

LibrarySpec == LibraryInit /\ [][LibraryNext]_libraryVars
-----------------------------------------------------------------------------
Questions(k) == resource[k].content.questions

\* normalizeQuestion: whatever a client sends, a stored question can be graded.  A single
\* choice has one right answer, unless the client gave two choices one id; a multiple
\* choice has one at least, and a text has one that is not empty.
StoredQuestionsCanBeGraded ==
  \A k \in Resources : Live(k) =>
    \A i \in DOMAIN Questions(k) :
      LET q == Questions(k)[i]
          right == {n \in DOMAIN q.choices : q.choices[n].id \in Elements(q.correct)}
      IN /\ q.points >= 1 /\ "" \notin Elements(q.correct)
         /\ q.kind = "text" => q.correct # <<>>
         /\ q.kind = "multi" => right # {}
         /\ q.kind = "single" /\ Cardinality(IdsOf(q.choices)) = Len(q.choices) =>
              Cardinality(right) = 1

\* The editor loads a resource and sends all of its content back (resource-editor.tsx): what
\* is stored is accepted again for the type it has, and stored as it was.
SavingAgainChangesNothing ==
  \A k \in Resources : Live(k) =>
    LET r == resource[k] IN ContentOK(r.type, r.content) /\ StripTo(r.type, r.content) = r.content
=============================================================================
