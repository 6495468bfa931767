--------------------------- MODULE ResourceContent ---------------------------
(***************************************************************************)
(* What normalizeAndValidateContent accepts and stores (resources/         *)
(* content.go): texts trimmed, missing choice ids filled in, answers       *)
(* checked against the choices, and the fields of other types dropped.     *)
(*                                                                         *)
(* A text is "", " " (whitespace only) or anything else.  The ids of       *)
(* questions and the titles are left out.                                  *)
(***************************************************************************)
EXTENDS Integers, Sequences, FiniteSets

CONSTANTS
  NoAsset,
  Texts,      \* the strings that occur, the empty one among them
  NewIds      \* uuid.NewString: a sequence of ids to take from

ASSUME TextsAssumption == "" \in Texts /\ NewIds \in Seq(Texts \ {""})

QuizLike == {"quiz", "listening", "reading"}
Types == {"material", "article", "writing"} \cup QuizLike
TextFields == {"description", "body", "prompt", "rubric", "passage"}

Trim(t) == IF t = " " THEN "" ELSE t

\* The elements of s at the positions K, in their order.
At(s, K) ==
  [n \in 1..Cardinality(K) |-> s[CHOOSE i \in K : Cardinality({j \in K : j <= i}) = n]]

Missing(choices) == {i \in DOMAIN choices : choices[i].id = ""}
Unused(choices) == {n \in DOMAIN NewIds : \A i \in DOMAIN choices : choices[i].id # NewIds[n]}

\* Every choice that came without an id gets a new one, distinct from the others.
Named(choices) ==
  LET free == At(NewIds, Unused(choices))
      nth(i) == Cardinality({j \in Missing(choices) : j <= i})
  IN [i \in DOMAIN choices |->
        [id |-> IF choices[i].id = "" THEN free[nth(i)] ELSE choices[i].id,
         text |-> Trim(choices[i].text)]]

\* dedupe: the first of each, without the empty ones.
Dedupe(s) == At(s, {i \in DOMAIN s : s[i] # "" /\ \A j \in 1..(i - 1) : s[j] # s[i]})

\* The accepted answers of a text question.
Accepted(s) ==
  LET trimmed == [i \in DOMAIN s |-> Trim(s[i])]
  IN At(trimmed, {i \in DOMAIN trimmed : trimmed[i] # ""})

\* What a client can put together: questions, and contents with the files they name.
AnyQuestion ==
  [prompt : Texts, kind : Texts, choices : Seq([id : Texts, text : Texts]),
   correct : Seq(Texts), points : Int]

AnyContent(files) ==
  [file : files, url : Texts, audio : files, minWords : Int,
   text : [TextFields -> Texts], questions : Seq(AnyQuestion)]

IdsOf(choices) == {choices[i].id : i \in DOMAIN choices}
Elements(s) == {s[i] : i \in DOMAIN s}

\* Mutant of QuestionOK: an answer that is none of the choices passes.
QuestionUnmatched(q) ==
  /\ Trim(q.prompt) # ""
  /\ \/ /\ q.kind \in {"single", "multi"}
        /\ Len(q.choices) >= 2
        /\ \A i \in DOMAIN q.choices : Trim(q.choices[i].text) # ""
        /\ Dedupe(q.correct) # <<>>
        /\ q.kind = "single" => Len(Dedupe(q.correct)) = 1
     \/ q.kind = "text" /\ Accepted(q.correct) # <<>>

\* The checks of normalizeQuestion.
QuestionOK(q) ==
  /\ Trim(q.prompt) # ""
  /\ \/ /\ q.kind \in {"single", "multi"}
        /\ Len(q.choices) >= 2
        /\ \A i \in DOMAIN q.choices : Trim(q.choices[i].text) # ""
        /\ Dedupe(q.correct) # <<>>
        /\ q.kind = "single" => Len(Dedupe(q.correct)) = 1
        /\ Elements(Dedupe(q.correct)) \subseteq IdsOf(Named(q.choices))
     \/ q.kind = "text" /\ Accepted(q.correct) # <<>>

\* What normalizeQuestion returns.
NormalQuestion(q) ==
  [prompt  |-> Trim(q.prompt),
   kind    |-> q.kind,
   choices |-> IF q.kind = "text" THEN <<>> ELSE Named(q.choices),
   correct |-> IF q.kind = "text" THEN Accepted(q.correct) ELSE Dedupe(q.correct),
   points  |-> IF q.points <= 0 THEN 1 ELSE q.points]

\* The checks of normalizeAndValidateContent.
ContentOK(t, c) ==
  /\ t = "material" => /\ c.file # NoAsset \/ Trim(c.url) # ""
                       /\ Trim(c.url) # "" => c.url = "http"
  /\ t = "article" => Trim(c.text["body"]) # ""
  /\ t = "writing" => Trim(c.text["prompt"]) # "" /\ c.minWords >= 0
  /\ t = "listening" => c.audio # NoAsset
  /\ t = "reading" => Trim(c.text["passage"]) # ""
  /\ t \in QuizLike => c.questions # <<>> /\ \A i \in DOMAIN c.questions : QuestionOK(c.questions[i])

TextsOf(t) ==
  CASE t = "material" -> {"description"}
    [] t = "article"  -> {"body"}
    [] t = "writing"  -> {"prompt", "rubric"}
    [] t = "reading"  -> {"passage"}
    [] OTHER          -> {}

\* Mutant of StripTo: the audio of a listening task is forgotten.
StripAudio(t, c) ==
  [file      |-> IF t = "material" THEN c.file ELSE NoAsset,
   url       |-> IF t = "material" THEN Trim(c.url) ELSE "",
   audio     |-> NoAsset,
   minWords  |-> IF t = "writing" THEN c.minWords ELSE 0,
   text      |-> [f \in TextFields |-> IF f \in TextsOf(t) THEN Trim(c.text[f]) ELSE ""],
   questions |-> IF t \in QuizLike THEN [i \in DOMAIN c.questions |-> NormalQuestion(c.questions[i])]
                 ELSE <<>>]

\* stripTo, on the normalized content: only the fields of its type are kept.
StripTo(t, c) ==
  [file      |-> IF t = "material" THEN c.file ELSE NoAsset,
   url       |-> IF t = "material" THEN Trim(c.url) ELSE "",
   audio     |-> IF t = "listening" THEN c.audio ELSE NoAsset,
   minWords  |-> IF t = "writing" THEN c.minWords ELSE 0,
   text      |-> [f \in TextFields |-> IF f \in TextsOf(t) THEN Trim(c.text[f]) ELSE ""],
   questions |-> IF t \in QuizLike THEN [i \in DOMAIN c.questions |-> NormalQuestion(c.questions[i])]
                 ELSE <<>>]
=============================================================================
