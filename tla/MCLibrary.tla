------------------------------ MODULE MCLibrary ------------------------------
(* Library for TLC: contents that differ in what the validation looks at.    *)
EXTENDS Library, TLC

CONSTANT File   \* in a raw content: the place of a file's id

Empty ==
  [file |-> NoAsset, url |-> "", audio |-> NoAsset, minWords |-> 0,
   text |-> [f \in TextFields |-> ""], questions |-> <<>>]

Choice(id, text) == [id |-> id, text |-> text]
Question(kind, choices, correct, points) ==
  [prompt |-> "x", kind |-> kind, choices |-> choices, correct |-> correct, points |-> points]

\* Two choices of the client, the second with an id it has given or has left to the server.
Pair(second) == <<Choice("a", "x"), Choice(second, "y")>>

QuestionsSent ==
  {<<>>,
   <<Question("single", Pair(""), <<"a", "a", "">>, 0)>>,
   <<Question("single", Pair("b"), <<"a", "b">>, 1)>>,
   <<Question("single", Pair("b"), <<"c">>, 1)>>,
   <<Question("single", Pair("a"), <<"a">>, 1)>>,
   <<Question("multi", Pair("b"), <<"b", "a", "b">>, 2),
     Question("text", Pair(""), <<" ", "x">>, -1)>>,
   <<Question("text", <<>>, <<" ">>, 1)>>,
   <<Question("multi", <<Choice("a", "x"), Choice("b", " ")>>, <<"a">>, 1)>>}

\* One content carries the fields of several types, as a client may send it; its texts
\* and its link are all there or all blank.
RawsSent ==
  {[Empty EXCEPT !.file = file, !.audio = file, !.url = IF text = "x" THEN "http" ELSE text,
                 !.text = [f \in TextFields |-> text], !.questions = qs] :
     file \in {NoAsset, File}, text \in {" ", "x"}, qs \in QuestionsSent}
  \cup {[Empty EXCEPT !.url = "other", !.minWords = -1, !.text = [f \in TextFields |-> "x"]]}

IdsGiven == <<"new1", "new2", "new3">>

TextsUsed ==
  {"", " ", "x", "y", "a", "b", "c", "http", "other", "single", "multi", "text"} \cup Elements(IdsGiven)

Symmetry == Permutations(Assets) \cup Permutations(Resources)
=============================================================================
