-------------------------- MODULE MCElectionContent ---------------------------
(***************************************************************************)
(* Model-checking instances of ElectionContent.                            *)
(***************************************************************************)
EXTENDS ElectionContent, TLC

CONSTANTS a, b, c

Typed(title, described) == [title |-> title, described |-> described]

(* Options behind a row that was left empty, and twice the same.           *)
WizardForms ==
  {<<Typed(Blank, FALSE), Typed(a, FALSE), Typed(b, FALSE)>>,
   <<Typed(a, FALSE), Typed(a, FALSE)>>}

DescribedForms == {<<Typed(Blank, FALSE), Typed(a, TRUE), Typed(b, FALSE)>>}

(* Words of a file, with the digits they are made of and the lower case.   *)
DigitsOf ==
  [w \in Words |-> CASE w = "0" -> 1 [] w = "7" -> 1 [] w = "12" -> 2
                    [] w = "1234" -> 4 [] w = "990101" -> 6 [] OTHER -> 0]

LowerOf == [w \in Words |-> IF w = "KIM" THEN "kim" ELSE w]

(* A header in another order over voters written in other ways than the    *)
(* registry keeps: zeros, blanks, a tab, a cell of another column.         *)
Reordered ==
  <<<<"name", "comma", "householdNumber", "comma", "memo", "comma", "identifierLast4",
      "tab", "space", "birthDate6">>,
    <<"KIM", "comma", "0", "12", "comma", "7", "comma", "1234", "space", "comma", "990101">>,
    <<"jr", "space", "jr", "comma", "space", "7", "comma", "comma", "1234", "tab", "990101">>>>

(* Two rows the text does not keep: one is right, with quotation marks in  *)
(* its name, one is wrong, with a comma; and one that another file has.    *)
Misread ==
  <<<<"7", "comma", "quote", "kim", "quote", "quote", "jr", "quote", "quote", "quote",
      "comma", "1234", "comma", "990101">>,
    <<"12", "comma", "quote", "kim", "comma", "1234", "quote", "comma", "990101", "comma", "memo">>,
    <<"0", "7", "comma", "jr", "jr", "comma", "1234", "comma", "990101">>>>

(* A name with a comma, which the server refuses; a wrong row under a right *)
(* one; and one person twice.                                              *)
VoterFiles ==
  {Reordered, Misread,
   <<<<"12", "comma", "quote", "kim", "comma", "jr", "quote", "comma", "1234", "comma",
       "990101">>>>,
   <<<<"12", "comma", "jr", "comma", "1234", "comma", "990101">>,
     <<"12", "comma", "kim", "comma", "7", "comma", "990101">>>>,
   <<<<"7", "comma", "KIM", "comma", "1234", "comma", "990101">>,
     <<"0", "7", "comma", "kim", "comma", "1234", "comma", "990101">>>>}

Symmetry == Permutations(Requests)
===============================================================================
