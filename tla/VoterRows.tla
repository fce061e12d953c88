------------------------------- MODULE VoterRows -------------------------------
(***************************************************************************)
(* A file of voters, from the spreadsheet an administrator chooses to the  *)
(* identities the registry keeps.  The browser parses the file and writes  *)
(* the rows back into the form as text in a standard layout, without any   *)
(* quotation marks; the server parses that text again, validates every row *)
(* and joins its fields into the identifier whose HMAC is unique in the    *)
(* election.                                                               *)
(*                                                                         *)
(* A line is a sequence of words and marks.  A word stands for a run of    *)
(* characters that has none of the marks in it and does not begin with a   *)
(* zero: zeros in front are words of their own, and so is a heading.       *)
(***************************************************************************)
EXTENDS Naturals, Sequences, FiniteSets, Functions

CONSTANTS Words,
          Digits,  \* Digits[w]: how many digits the word w is made of, if it is
          Lower    \* Lower[w]: the word w in lower case

Separators == {"comma", "tab"}

Spaces == {"space", "tab"}

Marks == Separators \cup Spaces \cup {"quote"}

Zero == "0"

Columns == {"householdNumber", "name", "identifierLast4", "birthDate6"}

StandardOrder == <<"householdNumber", "name", "identifierLast4", "birthDate6">>

ASSUME VoterRowsAssumption ==
  /\ Columns \cup {Zero} \subseteq Words /\ Words \cap Marks = {}
  /\ Digits \in [Words -> Nat] /\ Lower \in [Words -> Words]

Characters == Words \cup Marks

Missing == <<>>

(* The k-th of a set of places, and the elements of a sequence there.      *)
Nth(S, k) == CHOOSE i \in S : Cardinality({j \in S : j <= i}) = k

Pick(s, S) == [k \in 1..Cardinality(S) |-> s[Nth(S, k)]]

(* Places of s without the spaces before the first other and after the last.*)
Trimmed(s, S) ==
  {i \in S : \E j, k \in S : s[j] \notin Spaces /\ s[k] \notin Spaces /\ j <= i /\ i <= k}

Trim(s) == Pick(s, Trimmed(s, DOMAIN s))

WithoutSpaces(s) == Pick(s, {i \in DOMAIN s : s[i] \notin Spaces})

(* Each quotation mark opens or closes; two of them where it is open stand *)
(* for one that is part of the cell.                                       *)
Quoted(line, i) ==
  Cardinality({j \in DOMAIN line : j < i /\ line[j] = "quote"}) % 2 = 1

Literal(line, i) ==
  Quoted(line, i) /\ i + 1 \in DOMAIN line /\ line[i + 1] = "quote"

Cuts(line) == {i \in DOMAIN line : line[i] \in Separators /\ ~Quoted(line, i)}

CellPlaces(line) ==
  {i \in DOMAIN line \ Cuts(line) : line[i] = "quote" => Literal(line, i)}

(* splitDelimitedLine                                                      *)
Split(line) ==
  [n \in 1..(Cardinality(Cuts(line)) + 1) |->
     Pick(line, Trimmed(line,
       {i \in CellPlaces(line) : Cardinality({c \in Cuts(line) : c < i}) = n - 1}))]

(* headerKey of each cell; a line with the heading of a column is a header.*)
Headings(cells) == [i \in DOMAIN cells |-> WithoutSpaces(cells[i])]

IsHeader(cells) == \E i \in DOMAIN cells, c \in Columns : Headings(cells)[i] = <<c>>

StandardHeader == [i \in 1..4 |-> <<StandardOrder[i]>>]

(* The cell of a column: the last one under its heading, if the line has it.*)
CellOf(cells, header, column) ==
  LET named == {i \in DOMAIN header : header[i] = <<column>>}
  IN  IF \E i \in named : i \in DOMAIN cells /\ \A j \in named : j <= i
        THEN cells[CHOOSE i \in named : \A j \in named : j <= i]
        ELSE Missing

(* parseVoterRegistryTextRows of the lines that are not blank.  Without a  *)
(* header the cells come in the standard order.                            *)
Parsed(file) ==
  LET lines  == [r \in DOMAIN file |-> Split(Trim(file[r]))]
      headed == lines # <<>> /\ IsHeader(lines[1])
      header == IF headed THEN Headings(lines[1]) ELSE StandardHeader
      body   == IF headed THEN Tail(lines) ELSE lines
  IN  [r \in DOMAIN body |-> [c \in Columns |-> CellOf(body[r], header, c)]]

IsNumber(text) ==
  text # <<>> /\ \A i \in DOMAIN text : text[i] \in Words /\ Digits[text[i]] > 0

NumberOfDigits(text) == FoldFunction(+, 0, [i \in DOMAIN text |-> Digits[text[i]]])

(* All but the zeros in front; the last digit stays.                       *)
WithoutZeros(text) ==
  Pick(text, {i \in DOMAIN text : i = Len(text) \/ \E j \in 1..i : text[j] # Zero})

(* normalizeVoterRegistryFields of cells, which are trimmed.               *)
Normalized(row) ==
  [row EXCEPT !.name = WithoutSpaces(@),
              !.householdNumber = IF IsNumber(@) THEN WithoutZeros(@) ELSE @]

HasDigits(text, n) == IsNumber(text) /\ NumberOfDigits(text) \in n

(* validateVoterRegistryFields                                             *)
ValidRow(row) ==
  LET fields == Normalized(row) IN
  /\ HasDigits(fields.householdNumber, 1..2) /\ fields.name # <<>>
  /\ HasDigits(fields.identifierLast4, {4}) /\ HasDigits(fields.birthDate6, {6})

ValidRows(file) ==
  {r \in DOMAIN Parsed(file) : ValidRow(Parsed(file)[r])}

(* canonicalVoterIdentifier and its HMAC, which is that of lower case.     *)
Identity(row) ==
  [c \in Columns |->
     [i \in DOMAIN Normalized(row)[c] |->
        LET w == Normalized(row)[c][i] IN IF w \in Words THEN Lower[w] ELSE w]]

Comma == <<"comma">>

(* Fields joined by bare commas, whatever is in them.                      *)
Joined(fields) ==
  fields.householdNumber \o Comma \o fields.name \o Comma
    \o fields.identifierLast4 \o Comma \o fields.birthDate6

HeaderLine == Joined([c \in Columns |-> <<c>>])

(* Mutant: only the rows of the preview are written (one, where there are  *)
(* twenty).                                                                *)
FormattedPreview(rows) ==
  <<HeaderLine>> \o [r \in 1..1 |-> Joined(Normalized(rows[r]))]

(* formatVoterRegistryRows                                                 *)
Formatted(rows) ==
  <<HeaderLine>> \o [r \in DOMAIN rows |-> Joined(Normalized(rows[r]))]

(* The people a file names, by the rows that are valid.                    *)
PeopleOf(file) == {Identity(Parsed(file)[r]) : r \in ValidRows(file)}

(* Mutant: a row that is wrong is left out.                                *)
ImportableLax(file) ==
  \A r, q \in ValidRows(file) :
    Identity(Parsed(file)[r]) = Identity(Parsed(file)[q]) => r = q

(* What validateWizardInput and importVoterRegistryAction ask of the text. *)
Importable(file) ==
  /\ Parsed(file) # <<>>
  /\ ValidRows(file) = DOMAIN Parsed(file)
  /\ \A r, q \in ValidRows(file) :
       Identity(Parsed(file)[r]) = Identity(Parsed(file)[q]) => r = q
===============================================================================
