------------------------------- MODULE CsvText -------------------------------
(***************************************************************************)
(* A CSV file, from CSVWriter to CSVReader: the rows that the writer puts  *)
(* into the file, with what it encloses in quotes, and the rows and the    *)
(* header that the reader's machine of six states takes out of it again.   *)
(*                                                                         *)
(* A text is a sequence of characters, and a character a string of one.    *)
(* Writer and reader share their Dialect; its delimiter, line terminator   *)
(* and quote are the default ones.                                         *)
(***************************************************************************)
EXTENDS Integers, Sequences, SequencesExt, FiniteSetsExt

CONSTANTS CsvDialects,    \* records of skipSpace, skipEmpty, double, header, names, trim
          CsvRows,        \* rows that writeRow() may be given
          CsvMaxRows      \* how many of them: bound

VARIABLES
  csvDialect,  \* the Dialect; <<>> before it is configured
  csvGiven,    \* the rows writeRow() was given
  csvLines,    \* the file, line by line
  csvNext,     \* the line that getLine() reads next
  csvRow,      \* the row being read: its fields, the one not done, whether no line is read
  csvColumns,  \* CSVReader::header; <<>> while it is not read
  csvRead,     \* the rows read so far
  csvState     \* "new", "writing", then "header", "rows", and "done" or "threw"

csvvars == <<csvDialect, csvGiven, csvLines, csvNext, csvRow, csvColumns, csvRead, csvState>>

Delimiter == ","
Terminator == "\n"
Quote == "\""
Return == "\r"
IsEndChar(ch) == ch \in {Delimiter, Terminator}
-----------------------------------------------------------------------------
(* CSVWriter *)
ShouldEnclose(s) == \E i \in DOMAIN s : IsEndChar(s[i]) \/ s[i] = Quote
Doubled(s) == FlattenSeq([i \in DOMAIN s |-> IF s[i] = Quote THEN <<Quote, Quote>> ELSE <<s[i]>>])
Enclose(s) == <<Quote>> \o Doubled(s) \o <<Quote>>

WrittenField(s) == IF ShouldEnclose(s) THEN Enclose(s) ELSE s

\* writeInternal()
WrittenRow(row) ==
  FlattenSeq([i \in DOMAIN row |->
    WrittenField(row[i]) \o (IF i = Len(row) THEN <<>> ELSE <<Delimiter>>)]) \o <<Terminator>>

\* The rows of the file: the first writeRow() puts the names before its row.
RowsOfFile == (IF csvDialect.names = <<>> THEN <<>> ELSE <<csvDialect.names>>) \o csvGiven
-----------------------------------------------------------------------------
(* CSVReader: its fields *)
NewField == [state |-> "INIT", result |-> <<>>]
Goto(f, state) == [f EXCEPT !.state = state]
Push(f, ch, state) == [state |-> state, result |-> Append(f.result, ch)]
Replace(f, ch, state) == [state |-> state, result |-> Append(Front(f.result), ch)]

OnInit(f, ch) ==
  CASE IsEndChar(ch) -> Goto(f, "END")
    [] ch = Quote -> Goto(f, "START_WITH_QUOTE")
    [] ch = " " /\ csvDialect.skipSpace -> f
    [] OTHER -> Push(f, ch, "COMMON_WAIT")

OnCommonWait(f, ch) == IF IsEndChar(ch) THEN Goto(f, "END") ELSE Push(f, ch, "COMMON_WAIT")

OnStartWithQuote(f, ch) == Push(f, ch, IF ch = Quote THEN "WAIT_NEXT_QUOTE" ELSE "WAIT_END_QUOTE")

OnWaitNextQuote(f, ch) ==
  CASE ch = Quote -> Goto(f, "WAIT_END_QUOTE")
    [] IsEndChar(ch) -> [state |-> "END", result |-> Front(f.result)]
    [] OTHER -> Replace(f, ch, "COMMON_WAIT")

\* next is <<>> at the end of the line.
OnWaitEndQuote(f, ch, next) ==
  CASE ch # Quote -> Push(f, ch, "WAIT_END_QUOTE")
    [] ~csvDialect.double -> Goto(f, "COMMON_WAIT")
    [] next = <<>> -> Goto(f, "END")
    [] next # <<>> /\ IsEndChar(next[1]) -> Goto(f, "COMMON_WAIT")
    [] OTHER -> Push(f, ch, "WAIT_NEXT_QUOTE")

\* Field::append()
OnChar(f, ch, next) ==
  CASE f.state = "INIT" -> OnInit(f, ch)
    [] f.state = "COMMON_WAIT" -> OnCommonWait(f, ch)
    [] f.state = "START_WITH_QUOTE" -> OnStartWithQuote(f, ch)
    [] f.state = "WAIT_NEXT_QUOTE" -> OnWaitNextQuote(f, ch)
    [] f.state = "WAIT_END_QUOTE" -> OnWaitEndQuote(f, ch, next)

IsDone(f) == f.state \in {"END", "INIT"}

\* TrimHelper
Trimmed(s) ==
  LET kept == {i \in DOMAIN s : s[i] \notin csvDialect.trim}
  IN IF kept = {} THEN <<>> ELSE SubSeq(s, Min(kept), Max(kept))

\* func of readInternal(): the fields of one more line.
\* (In state INIT done() holds too: a space that is skipped ends a field.)
ReadLine(row, line) ==
  FoldLeft(LAMBDA r, i :
             LET f == OnChar(r.field, line[i], SubSeq(line, i + 1, i + 1))
             IN IF IsDone(f) THEN [r EXCEPT !.fields = Append(@, Trimmed(f.result)), !.field = NewField]
                             ELSE [r EXCEPT !.field = f],
           row, [i \in DOMAIN line |-> i])

\* Shortened and padded to the columns, once they are known.
Complete(fields) ==
  IF csvColumns = <<>> THEN fields
  ELSE [i \in DOMAIN csvColumns |-> IF i \in DOMAIN fields THEN fields[i] ELSE <<>>]
-----------------------------------------------------------------------------
(* CSVReader: its lines *)
\* std::getline() takes what is before the next '\n'.
LinesOf(text) ==
  Front(FoldLeft(LAMBDA lines, ch : IF ch = Terminator THEN Append(lines, <<>>)
                                    ELSE Append(Front(lines), Append(Last(lines), ch)),
                 <<<<>>>>, text))

\* getLine() drops a '\r' and restores the terminator.
GetLine(line) ==
  (IF line # <<>> /\ Last(line) = Return THEN Front(line) ELSE line) \o <<Terminator>>

NewRow == [fields |-> <<>>, field |-> NewField, first |-> TRUE]

\* A row maps names to fields; a name that comes twice keeps its first field.
RowMap(fields) ==
  [name \in ToSet(csvColumns) |-> Complete(fields)[Min({i \in DOMAIN csvColumns : csvColumns[i] = name})]]
-----------------------------------------------------------------------------
CsvInit ==
  /\ csvDialect = <<>> /\ csvGiven = <<>> /\ csvLines = <<>> /\ csvNext = 1
  /\ csvRow = NewRow /\ csvColumns = <<>> /\ csvRead = <<>> /\ csvState = "new"

CsvConfigure ==
  /\ csvState = "new"
  /\ csvDialect' \in CsvDialects
  /\ csvState' = "writing"
  /\ UNCHANGED <<csvGiven, csvLines, csvNext, csvRow, csvColumns, csvRead>>

WriteRow(row) ==
  /\ csvState = "writing" /\ Len(csvGiven) < CsvMaxRows
  /\ csvGiven' = Append(csvGiven, row)
  /\ UNCHANGED <<csvDialect, csvLines, csvNext, csvRow, csvColumns, csvRead, csvState>>

\* readHeader() reads no line if it is given the names and there is no header.
OpenReader ==
  /\ csvState = "writing" /\ csvGiven # <<>>
  /\ csvLines' = LinesOf(FlattenSeq([n \in DOMAIN RowsOfFile |-> WrittenRow(RowsOfFile[n])]))
  /\ IF csvDialect.header \/ csvDialect.names = <<>>
     THEN csvState' = "header" /\ UNCHANGED csvColumns
     ELSE csvState' = "rows" /\ csvColumns' = csvDialect.names
  /\ UNCHANGED <<csvDialect, csvGiven, csvNext, csvRow, csvRead>>

AtLine == csvState \in {"header", "rows"} /\ csvNext \in DOMAIN csvLines
ThisLine == GetLine(csvLines[csvNext])
IsSkipped == csvRow.first /\ ThisLine = <<Terminator>> /\ csvDialect.skipEmpty
RowAfter == [ReadLine(csvRow, ThisLine) EXCEPT !.first = FALSE]

SkipLine ==
  /\ AtLine /\ IsSkipped
  /\ csvNext' = csvNext + 1
  /\ UNCHANGED <<csvDialect, csvGiven, csvLines, csvRow, csvColumns, csvRead, csvState>>

\* A quote is open at the end of the line.
ContinueRow ==
  /\ AtLine /\ ~IsSkipped /\ ~IsDone(RowAfter.field)
  /\ csvNext' = csvNext + 1
  /\ csvRow' = RowAfter
  /\ UNCHANGED <<csvDialect, csvGiven, csvLines, csvColumns, csvRead, csvState>>

\* readHeader(): without a header the first row is counted, and read again.
EndHeader ==
  /\ AtLine /\ csvState = "header" /\ ~IsSkipped /\ IsDone(RowAfter.field)
  /\ IF csvDialect.header
     THEN csvColumns' = RowAfter.fields /\ csvNext' = csvNext + 1
     ELSE csvColumns' = [i \in DOMAIN RowAfter.fields |-> <<ToString(i - 1)>>] /\ csvNext' = 1
  /\ csvRow' = NewRow
  /\ csvState' = "rows"
  /\ UNCHANGED <<csvDialect, csvGiven, csvLines, csvRead>>

EndRow ==
  /\ AtLine /\ csvState = "rows" /\ ~IsSkipped /\ IsDone(RowAfter.field)
  /\ csvNext' = csvNext + 1
  /\ csvRow' = NewRow
  /\ csvRead' = Append(csvRead, RowMap(RowAfter.fields))
  /\ UNCHANGED <<csvDialect, csvGiven, csvLines, csvColumns, csvState>>

EndOfFile ==
  /\ csvState \in {"header", "rows"} /\ csvNext \notin DOMAIN csvLines
  /\ csvState' = CASE ~IsDone(csvRow.field) -> "threw"
                   [] csvState = "header" -> "rows"
                   [] OTHER -> "done"
  /\ UNCHANGED <<csvDialect, csvGiven, csvLines, csvNext, csvRow, csvColumns, csvRead>>

CsvNext == \/ CsvConfigure \/ OpenReader \/ SkipLine \/ ContinueRow \/ EndHeader \/ EndRow \/ EndOfFile
           \/ \E row \in CsvRows : WriteRow(row)

CsvSpec == CsvInit /\ [][CsvNext]_csvvars
-----------------------------------------------------------------------------
FieldsOfFile == UNION {ToSet(RowsOfFile[n]) : n \in DOMAIN RowsOfFile}

\* What a dialect cannot carry: quotes that are not doubled, an initial space
\* that is skipped, and a '\r' before a '\n'.
Carries ==
  /\ csvDialect.double \/ \A s \in FieldsOfFile : Quote \notin ToSet(s)
  /\ csvDialect.skipSpace => \A s \in FieldsOfFile : s = <<>> \/ s[1] # " " \/ ShouldEnclose(s)
  /\ \A n \in DOMAIN csvLines : csvLines[n] = <<>> \/ Last(csvLines[n]) # Return

\* The rows of the file that are not skipped; a row of no fields is a line.
KeptRows ==
  LET rows == [n \in DOMAIN RowsOfFile |-> IF RowsOfFile[n] = <<>> THEN <<<<>>>> ELSE RowsOfFile[n]]
  IN SelectSeq(rows, LAMBDA row : ~(row = <<<<>>>> /\ csvDialect.skipEmpty))

HeaderRows == IF csvDialect.header /\ KeptRows # <<>> THEN 1 ELSE 0

\* What CSVWriter wrote CSVReader reads back, whatever delimiters, quotes and
\* line ends the fields have inside: the same rows in the same order, each
\* with the columns of the header, and it never meets the end of the file
\* inside a field.
CsvRoundTrip ==
  (csvState \in {"done", "threw"} /\ Carries) =>
    /\ csvState = "done"
    /\ Len(csvRead) = Len(KeptRows) - HeaderRows
    /\ \A n \in DOMAIN csvRead, c \in DOMAIN csvColumns :
         (\A b \in 1 .. c - 1 : csvColumns[b] # csvColumns[c]) =>
           LET row == KeptRows[n + HeaderRows]
           IN csvRead[n][csvColumns[c]] = IF c \in DOMAIN row THEN Trimmed(row[c]) ELSE <<>>
=============================================================================
