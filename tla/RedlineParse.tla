---------------------------- MODULE RedlineParse ----------------------------
(***************************************************************************)
(* redlineparser's readers: each takes the lines of a file (processes: the *)
(* parts between commas) one by one, collects fields into an entry and     *)
(* appends the entry to its rows.  autofills closes an entry at an empty   *)
(* line, passwords and processes at "===", installed_software and cookies  *)
(* make a row of one line, user_info one of the file.  autofills and       *)
(* cookies read a directory of files, user_info and those three stop with  *)
(* an error at a line that is too long for the scanner.                    *)
(*                                                                         *)
(* Of a line only its kind is kept.  A field's value is the number of the  *)
(* line it comes from, 0 for none.                                         *)
(***************************************************************************)
EXTENDS Naturals, Sequences, SequencesExt

CONSTANTS RpMaxLines,       \* bound on lines of a file
          RpMaxFiles        \* bound on files of a directory

ASSUME ParseAssumption == RpMaxLines \in Nat /\ RpMaxFiles \in Nat \ {0}

Order == <<"user_info", "passwords", "autofills", "installed_software", "processes", "cookies">>
Readers == Range(Order)
Fields(r) ==
    CASE r = "user_info" -> {"HWID", "Log date"}
      [] r = "passwords" -> {"URL", "Password"}
      [] r = "autofills" -> {"Name", "Value"}
      [] r = "processes" -> {"ID", "Name", "CommandLine"}
      [] OTHER -> {"line"}

\* Kinds of line beside the fields: "none" is a Name that is empty or a log
\* date that does not parse, "other" is skipped.
Others(r) ==
    CASE r = "user_info" -> {"none", "other", "long"}
      [] r \in {"passwords", "processes"} -> {"===", "", "other"}
      [] r = "autofills" -> {"none", "", "other", "long"}
      [] r = "installed_software" -> {"no space", "other", "long"}
      [] r = "cookies" -> {"other", "long"}
EmptyField(r) == IF r = "autofills" THEN "Name" ELSE "Log date"

VARIABLES reader,       \* the reader at work
          rpPc,         \* "scan", "file" (one is done), "error", "panic" or "end"
          text,         \* kinds of the lines read of this file
          entry,        \* the entry being collected: field to line
          any,          \* the text since the last "===" is not blank
          fresh,        \* rows of this file: fields, and the line that closed it
          files, table  \* files of the directory before it, and their rows

rpVars == <<reader, rpPc, text, entry, any, fresh, files, table>>

Directory == reader \in {"autofills", "cookies"}
Blocks == reader \in {"passwords", "processes"}
Single == reader \in {"installed_software", "cookies"}
Blank(r) == [f \in Fields(r) |-> 0]

RpInit ==
    /\ reader = "user_info" /\ rpPc = "scan" /\ text = <<>> /\ entry = Blank(reader) /\ any = FALSE
    /\ fresh = <<>> /\ files = 0 /\ table = 0

Line(t) ==
    /\ rpPc = "scan" /\ Len(text) < RpMaxLines
    /\ text' = Append(text, t)
    /\ UNCHANGED <<reader, files, table>>

Row(e) == [fields |-> e, end |-> Len(text) + 1]

-----------------------------------------------------------------------------
(* A "key: value" line: a later one of the same key takes over.            *)
FieldLine ==
    /\ ~Single
    /\ \/ \E f \in Fields(reader) : Line(f) /\ entry' = [entry EXCEPT ![f] = Len(text) + 1]
       \/ /\ "none" \in Others(reader) /\ Line("none")
          /\ entry' = [entry EXCEPT ![EmptyField(reader)] = 0]
    /\ any' = TRUE
    /\ UNCHANGED <<rpPc, fresh>>

\* Mutant: the entry goes on being filled.
ForgetsReset == UNCHANGED entry
NewEntry == entry' = Blank(reader)

\* autofills wants a Name, passwords and processes anything at all.
Worth == IF reader = "autofills" THEN entry["Name"] # 0 ELSE any

(* The line between two entries.  Of autofills an entry that is not worth a *)
(* row goes on, with the Value it may have.                                 *)
CloseLine ==
    /\ (reader = "autofills" /\ Line("")) \/ (Blocks /\ Line("==="))
    /\ fresh' = IF Worth THEN Append(fresh, Row(entry)) ELSE fresh
    /\ IF Worth \/ Blocks THEN NewEntry ELSE UNCHANGED entry
    /\ any' = FALSE
    /\ UNCHANGED rpPc

(* installed_software and cookies: a row of one line.                      *)
RowLine ==
    /\ Single /\ Line("line")
    /\ fresh' = Append(fresh, Row([f \in {"line"} |-> Len(text) + 1]))
    /\ UNCHANGED <<rpPc, entry, any>>

(* Line n leaves a block not blank: it is not, or it is a part of processes *)
(* after another, with the comma between them.                             *)
Says(s, r, n) == s[n] # "" \/ (r = "processes" /\ n > 1 /\ s[n - 1] # "===")

SkippedLine ==
    /\ \/ Line("other")
       \/ Blocks /\ Line("")
    /\ any' = (any \/ (Blocks /\ Says(text', reader, Len(text'))))
    /\ UNCHANGED <<rpPc, entry, fresh>>

\* A name without a space is cut in one part, of which the second is read.
NoSpace ==
    /\ reader = "installed_software" /\ Line("no space")
    /\ rpPc' = "panic"
    /\ UNCHANGED <<entry, any, fresh>>

\* The scanner gives up: the rows of this file are lost.
TooLong ==
    /\ "long" \in Others(reader) /\ Line("long")
    /\ rpPc' = IF Directory THEN "file" ELSE "error"
    /\ fresh' = <<>>
    /\ UNCHANGED <<entry, any>>

FinalRow == IF Worth THEN Append(fresh, Row(entry)) ELSE fresh

(* The end of a file closes the entry there is.                            *)
EndOfFile ==
    /\ rpPc = "scan"
    /\ fresh' = IF Single THEN fresh ELSE IF reader = "user_info" THEN <<Row(entry)>> ELSE FinalRow
    /\ rpPc' = IF Directory THEN "file" ELSE "end"
    /\ UNCHANGED <<reader, text, entry, any, files, table>>

(* readAutofills, readCookies: its rows join those of the files before.    *)
NextFile ==
    /\ rpPc = "file"
    /\ files' = files + 1 /\ table' = table + Len(fresh)
    /\ text' = <<>> /\ fresh' = <<>> /\ NewEntry
    /\ rpPc' \in (IF files' < RpMaxFiles THEN {"scan"} ELSE {"end"})
    /\ UNCHANGED <<reader, any>>

(* main calls the readers one after the other, errors or not.              *)
NextReader ==
    /\ rpPc \in {"end", "error"}
    /\ \E n \in 1..Len(Order) - 1 : reader = Order[n] /\ reader' = Order[n + 1]
    /\ rpPc' = "scan" /\ text' = <<>> /\ entry' = Blank(reader') /\ any' = FALSE
    /\ fresh' = <<>> /\ files' = 0 /\ table' = 0

RpNext == FieldLine \/ CloseLine \/ RowLine \/ SkippedLine \/ NoSpace \/ TooLong \/ EndOfFile \/ NextFile
          \/ NextReader
RpSpec == RpInit /\ [][RpNext]_rpVars

-----------------------------------------------------------------------------
RpTypeOK ==
    /\ reader \in Readers /\ rpPc \in {"scan", "file", "error", "panic", "end"}
    /\ text \in Seq(Fields(reader) \cup Others(reader)) /\ any \in BOOLEAN
    /\ entry \in [Fields(reader) -> Nat]
    /\ fresh \in Seq([fields : [Fields(reader) -> Nat], end : Nat \ {0}])
    /\ files \in 0..RpMaxFiles /\ table \in Nat

(* What the rows are to be, from the lines s of reader r alone.  The last   *)
(* line of kind f between two lines, 0 if there is none or it is empty.    *)
LastLine(S) == IF S = {} THEN 0 ELSE CHOOSE n \in S : \A k \in S : k <= n
LastIn(s, r, f, lo, hi) ==
    LET m == LastLine({n \in lo + 1 .. hi - 1 : s[n] = f \/ (f = EmptyField(r) /\ s[n] = "none")})
    IN IF m # 0 /\ s[m] = f THEN m ELSE 0

\* Where the block that line e closes begins: after the closing line before.
Closing(r) == IF r \in {"passwords", "processes"} THEN "===" ELSE ""
BlockOf(s, r, e) == LastLine({n \in 1..e - 1 : s[n] = Closing(r)})
HasRow(s, r, e) ==
    IF Closing(r) = "===" THEN \E n \in BlockOf(s, r, e) + 1 .. e - 1 : Says(s, r, n)
    ELSE LastIn(s, r, "Name", BlockOf(s, r, e), e) # 0

AtEnd == rpPc \in {"file", "end"} /\ "long" \notin Range(text)
RowEnds ==
    IF Single THEN {n \in 1..Len(text) : text[n] = "line"}
    ELSE {n \in 1..Len(text) : text[n] = Closing(reader) /\ HasRow(text, reader, n)}
         \cup (IF AtEnd /\ HasRow(text, reader, Len(text) + 1) THEN {Len(text) + 1} ELSE {})

(* The rows of a file are its blocks that have something to say (autofills: *)
(* a Name; the others anything but blanks, of processes a comma will do),   *)
(* each once, in order, the last one though no line closes it               *)
(* (main.go:287-335, 360-406, 409-560).                                     *)
RowsAreBlocks ==
    reader # "user_info" /\ rpPc # "error" /\ "long" \notin Range(text) =>
        /\ {fresh[n].end : n \in 1..Len(fresh)} = RowEnds
        /\ \A n \in 1..Len(fresh) - 1 : fresh[n].end < fresh[n + 1].end

(* A row's fields are the last lines with their keys of its own block, and *)
(* of no other file; only the Value of an autofill may be of an earlier    *)
(* block, but not of one that made a row.                                  *)
FromLine(f, n) ==
    IF reader = "user_info" THEN 0
    ELSE IF f # "Value" THEN BlockOf(text, reader, fresh[n].end)
    ELSE IF n = 1 THEN 0 ELSE fresh[n - 1].end
FieldsOfBlock ==
    ~Single => \A n \in 1..Len(fresh) : \A f \in Fields(reader) :
        fresh[n].fields[f] = LastIn(text, reader, f, FromLine(f, n), fresh[n].end)

(* The rows are the text's, neither more nor less.                         *)
RowsOfText == RowsAreBlocks /\ FieldsOfBlock

(* A Value is of the block its Name is of (main.go:369-395).               *)
ValueOfBlock ==
    reader = "autofills" => \A n \in 1..Len(fresh) :
        fresh[n].fields["Value"] # 0 => fresh[n].fields["Value"] > BlockOf(text, reader, fresh[n].end)
=============================================================================
