----------------------------- MODULE ResultFile -----------------------------
(***************************************************************************)
(* The results file of resumed scrapes as a crash or a full disk leaves it *)
(* (runner/resume/results.go and writer.go): the append writers, a record  *)
(* cut short, and the next session's loading and repair of the file.       *)
(*                                                                         *)
(* A record is a place, or the CSV header, with how it was cut:            *)
(*   "none"    whole, with its newline;                                    *)
(*   "late"    short of its newline alone, or of the end of its last field;*)
(*   "early"   between or inside unquoted fields: too few of them;         *)
(*   "quoted"  inside a quoted CSV field, or a JSON value;                 *)
(*   "inner"   inside a quoted CSV field, right after a newline of it.     *)
(* What follows a record cut short is glued to it.  A header cut in its    *)
(* very first name, which glues to a line of the right width, is left out. *)
(***************************************************************************)
EXTENDS Naturals, SequencesExt

CONSTANTS
  Places,
  Header,  \* the CSV header
  Formats, \* the formats a file may have: "csv", or "jsonl" (-json)
  MaxRecords \* a bound on the records written, for TLC

ASSUME RecordAssumption == Header \notin Places
ASSUME FormatAssumption == Formats \subseteq {"csv", "jsonl"} /\ MaxRecords \in Nat

VARIABLES
  format,   \* the file's format, the same in every session
  file,     \* the records of the file
  session,  \* "off", "open", "refused"
  ids,      \* the identities the session knows
  headerDue \* shouldWriteCSVHeader, and no result yet

vars == <<format, file, session, ids, headerDue>>

JSONL == format = "jsonl"

\* How a record of the format may be cut short.
Cuts == IF JSONL THEN {"late", "quoted"} ELSE {"late", "early", "quoted", "inner"}

Records == [what : Places \cup {Header}, cut : Cuts \cup {"none"}]

Init ==
  /\ format \in Formats
  /\ file = <<>> /\ session = "off" /\ ids = {} /\ headerDue = FALSE

-----------------------------------------------------------------------------
(* Loading                                                                  *)

\* The rows the reader returns: one whose last field was cut reads like a
\* whole one, and CSV rows are not read when they are glued to what precedes.
Rows(f) ==
  {k \in 1..Len(f) :
     /\ f[k].what \in Places /\ f[k].cut \in {"none", "late"}
     /\ JSONL \/ k = 1 \/ f[k - 1].cut = "none"}

\* The decoder reads values one after the other, newline or not.
ParsesJSONL(f) == \A k \in 1..Len(f) : f[k].cut # "quoted"

\* The CSV reader wants every line as wide as the first, and glued lines are
\* not; a file of a single line has only a header, of any width.
ParsesCSV(f) ==
  /\ \A k \in 1..Len(f) : f[k].cut \notin {"quoted", "inner"}
  /\ \/ \A k \in 1..(Len(f) - 1) : f[k].cut # "none"
     \/ \A k \in 1..Len(f) : f[k].cut = "none" \/ (k = Len(f) /\ f[k].cut = "late")

Parses(f) == IF JSONL THEN ParsesJSONL(f) ELSE ParsesCSV(f)

Identities_All(f) == {f[k].what : k \in 1..Len(f)}

Identities(f) == {f[k].what : k \in Rows(f)}

Incomplete_Unseen(f) == FALSE

\* hasIncompleteTrailingRecord: the last byte is no newline.
Incomplete(f) == f # <<>> /\ Last(f).cut \in {"late", "early", "quoted"}

\* Everything after the last newline goes: the last record, with those glued
\* to its front, or only its last line when a field of it has a newline.
LastWhole(f) ==
  LET ends == {k \in 0..Len(f) : k = 0 \/ f[k].cut \in {"none", "inner"}}
  IN CHOOSE k \in ends : \A n \in ends : n <= k

Truncated_OneTooMany(f) == SubSeq(f, 1, LastWhole(f) - 1)
Truncated(f) == SubSeq(f, 1, LastWhole(f))
Repairs(f) ==
  {Truncated(f)} \cup
  (IF Last(f).cut = "quoted" /\ "inner" \in Cuts
   THEN {[f EXCEPT ![Len(f)].cut = "inner"]} ELSE {})

\* What the session works on: file as it is, or repaired and read again.
Opens(f) ==
  /\ file' = f
  /\ IF Parses(f)
     THEN /\ session' = "open" /\ ids' = Identities(f)
          /\ headerDue' = (~JSONL /\ f = <<>>)
     ELSE session' = "refused" /\ UNCHANGED <<ids, headerDue>>

Resume ==
  /\ session = "off"
  /\ IF Parses(file) \/ ~Incomplete(file) THEN Opens(file)
     ELSE \E f \in Repairs(file) : Opens(f)
  /\ UNCHANGED format

-----------------------------------------------------------------------------
(* Appending                                                                *)

Appends(record) == Len(file) < MaxRecords /\ file' = Append(file, record)

WriteHeader ==
  /\ session = "open" /\ headerDue
  /\ Appends([what |-> Header, cut |-> "none"])
  /\ headerDue' = FALSE
  /\ UNCHANGED <<format, session, ids>>

WriteEntry_Forgotten(p) ==
  /\ session = "open" /\ ~headerDue /\ p \notin ids
  /\ Appends([what |-> p, cut |-> "none"])
  /\ UNCHANGED <<format, session, ids, headerDue>>

WriteEntry(p) ==
  /\ session = "open" /\ ~headerDue /\ p \notin ids
  /\ Appends([what |-> p, cut |-> "none"])
  /\ ids' = ids \cup {p}
  /\ UNCHANGED <<format, session, headerDue>>

\* A crash or a full disk ends the session inside a write.
Tear ==
  /\ session = "open"
  /\ \E cut \in Cuts, what \in (IF headerDue THEN {Header} ELSE Places \ ids) :
       /\ what = Header => cut \in {"late", "early"}
       /\ Appends([what |-> what, cut |-> cut])
  /\ session' = "off" /\ ids' = {} /\ headerDue' = FALSE
  /\ UNCHANGED format

Stop ==
  /\ session = "open"
  /\ session' = "off" /\ ids' = {} /\ headerDue' = FALSE
  /\ UNCHANGED <<format, file>>

Refused == session = "refused" /\ UNCHANGED vars

Next ==
  \/ Resume \/ WriteHeader \/ Tear \/ Stop \/ Refused
  \/ \E p \in Places : WriteEntry(p)

Spec == Init /\ [][Next]_vars

-----------------------------------------------------------------------------
(* Properties                                                               *)

TypeOK ==
  /\ format \in Formats
  /\ \A k \in DOMAIN file : file[k] \in Records
  /\ session \in {"off", "open", "refused"}
  /\ ids \subseteq Places /\ headerDue \in BOOLEAN

\* README.md, "Resuming Interrupted CLI Runs": "Use -resume to continue a CLI
\* file scrape after a crash or manual stop".  No crash leaves a file that a
\* session with -resume refuses.
AlwaysOpens == session # "refused"

\* The same of JSON lines, whose values need no newline between them.
JSONLAlwaysOpens == JSONL => AlwaysOpens

\* The repair removes no record that was written whole.
RepairKeepsRecords ==
  [][\A k \in DOMAIN file :
       file[k].cut = "none" => k \in DOMAIN file' /\ file'[k] = file[k]]_vars

\* While every session opens, no place has two readable rows: what a repair
\* takes out of the file is taken out of the identities too, and only that.
OneRowEach ==
  session # "refused" /\ Parses(file) =>
    \A j, k \in Rows(file) : j # k => file[j].what # file[k].what
=============================================================================
