-------------------------- MODULE SystemParameters --------------------------
(***************************************************************************)
(* The system parameters of the digitizer (software/src/systemParameters.c *)
(* and the places that change them): a table in a file on the card, which  *)
(* is read at boot and after each upload, and rewritten from the running   *)
(* values by the console and before each download.                         *)
(*                                                                         *)
(* A table gives each parameter a value, an invalid one, or none.  Tables  *)
(* are parsed into a candidate in static storage, which is committed when  *)
(* the parser accepts it.  A checksum is represented by the values it was  *)
(* computed from.  What an invalid text leaves behind in its own field of  *)
(* the candidate is not represented: the field keeps its value.            *)
(***************************************************************************)
EXTENDS Integers

CONSTANTS
  N,          \* number of parameters, numbered in the order of the table
  Values,     \* what a parameter may be set to
  Default,    \* systemParametersDefault: a value for each parameter
  Tables,     \* the tables that are uploaded
  Cuts,       \* lines that a save or an upload leaves when it fails
  Zero,       \* the value of a variable in zeroed storage
  Invalid,    \* stands for a text that the parser refuses
  Missing     \* stands for a parameter that a table does not have

Params == 1 .. N
Settings == [Params -> Values]
AllTables == [Params -> Values \cup {Invalid, Missing}]
NoTable == [p \in Params |-> Missing]
WholeTables == [Params -> Values \cup {Invalid}] \cup {NoTable}

ASSUME ParamsAssumption == N \in Nat \ {0}
ASSUME ValuesAssumption ==
  /\ Default \in Settings
  /\ Invalid \notin Values /\ Missing \notin Values /\ Zero \notin Values
  /\ Invalid # Missing
  /\ Zero \notin [Params -> Values \cup {Zero}]   \* no checksum is zero
ASSUME TablesAssumption == 
  Tables \subseteq AllTables /\ Cuts \subseteq 0 .. N - 1

VARIABLES
  systemParameters,   \* the running values
  candidate,          \* systemParametersCandidate without its checksum
  checksum,           \* its checksum
  visited,            \* parameters that parsers have seen since boot
  file,               \* the table on the card; NoTable when empty or absent
  kept                \* history: the last upload or save kept its table

vars == <<systemParameters, candidate, checksum, visited, file, kept>>

(* parseTable.  It stops at the first invalid value; what it has read by   *)
(* then is in the candidate.                                               *)
Parsed(t) == {p \in Params : t[p] # Missing /\ \A q \in 1 .. p : t[q] # Invalid}
WithTable(old, t) == [p \in Params |-> IF p \in Parsed(t) THEN t[p] ELSE old[p]]
IsValid(t) == \A p \in Params : t[p] # Invalid
AcceptsAnything(t, seen) == t # NoTable
Accepts(t, seen) == t # NoTable /\ IsValid(t) /\ seen \cup Parsed(t) = Params

(* systemParametersCommit.                                                 *)
Unchecked(values, sum) == values
Checked(values, sum) == IF values = sum THEN values ELSE Default

(* A table of which only the first n lines were written.                   *)
FirstLines(t, n) == [p \in Params |-> IF p <= n THEN t[p] ELSE Missing]

(* systemParametersStashEEPROM, and the commit if it succeeds: the last    *)
(* block of an upload has been written.                                    *)
Stash(t) ==
  /\ candidate' = WithTable(candidate, t)
  /\ visited' = visited \cup Parsed(t)
  /\ IF Accepts(t, visited)
     THEN /\ checksum' = candidate'
          /\ systemParameters' = candidate'
          /\ kept' = TRUE
     ELSE /\ kept' = FALSE
          /\ UNCHANGED <<systemParameters, checksum>>
Upload(t) == file' = t /\ Stash(t)

(* An upload that the client gives up on: its request emptied the file and *)
(* the last block, which has the table parsed, never comes.                *)
UploadAbandoned(t) ==
  /\ \E n \in Cuts : file' = FirstLines(t, n)
  /\ kept' = FALSE
  /\ UNCHANGED <<systemParameters, candidate, checksum, visited>>

(* A file whose name only begins like that of the parameter file: the      *)
(* parameter file itself is parsed again.                                  *)
UploadOther == file # NoTable /\ UNCHANGED file /\ Stash(file)

(* systemParametersFetchEEPROM: before a download, or from the console     *)
(* after it has changed a running value.  When the file cannot be opened   *)
(* it is left alone; when the card is full, it is cut short.               *)
WrittenCandidate(values) == candidate
Written(values) == values
Fetch(values) ==
  \/ file' = Written(values) /\ kept' = TRUE
  \/ \E n \in Cuts : file' = FirstLines(Written(values), n) /\ kept' = FALSE
  \/ UNCHANGED file /\ kept' = FALSE
Download ==
  /\ Fetch(systemParameters)
  /\ UNCHANGED <<systemParameters, candidate, checksum, visited>>
ConsoleSet(p, v) ==
  /\ systemParameters' = [systemParameters EXCEPT ![p] = v]
  /\ Fetch(systemParameters')
  /\ UNCHANGED <<candidate, checksum, visited>>

(* A restart: static storage is cleared, and filesystemReadbacks parses    *)
(* the file and commits what it makes of it.                               *)
Zeroed == [p \in Params |-> Zero]
AtBoot(t) == Checked(WithTable(Zeroed, t), IF Accepts(t, {}) THEN WithTable(Zeroed, t) ELSE Zero)
Boot ==
  /\ visited' = Parsed(file)
  /\ systemParameters' = AtBoot(file)
  /\ candidate' = AtBoot(file)
  /\ checksum' = IF Accepts(file, {}) THEN AtBoot(file) ELSE Zero
  /\ kept' = Accepts(file, {})
  /\ UNCHANGED file

Init ==
  /\ file \in {NoTable, Default}
  /\ visited = Parsed(file)
  /\ systemParameters = AtBoot(file) /\ candidate = AtBoot(file)
  /\ checksum = IF Accepts(file, {}) THEN AtBoot(file) ELSE Zero
  /\ kept = Accepts(file, {})

Next ==
  \/ \E t \in Tables : Upload(t) \/ UploadAbandoned(t)
  \/ UploadOther \/ Download \/ Boot
  \/ \E p \in Params, v \in Values : ConsoleSet(p, v)

Spec == Init /\ [][Next]_vars

----------------------------------------------------------------------------
TypeOK ==
  /\ systemParameters \in Settings
  /\ candidate \in Settings
  /\ checksum \in Settings \cup {Zero}
  /\ visited \subseteq Params
  /\ file \in AllTables
  /\ kept \in BOOLEAN

(* Nobody uploads a table that lacks a parameter, and one that cannot be   *)
(* written to its end leaves none of its lines.                            *)
OnlyWholeTables == Tables \subseteq WholeTables /\ Cuts \subseteq {0}

(* A restart changes nothing: when the last upload was accepted or the     *)
(* last save succeeded, the card holds the values that are running,        *)
(* whatever was refused, downloaded or changed from the console before it. *)
RestartChangesNothing == kept => AtBoot(file) = systemParameters

(* A table that is refused leaves the running values alone, and one that   *)
(* is accepted brings all of them: "Missing parameters" is an error.       *)
AllOrNothing ==
  [][(\E t \in Tables : Upload(t)) =>
        systemParameters' \in {systemParameters, file'}]_vars
=============================================================================
