-------------------------- MODULE OperatorProofs ---------------------------
(***************************************************************************)
(* What those who set up the digitizer may rely on.                        *)
(*                                                                         *)
(* The parameter store, for any number of parameters and any values: types *)
(* whatever the tables, and, when every table is whole, uploads that are   *)
(* all or nothing and restarts that change nothing.                        *)
(*                                                                         *)
(* The console implements OperatorSettings for any addresses, any clients, *)
(* any lengths of its buffers and any input, with whatever an eye scan and *)
(* an event log do in between.  The event log prints in order, the eye scan *)
(* shows what it counted, and the buffers hold, each by an invariant of its *)
(* own: LogInv, ScanInv, BufferInv.                                        *)
(***************************************************************************)
EXTENDS MCOperator, TLAPS

----------------------------------------------------------------------------
(* The parameter store.                                                    *)

(* What a table does not set, it leaves as it was.                         *)
LEMMA WithTableType ==
  ASSUME NEW old \in Settings, NEW t \in AllTables
  PROVE  WithTable(old, t) \in Settings
<1>1. ASSUME NEW p \in Parsed(t)
      PROVE  t[p] \in Values
  <2>1. p \in Params /\ t[p] # Missing /\ t[p] # Invalid
    BY <1>1, ParamsAssumption DEF Parsed, Params
  <2> QED BY <2>1 DEF AllTables
<1> QED BY <1>1 DEF WithTable, Settings

(* A table of which every line was parsed determines the candidate.        *)
LEMMA CompleteType ==
  ASSUME NEW old, NEW t \in AllTables, Parsed(t) = Params
  PROVE  t \in Settings /\ WithTable(old, t) = t
<1>1. ASSUME NEW p \in Params
      PROVE  t[p] \in Values
  <2>1. t[p] # Missing /\ t[p] # Invalid
    BY <1>1, ParamsAssumption DEF Parsed, Params
  <2> QED BY <1>1, <2>1 DEF AllTables
<1>2. t = [p \in Params |-> t[p]]
  BY DEF AllTables
<1> QED BY <1>1, <1>2 DEF WithTable, Settings

(* All the lines of a table without an invalid one are parsed.             *)
LEMMA WholeIsParsed ==
  ASSUME NEW t \in Settings
  PROVE  Parsed(t) = Params /\ t # NoTable
<1>1. \A p \in Params : t[p] # Missing /\ t[p] # Invalid
  BY ValuesAssumption DEF Settings
<1>2. \A p \in Params : \A q \in 1 .. p : q \in Params
  BY ParamsAssumption DEF Params
<1>3. 1 \in Params
  BY ParamsAssumption DEF Params
<1> QED BY <1>1, <1>2, <1>3 DEF Parsed, NoTable

(* Whatever the file, the board boots with valid parameters; a file that   *)
(* holds a complete table gives it those of the table.                     *)
LEMMA BootType ==
  ASSUME NEW t \in AllTables
  PROVE  AtBoot(t) \in Settings
<1>1. CASE Accepts(t, {})
  <2>1. Parsed(t) = Params
    BY <1>1 DEF Accepts
  <2> QED BY <1>1, <2>1, CompleteType DEF AtBoot, Checked
<1>2. CASE ~ Accepts(t, {})
  <2>1. WithTable(Zeroed, t) \in [Params -> Values \cup {Zero}]
    <3>1. ASSUME NEW p \in Parsed(t)
          PROVE  t[p] \in Values
      <4>1. p \in Params /\ t[p] # Missing /\ t[p] # Invalid
        BY <3>1, ParamsAssumption DEF Parsed, Params
      <4> QED BY <4>1 DEF AllTables
    <3> QED BY <3>1 DEF WithTable, Zeroed
  <2>2. WithTable(Zeroed, t) # Zero
    BY <2>1, ValuesAssumption
  <2> QED BY <1>2, <2>2, ValuesAssumption DEF AtBoot, Checked
<1> QED BY <1>1, <1>2

LEMMA BootOfWhole ==
  ASSUME NEW t \in Settings
  PROVE  Accepts(t, {}) /\ AtBoot(t) = t
<1>1. t \in AllTables
  BY DEF Settings, AllTables
<1>2. Parsed(t) = Params /\ t # NoTable
  BY WholeIsParsed
<1>3. Accepts(t, {})
  BY <1>2, ValuesAssumption DEF Accepts, IsValid, Settings
<1>4. WithTable(Zeroed, t) = t
  BY <1>1, <1>2, CompleteType
<1> QED BY <1>3, <1>4 DEF AtBoot, Checked

(* A part of a table is a table.                                           *)
LEMMA FirstLinesType ==
  ASSUME NEW t \in AllTables, NEW n \in Cuts
  PROVE  FirstLines(t, n) \in AllTables
BY DEF FirstLines, AllTables

(* When nothing is left of what cannot be written, no table is.            *)
LEMMA NoLines ==
  ASSUME OnlyWholeTables, NEW t, NEW n \in Cuts
  PROVE  FirstLines(t, n) \in WholeTables
<1>1. n = 0
  BY DEF OnlyWholeTables
<1>2. \A p \in Params : ~ (p <= n)
  BY <1>1, ParamsAssumption DEF Params
<1> QED BY <1>2 DEF FirstLines, NoTable, WholeTables

(* Every save leaves a table, whether whole or cut short.                  *)
LEMMA FetchType ==
  ASSUME NEW values \in Settings, file \in AllTables, Fetch(values)
  PROVE  file' \in AllTables /\ kept' \in BOOLEAN
<1>1. CASE file' = values /\ kept' = TRUE
  BY <1>1 DEF Settings, AllTables
<1>2. ASSUME NEW n \in Cuts,
             file' = FirstLines(values, n),
             kept' = FALSE
      PROVE  file' \in AllTables /\ kept' \in BOOLEAN
  <2>1. values \in AllTables
    BY DEF Settings, AllTables
  <2> QED BY <1>2, <2>1, FirstLinesType
<1>3. CASE file' = file /\ kept' = FALSE
  BY <1>3
<1> QED BY <1>1, <1>2, <1>3 DEF Fetch, Written

(* Parsing a table, whether it is accepted or refused.                     *)
LEMMA StashType ==
  ASSUME TypeOK, NEW t \in AllTables, Stash(t)
  PROVE  /\ systemParameters' \in Settings /\ candidate' \in Settings
         /\ checksum' \in Settings \cup {Zero} /\ visited' \subseteq Params
         /\ kept' \in BOOLEAN
<1>1. candidate' \in Settings
  BY WithTableType DEF TypeOK, Stash
<1>2. visited' \subseteq Params
  BY DEF TypeOK, Stash, Parsed
<1>3. CASE Accepts(t, visited)
  BY <1>1, <1>2, <1>3 DEF Stash
<1>4. CASE ~ Accepts(t, visited)
  BY <1>1, <1>2, <1>4 DEF Stash, TypeOK
<1> QED BY <1>3, <1>4

LEMMA InitType == Init => TypeOK
<1> SUFFICES ASSUME Init PROVE TypeOK
  OBVIOUS
<1>1. file \in AllTables
  BY ValuesAssumption DEF Init, NoTable, Settings, AllTables
<1>2. AtBoot(file) \in Settings
  BY <1>1, BootType
<1> QED BY <1>1, <1>2 DEF Init, TypeOK, Parsed, Accepts, IsValid

LEMMA NextType == TypeOK /\ [Next]_vars => TypeOK'
<1> SUFFICES ASSUME TypeOK, [Next]_vars PROVE TypeOK'
  OBVIOUS
<1>1. ASSUME NEW t \in Tables, Upload(t)
      PROVE  TypeOK'
  <2>1. t \in AllTables
    BY TablesAssumption
  <2> QED BY <1>1, <2>1, StashType DEF Upload, TypeOK
<1>2. CASE UploadOther
  <2>1. file \in AllTables
    BY DEF TypeOK
  <2> QED BY <1>2, <2>1, StashType DEF UploadOther, TypeOK
<1>3. CASE Download
  <2>1. systemParameters \in Settings /\ file \in AllTables
    BY DEF TypeOK
  <2>2. file' \in AllTables /\ kept' \in BOOLEAN
    BY <1>3, <2>1, FetchType DEF Download
  <2> QED BY <1>3, <2>2 DEF Download, TypeOK
<1>4. CASE Boot
  <2>1. file \in AllTables
    BY DEF TypeOK
  <2>2. AtBoot(file) \in Settings
    BY <2>1, BootType
  <2> QED BY <1>4, <2>1, <2>2 DEF Boot, TypeOK, Parsed, Accepts, IsValid
<1>5. ASSUME NEW p \in Params, NEW v \in Values, ConsoleSet(p, v)
      PROVE  TypeOK'
  <2>1. systemParameters' \in Settings /\ file \in AllTables
    BY <1>5 DEF ConsoleSet, TypeOK, Settings
  <2>2. file' \in AllTables /\ kept' \in BOOLEAN
    BY <1>5, <2>1, FetchType DEF ConsoleSet
  <2> QED BY <1>5, <2>1, <2>2 DEF ConsoleSet, TypeOK
<1>6. ASSUME NEW t \in Tables, UploadAbandoned(t)
      PROVE  TypeOK'
  BY <1>6, FirstLinesType, TablesAssumption DEF UploadAbandoned, TypeOK
<1>7. CASE UNCHANGED vars
  BY <1>7 DEF vars, TypeOK
<1> QED BY <1>1, <1>2, <1>3, <1>4, <1>5, <1>6, <1>7 DEF Next

(* Whatever is uploaded, saved in full or in part, or set from the         *)
(* console, the board runs with a complete set of valid parameters, and    *)
(* the candidate that the next commit reads is one too.                    *)
THEOREM TypeCorrect == Spec => []TypeOK
<1> QED BY InitType, NextType, PTL DEF Spec

(* The strengthening of RestartChangesNothing: the file is whole, and when *)
(* it was kept it holds the running values themselves.                     *)
KeptIsRunning ==
  /\ TypeOK
  /\ file \in WholeTables
  /\ kept => file = systemParameters

(* A whole table that the parser accepts brings all the running values.    *)
LEMMA StashWhole ==
  ASSUME TypeOK, NEW t \in WholeTables, Stash(t)
  PROVE  /\ kept' => t = systemParameters'
         /\ ~ kept' => systemParameters' = systemParameters
<1>1. CASE Accepts(t, visited)
  <2>1. t \in Settings
    BY <1>1 DEF Accepts, IsValid, WholeTables, Settings
  <2>2. Parsed(t) = Params
    BY <2>1, WholeIsParsed
  <2>3. t \in AllTables
    BY <2>1 DEF Settings, AllTables
  <2> QED BY <1>1, <2>2, <2>3, CompleteType DEF Stash
<1>2. CASE ~ Accepts(t, visited)
  BY <1>2 DEF Stash
<1> QED BY <1>1, <1>2

LEMMA FetchWhole ==
  ASSUME OnlyWholeTables, NEW values \in Settings, file \in WholeTables, Fetch(values)
  PROVE  file' \in WholeTables /\ (kept' => file' = values)
<1>1. CASE file' = values /\ kept' = TRUE
  BY <1>1 DEF Settings, WholeTables
<1>2. ASSUME NEW n \in Cuts,
             file' = FirstLines(values, n),
             kept' = FALSE
      PROVE  file' \in WholeTables /\ (kept' => file' = values)
  BY <1>2, NoLines
<1>3. CASE file' = file /\ kept' = FALSE
  BY <1>3
<1> QED BY <1>1, <1>2, <1>3 DEF Fetch, Written

LEMMA InitKept == Init => KeptIsRunning
<1> SUFFICES ASSUME Init PROVE KeptIsRunning
  OBVIOUS
<1>1. TypeOK
  BY InitType
<1>2. CASE file = NoTable
  BY <1>1, <1>2 DEF Init, KeptIsRunning, Accepts, WholeTables
<1>3. CASE file = Default
  <2>1. Default \in Settings
    BY ValuesAssumption
  <2> QED BY <1>1, <1>3, <2>1, BootOfWhole DEF Init, KeptIsRunning, WholeTables, Settings
<1> QED BY <1>2, <1>3 DEF Init

LEMMA NextKept == OnlyWholeTables /\ KeptIsRunning /\ [Next]_vars => KeptIsRunning'
<1> SUFFICES ASSUME OnlyWholeTables, KeptIsRunning, [Next]_vars PROVE KeptIsRunning'
  OBVIOUS
<1>1. TypeOK /\ TypeOK'
  BY NextType DEF KeptIsRunning
<1>2. ASSUME NEW t \in Tables, Upload(t)
      PROVE  KeptIsRunning'
  <2>1. t \in WholeTables
    BY DEF OnlyWholeTables
  <2> QED BY <1>1, <1>2, <2>1, StashWhole DEF Upload, KeptIsRunning
<1>3. CASE UploadOther
  <2>1. file \in WholeTables
    BY DEF KeptIsRunning
  <2> QED BY <1>1, <1>3, <2>1, StashWhole DEF UploadOther, KeptIsRunning
<1>4. CASE Download
  <2>1. systemParameters \in Settings /\ file \in WholeTables
    BY <1>1 DEF KeptIsRunning, TypeOK
  <2> QED BY <1>1, <1>4, <2>1, FetchWhole DEF Download, KeptIsRunning
<1>5. CASE Boot
  <2>1. ASSUME Accepts(file, {}) PROVE file \in Settings
    BY <2>1 DEF KeptIsRunning, Accepts, IsValid, WholeTables, Settings
  <2> QED BY <1>1, <1>5, <2>1, BootOfWhole DEF Boot, KeptIsRunning
<1>6. ASSUME NEW p \in Params, NEW v \in Values, ConsoleSet(p, v)
      PROVE  KeptIsRunning'
  <2>1. systemParameters' \in Settings /\ file \in WholeTables
    BY <1>1 DEF KeptIsRunning, TypeOK
  <2>2. file' \in WholeTables /\ (kept' => file' = systemParameters')
    BY <1>6, <2>1, FetchWhole DEF ConsoleSet
  <2> QED BY <1>1, <2>2 DEF KeptIsRunning
<1>7. ASSUME NEW t \in Tables, UploadAbandoned(t)
      PROVE  KeptIsRunning'
  BY <1>1, <1>7, NoLines DEF UploadAbandoned, KeptIsRunning
<1>8. CASE UNCHANGED vars
  BY <1>1, <1>8 DEF vars, KeptIsRunning
<1> QED BY <1>2, <1>3, <1>4, <1>5, <1>6, <1>7, <1>8 DEF Next

LEMMA KeptRestart == KeptIsRunning => RestartChangesNothing
BY BootOfWhole DEF KeptIsRunning, TypeOK, RestartChangesNothing

(* As long as every table is whole, the last accepted upload or successful *)
(* save is what the board would boot with: console changes, refused        *)
(* uploads and failed saves in between do not come back after a restart.   *)
THEOREM RestartSafe ==
  ASSUME OnlyWholeTables
  PROVE  Spec => []RestartChangesNothing
<1>1. KeptIsRunning /\ [Next]_vars => KeptIsRunning'
  BY NextKept
<1> QED BY <1>1, InitKept, KeptRestart, PTL DEF Spec

(* As long as every table is whole, no upload mixes new values with old    *)
(* ones: the parser's acceptance commits the table itself, and a refusal   *)
(* commits nothing.                                                        *)
THEOREM UploadsAreAtomic ==
  ASSUME OnlyWholeTables
  PROVE  Spec => AllOrNothing
<1>1. ASSUME TypeOK, [Next]_vars, \E t \in Tables : Upload(t)
      PROVE  systemParameters' \in {systemParameters, file'}
  <2>1. PICK t \in Tables : Upload(t)
    BY <1>1
  <2>2. t \in WholeTables
    BY DEF OnlyWholeTables
  <2>3. kept' \in BOOLEAN
    BY <1>1, NextType DEF TypeOK
  <2> QED BY <1>1, <2>1, <2>2, <2>3, StashWhole DEF Upload
<1>2. TypeOK /\ [Next]_vars
        => [(\E t \in Tables : Upload(t)) => systemParameters' \in {systemParameters, file'}]_vars
  BY <1>1
<1> QED BY <1>2, TypeCorrect, PTL DEF Spec, AllOrNothing

----------------------------------------------------------------------------
(* The console.                                                            *)

(* The keys that the properties tell apart: an address that is asked about *)
(* is a good one, and so is an offset that is set.                         *)
Words == {"net", "netBad", "mac", "macBad", "userMGT", "boot", "log", "tlog", "xcvr", "yes", "no",
          "none", "backspace", "newline"}
Args == Addresses \cup Adjustments \cup {NoAddress}
Keys == [word : Words, arg : Args]
Proper(k) ==
  /\ k \in Keys
  /\ k.word \in {"net", "netBad", "mac", "macBad"} => k.arg \in Addresses
  /\ k.word = "userMGT" => k.arg \in Adjustments
ProperKeys == {k \in Keys : Proper(k)}
ProperInput == SerialKeys \subseteq ProperKeys /\ Datagrams \subseteq Seq(ProperKeys)

Modes == {"command", "log", "boot", "net", "mac"}
SettingsType == [net : Addresses, mac : Addresses, offset : Adjustments]

(* A question is about a good address, which makes the refinement go       *)
(* through; the rest is the input that is still to become a command.       *)
QuestionInv ==
  /\ mode \in Modes /\ settings \in SettingsType
  /\ mode = "net" => ipv4 \in Addresses
  /\ mode = "mac" => macBuf \in Addresses
InputInv ==
  /\ line \in Seq(ProperKeys)
  /\ input \in [serial : Seq(ProperKeys), pbuf : Seq(ProperKeys)]
ConsoleInv == QuestionInv /\ InputInv

LEMMA Initial == ConsoleInit => ConsoleInv /\ Operator!AbsInit
<1> SUFFICES ASSUME ConsoleInit PROVE ConsoleInv /\ Operator!AbsInit
  OBVIOUS
<1>1. QuestionInv
  BY DEF ConsoleInit, QuestionInv, Modes, SettingsType
<1>2. InputInv
  BY DEF ConsoleInit, InputInv, NoInput
<1>3. Operator!AbsInit
  BY DEF ConsoleInit, Operator!AbsInit, OpenQuestion
<1> QED BY <1>1, <1>2, <1>3 DEF ConsoleInv

----------------------------------------------------------------------------
(* What a step does to the question and the settings.                      *)
Abstract == Operator!AbsNext \/ UNCHANGED Operator!absVars
Good == QuestionInv' /\ Abstract

LEMMA StayIsGood == ASSUME QuestionInv, Stay PROVE Good
<1>1. mode' = Mode /\ ipv4' = ipv4 /\ macBuf' = macBuf /\ settings' = settings
  BY DEF Stay, stored
<1>2. OpenQuestion' = OpenQuestion
  BY <1>1 DEF OpenQuestion, Mode
<1>3. QuestionInv'
  BY <1>1 DEF QuestionInv, Modes, Mode
<1> QED BY <1>1, <1>2, <1>3 DEF Good, Abstract, Operator!absVars

LEMMA RestIsGood == ASSUME QuestionInv, UNCHANGED <<question, stored>> PROVE Good
<1>1. mode' = mode /\ ipv4' = ipv4 /\ macBuf' = macBuf /\ settings' = settings
  BY DEF question, stored
<1> QED BY <1>1 DEF QuestionInv, OpenQuestion, Good, Abstract, Operator!absVars

(* A question that is open is not NoQuestion.                              *)
LEMMA AQuestion ==
  ASSUME NEW of \in {"net", "mac"}, NEW a \in Addresses
  PROVE  /\ [of |-> of, value |-> a] \in Operator!Questions
         /\ [of |-> of, value |-> a] # NoQuestion
BY ConsoleAssumption DEF Operator!Questions

LEMMA CommandIsGood ==
  ASSUME QuestionInv, NEW k \in ProperKeys, Mode = "command", commandCallback(k)
  PROVE  Good
<1>1. OpenQuestion = NoQuestion
  BY DEF OpenQuestion, Mode
<1>2. CASE k.word \in {"net", "netBad"} /\ cmdNET(k)
  <2>1. k.arg \in Addresses
    BY <1>2 DEF ProperKeys, Proper
  <2>2. /\ ipv4' = k.arg /\ macBuf' = macBuf /\ settings' = settings
        /\ mode' = "net" \/ mode' = "command"
    BY <1>2 DEF cmdNET, AskIf, stored
  <2>3. QuestionInv'
    BY <2>1, <2>2 DEF QuestionInv, Modes
  <2>4. CASE mode' = "net"
    <3>1. OpenQuestion' = [of |-> "net", value |-> k.arg]
      BY <2>2, <2>4 DEF OpenQuestion
    <3>2. OpenQuestion' \in Operator!Questions
      BY <2>1, <3>1, AQuestion
    <3> QED BY <1>1, <2>2, <2>3, <3>2 DEF Good, Abstract, Operator!AbsNext, Operator!Ask
  <2>5. CASE mode' = "command"
    <3>1. OpenQuestion' = NoQuestion
      BY <2>5 DEF OpenQuestion
    <3> QED BY <1>1, <2>2, <2>3, <3>1 DEF Good, Abstract, Operator!absVars
  <2> QED BY <2>2, <2>4, <2>5
<1>3. CASE k.word \in {"mac", "macBad"} /\ cmdMAC(k)
  <2>1. k.arg \in Addresses
    BY <1>3 DEF ProperKeys, Proper
  <2>2. /\ macBuf' = k.arg /\ ipv4' = ipv4 /\ settings' = settings
        /\ mode' = "mac" \/ mode' = "command"
    BY <1>3 DEF cmdMAC, AskIf, stored
  <2>3. QuestionInv'
    BY <2>1, <2>2 DEF QuestionInv, Modes
  <2>4. CASE mode' = "mac"
    <3>1. OpenQuestion' = [of |-> "mac", value |-> k.arg]
      BY <2>2, <2>4 DEF OpenQuestion
    <3>2. OpenQuestion' \in Operator!Questions
      BY <2>1, <3>1, AQuestion
    <3> QED BY <1>1, <2>2, <2>3, <3>2 DEF Good, Abstract, Operator!AbsNext, Operator!Ask
  <2>5. CASE mode' = "command"
    <3>1. OpenQuestion' = NoQuestion
      BY <2>5 DEF OpenQuestion
    <3> QED BY <1>1, <2>2, <2>3, <3>1 DEF Good, Abstract, Operator!absVars
  <2> QED BY <2>2, <2>4, <2>5
<1>4. CASE k.word = "userMGT" /\ cmdUMGT(k)
  <2>1. k.arg \in Adjustments
    BY <1>4 DEF ProperKeys, Proper
  <2>2. /\ mode' = "command" /\ ipv4' = ipv4 /\ macBuf' = macBuf
        /\ settings' = settings \/ settings' = [settings EXCEPT !.offset = k.arg]
    BY <1>4 DEF cmdUMGT, stored
  <2>3. OpenQuestion' = NoQuestion
    BY <2>2 DEF OpenQuestion
  <2>4. QuestionInv'
    BY <2>1, <2>2 DEF QuestionInv, Modes, SettingsType
  <2>5. CASE settings' = settings
    BY <1>1, <2>3, <2>4, <2>5 DEF Good, Abstract, Operator!absVars
  <2>6. CASE settings' = [settings EXCEPT !.offset = k.arg]
    BY <1>1, <2>1, <2>3, <2>4, <2>6 DEF Good, Abstract, Operator!AbsNext, Operator!SetOffset
  <2> QED BY <2>2, <2>5, <2>6
<1>5. CASE k.word \in {"boot", "log"} /\ cmdBOOTorLOG(k)
  <2>1. /\ mode' \in {"boot", "log"} /\ ipv4' = ipv4 /\ macBuf' = macBuf /\ settings' = settings
    BY <1>5 DEF cmdBOOTorLOG, stored
  <2>2. OpenQuestion' = NoQuestion
    BY <2>1 DEF OpenQuestion
  <2> QED BY <1>1, <2>1, <2>2 DEF Good, Abstract, Operator!absVars, QuestionInv, Modes
<1>6. CASE Stay
  BY <1>6, StayIsGood
<1> QED BY <1>2, <1>3, <1>4, <1>5, <1>6 DEF commandCallback

(* An answer to a question, which is open in the mode of the same name.    *)
LEMMA AnswerIsGood ==
  ASSUME QuestionInv, NEW of \in {"net", "mac"}, Mode = of, Answered,
         settings' = Confirmed(of) \/ settings' = settings
  PROVE  Good
<1>1. mode = of
  BY DEF Mode
<1> DEFINE address == IF of = "net" THEN ipv4 ELSE macBuf
<1>2. address \in Addresses
  BY <1>1 DEF QuestionInv
<1>3. OpenQuestion = [of |-> of, value |-> address] /\ OpenQuestion # NoQuestion
  BY <1>1, <1>2, AQuestion DEF OpenQuestion
<1>4. mode' = "command" /\ OpenQuestion' = NoQuestion
  BY DEF Answered, OpenQuestion
<1>5. CASE settings' = settings
  BY <1>3, <1>4, <1>5 DEF Good, Abstract, Operator!AbsNext, Operator!Forget, QuestionInv, Modes
<1>6. CASE settings' = Confirmed(of)
  <2>1. settings' \in SettingsType
    BY <1>2, <1>6 DEF Confirmed, QuestionInv, SettingsType
  <2>2. OpenQuestion.of = of /\ OpenQuestion.value = address
    BY <1>3
  <2>3. settings' = IF OpenQuestion.of = "net" THEN [settings EXCEPT !.net = OpenQuestion.value]
                    ELSE [settings EXCEPT !.mac = OpenQuestion.value]
    BY <1>6, <2>2 DEF Confirmed
  <2>4. Operator!Confirm
    BY <1>3, <1>4, <2>3 DEF Operator!Confirm
  <2> QED BY <1>4, <2>1, <2>4 DEF Good, Abstract, Operator!AbsNext, QuestionInv, Modes
<1> QED BY <1>5, <1>6

LEMMA LineIsGood ==
  ASSUME QuestionInv, NEW k \in ProperKeys, handleLine(k) PROVE Good
<1>1. CASE Mode = "command" /\ commandCallback(k)
  BY <1>1, CommandIsGood
<1>2. CASE Mode = "boot" /\ bootQueryCallback(k)
  <2>1. /\ mode = "boot" /\ mode' \in {"command", "boot"}
        /\ ipv4' = ipv4 /\ macBuf' = macBuf /\ settings' = settings
    BY <1>2 DEF bootQueryCallback, Mode, stored
  <2>2. OpenQuestion = NoQuestion /\ OpenQuestion' = NoQuestion
    BY <2>1 DEF OpenQuestion
  <2> QED BY <2>1, <2>2 DEF Good, Abstract, Operator!absVars, QuestionInv, Modes
<1>3. CASE Mode = "net" /\ netQueryCallback(k)
  BY <1>3, AnswerIsGood, StayIsGood DEF netQueryCallback
<1>4. CASE Mode = "mac" /\ macQueryCallback(k)
  BY <1>4, AnswerIsGood, StayIsGood DEF macQueryCallback
<1> QED BY <1>1, <1>2, <1>3, <1>4 DEF handleLine

LEMMA ResetIsGood == ASSUME QuestionInv, resetFPGA PROVE Good /\ InputInv'
<1>1. mode' = "command" /\ settings' = settings /\ line' = <<>> /\ input' = NoInput
  BY DEF resetFPGA
<1>2. OpenQuestion' = NoQuestion
  BY <1>1 DEF OpenQuestion
<1>3. QuestionInv'
  BY <1>1 DEF QuestionInv, Modes
<1>4. InputInv'
  BY <1>1 DEF InputInv, NoInput
<1>5. CASE OpenQuestion = NoQuestion
  BY <1>1, <1>2, <1>3, <1>4, <1>5 DEF Good, Abstract, Operator!absVars
<1>6. CASE OpenQuestion # NoQuestion
  BY <1>1, <1>2, <1>3, <1>4, <1>6 DEF Good, Abstract, Operator!AbsNext, Operator!Forget
<1> QED BY <1>5, <1>6

----------------------------------------------------------------------------
(* The line that a key ends or edits.                                      *)
LEMMA WordIsProper == ASSUME InputInv PROVE Word(line) \in ProperKeys
<1>1. Key("none", NoAddress) \in ProperKeys
  BY DEF Key, ProperKeys, Proper, Keys, Words, Args
<1>2. CASE Len(line) = 1
  <2>1. line \in Seq(ProperKeys) /\ 1 \in 1 .. Len(line)
    BY <1>2 DEF InputInv
  <2>2. line[1] \in ProperKeys
    BY <2>1
  <2> QED BY <1>2, <2>2 DEF Word
<1> QED BY <1>1, <1>2 DEF Word

LEMMA EditKeepsLine ==
  ASSUME InputInv, NEW key \in ProperKeys, NEW o, NEW s, NEW t, Edit(key, o, s, t)
  PROVE  line' \in Seq(ProperKeys)
<1>1. line \in Seq(ProperKeys) /\ Append(line, key) \in Seq(ProperKeys)
  BY DEF InputInv
<1>2. line # <<>> => SubSeq(line, 1, Len(line) - 1) \in Seq(ProperKeys)
  BY <1>1
<1> QED BY <1>1, <1>2 DEF Edit, Erased, Extended

LEMMA ReadingIsGood ==
  ASSUME ConsoleInv, NEW key \in ProperKeys, NEW o, NEW unread, ReadKey(key, o, unread),
         unread \in [serial : Seq(ProperKeys), pbuf : Seq(ProperKeys)]
  PROVE  Good /\ InputInv'
<1> DEFINE s == eyescanStep(es)
           t == tlogStop(tl)
<1>1. CASE input' = unread /\ EndOfLine(o, s, t)
  <2>1. handleLine(Word(line)) /\ line' = <<>>
    BY <1>1 DEF EndOfLine
  <2>2. Good
    BY <2>1, WordIsProper, LineIsGood DEF ConsoleInv
  <2> QED BY <1>1, <2>1, <2>2 DEF InputInv
<1>2. CASE input' = unread /\ Edit(key, o, s, t)
  <2>1. Stay
    BY <1>2 DEF Edit
  <2>2. line' \in Seq(ProperKeys)
    BY <1>2, EditKeepsLine DEF ConsoleInv
  <2> QED BY <1>2, <2>1, <2>2, StayIsGood DEF ConsoleInv, InputInv
<1>3. CASE resetFPGA
  BY <1>3, ResetIsGood DEF ConsoleInv
<1> QED BY <1>1, <1>2, <1>3 DEF ReadKey

(* One step of the console.                                                *)
LEMMA CheckIsGood == ASSUME ConsoleInv, consoleCheck PROVE Good /\ InputInv'
<1>1. CASE Replay
  <2>1. UNCHANGED <<question, stored>> /\ UNCHANGED <<line, input>>
    BY <1>1 DEF Replay
  <2> QED BY <2>1, RestIsGood DEF ConsoleInv, InputInv
<1>2. CASE Scan
  <2>1. Stay /\ UNCHANGED <<line, input>>
    BY <1>2 DEF Scan
  <2> QED BY <2>1, StayIsGood DEF ConsoleInv, InputInv
<1>3. CASE Idle
  <2>1. Stay /\ UNCHANGED <<line, input>>
    BY <1>3 DEF Idle
  <2> QED BY <2>1, StayIsGood DEF ConsoleInv, InputInv
<1>4. CASE ReadSerial
  <2>1. Head(input.serial) \in ProperKeys
    BY <1>4 DEF ReadSerial, ConsoleInv, InputInv
  <2>2. <<>> \in Seq(ProperKeys)
    OBVIOUS
  <2>3. [input EXCEPT !.serial = <<>>] \in [serial : Seq(ProperKeys), pbuf : Seq(ProperKeys)]
    BY <2>2 DEF ConsoleInv, InputInv
  <2> QED BY <1>4, <2>1, <2>3, ReadingIsGood DEF ReadSerial
<1>5. CASE ReadDatagram
  <2>1. Head(input.pbuf) \in ProperKeys /\ Tail(input.pbuf) \in Seq(ProperKeys)
    BY <1>5 DEF ReadDatagram, ConsoleInv, InputInv
  <2>2. [input EXCEPT !.pbuf = RestOf(@)] \in [serial : Seq(ProperKeys), pbuf : Seq(ProperKeys)]
    BY <2>1 DEF ConsoleInv, InputInv, RestOf
  <2> QED BY <1>5, <2>1, <2>2, ReadingIsGood DEF ReadDatagram
<1> QED BY <1>1, <1>2, <1>3, <1>4, <1>5 DEF consoleCheck

(* A step with any proper input; those of the specification are such.      *)
ConsoleStep ==
  \/ \E client \in Clients, p \in Seq(ProperKeys) : console_callback(client, p)
  \/ \E key \in ProperKeys : Typed(key)
  \/ consoleCheck \/ OutputTime \/ Hardware \/ resetFPGA \/ UNCHANGED consoleVars

LEMMA NextIsStep == ASSUME ProperInput, [ConsoleNext]_consoleVars PROVE ConsoleStep
<1>1. ASSUME NEW client \in Clients, NEW p \in Datagrams, console_callback(client, p)
      PROVE  ConsoleStep
  <2>1. p \in Seq(ProperKeys)
    BY DEF ProperInput
  <2> QED BY <1>1, <2>1 DEF ConsoleStep
<1>2. ASSUME NEW key \in SerialKeys, Typed(key)
      PROVE  ConsoleStep
  <2>1. key \in ProperKeys
    BY DEF ProperInput
  <2> QED BY <1>2, <2>1 DEF ConsoleStep
<1> QED BY <1>1, <1>2 DEF ConsoleNext, ConsoleStep

LEMMA StepIsGood ==
  ASSUME ConsoleInv, ConsoleStep
  PROVE  Good /\ InputInv'
<1>1. ASSUME NEW client \in Clients, NEW p \in Seq(ProperKeys), console_callback(client, p)
      PROVE  Good /\ InputInv'
  <2>1. /\ UNCHANGED <<question, stored>> /\ line' = line
        /\ input' = [input EXCEPT !.pbuf = p]
    BY <1>1 DEF console_callback
  <2> QED BY <2>1, RestIsGood DEF ConsoleInv, InputInv
<1>2. ASSUME NEW key \in ProperKeys, Typed(key)
      PROVE  Good /\ InputInv'
  <2>1. <<key>> \in Seq(ProperKeys)
    OBVIOUS
  <2>2. /\ UNCHANGED <<question, stored>> /\ line' = line
        /\ input' = [input EXCEPT !.serial = <<key>>]
    BY <1>2 DEF Typed
  <2> QED BY <2>1, <2>2, RestIsGood DEF ConsoleInv, InputInv
<1>3. CASE OutputTime \/ Hardware \/ UNCHANGED consoleVars
  <2>1. UNCHANGED <<question, stored>> /\ UNCHANGED <<line, input>>
    BY <1>3 DEF OutputTime, Hardware, consoleVars, question, stored
  <2> QED BY <2>1, RestIsGood DEF ConsoleInv, InputInv
<1>4. CASE resetFPGA
  BY <1>4, ResetIsGood DEF ConsoleInv
<1> QED BY <1>1, <1>2, <1>3, <1>4, CheckIsGood DEF ConsoleStep

(* An address changes only when a question is answered with yes, to the    *)
(* address that the question showed, whoever types and at whatever port    *)
(* (netQueryCallback, macQueryCallback); ProperInput says only that the    *)
(* command that asks carries an address.                                   *)
THEOREM QuestionsAreHonoured ==
  ASSUME ProperInput PROVE ConsoleSpec => ChangedAsConfirmed
<1>1. ConsoleInv /\ [ConsoleNext]_consoleVars => ConsoleInv'
  BY NextIsStep, StepIsGood DEF ConsoleInv, Good
<1>2. ConsoleInv /\ [ConsoleNext]_consoleVars => [Operator!AbsNext]_(Operator!absVars)
  BY NextIsStep, StepIsGood DEF Good, Abstract
<1> QED BY <1>1, <1>2, Initial, PTL DEF ConsoleSpec, ChangedAsConfirmed, Operator!AbsSpec

----------------------------------------------------------------------------
(* Remainders: two numbers that are less than r apart are told apart.      *)
LEMMA Quotient ==
  ASSUME NEW a \in Int, NEW r \in Nat \ {0}
  PROVE  a = r * (a \div r) + (a % r) /\ a % r \in 0 .. r - 1 /\ a \div r \in Int
OBVIOUS

LEMMA Closer ==
  ASSUME NEW r \in Nat \ {0}, NEW a \in Int, NEW b \in Int, NEW d \in Int,
         a - b = r * d, a - b < r, b - a < r
  PROVE  a = b /\ d = 0
<1>1. CASE d >= 1
  <2>1. r * d >= r
    BY <1>1
  <2> QED BY <2>1
<1>2. CASE d <= -1
  <2>1. r * d <= -r
    BY <1>2
  <2> QED BY <2>1
<1>3. CASE d = 0
  BY <1>3
<1> QED BY <1>1, <1>2, <1>3

LEMMA SameRemainder ==
  ASSUME NEW r \in Nat \ {0}, NEW a \in Int, NEW b \in Int, a % r = b % r, a - b < r, b - a < r
  PROVE  a = b
<1>1. a = r * (a \div r) + (a % r) /\ a \div r \in Int /\ a % r \in Int
  BY Quotient
<1>2. b = r * (b \div r) + (b % r) /\ b \div r \in Int
  BY Quotient
<1>3. a - b = r * (a \div r) - r * (b \div r)
  BY <1>1, <1>2
<1>4. r * (a \div r) - r * (b \div r) = r * ((a \div r) - (b \div r))
  BY <1>1, <1>2
<1>5. (a \div r) - (b \div r) \in Int
  BY <1>1, <1>2
<1> QED BY <1>3, <1>4, <1>5, Closer

LEMMA RemainderIs ==
  ASSUME NEW r \in Nat \ {0}, NEW a \in Int, NEW d \in Int, NEW b \in 0 .. r - 1, a = r * d + b
  PROVE  a % r = b /\ a \div r = d
<1>1. a = r * (a \div r) + (a % r) /\ a \div r \in Int /\ a % r \in 0 .. r - 1
  BY Quotient
<1>2. (a % r) - b = r * (d - (a \div r)) /\ d - (a \div r) \in Int
  BY <1>1
<1>3. (a % r) = b /\ d - (a \div r) = 0
  BY <1>1, <1>2, Closer
<1> QED BY <1>1, <1>3

LEMMA Congruent ==
  ASSUME NEW r \in Nat \ {0}, NEW a \in Int, NEW b \in Int, NEW d \in Int, a = b + r * d
  PROVE  a % r = b % r
<1>1. b = r * (b \div r) + (b % r) /\ b \div r \in Int /\ b % r \in 0 .. r - 1
  BY Quotient
<1>2. a = r * ((b \div r) + d) + (b % r)
  BY <1>1
<1>3. (b \div r) + d \in Int
  BY <1>1
<1> QED BY <1>1, <1>2, <1>3, RemainderIs

LEMMA RemainderOfSum ==
  ASSUME NEW r \in Nat \ {0}, NEW a \in Int, NEW b \in Int
  PROVE  ((a % r) + b) % r = (a + b) % r /\ (b - (a % r)) % r = (b - a) % r
<1>1. a = (a % r) + r * (a \div r) /\ a \div r \in Int /\ a % r \in Int
  BY Quotient
<1>2. ASSUME NEW m \in Int, NEW d \in Int, a = m + r * d
      PROVE  (m + b) % r = (a + b) % r
  <2>1. a + b = (m + b) + r * d /\ a + b \in Int /\ m + b \in Int
    BY <1>2
  <2> QED BY <2>1, Congruent, Zenon
<1>3. ASSUME NEW m \in Int, NEW d \in Int, a = m + r * d
      PROVE  (b - m) % r = (b - a) % r
  <2>1. b - m = (b - a) + r * d /\ b - m \in Int /\ b - a \in Int
    BY <1>3
  <2> QED BY <2>1, Congruent, Zenon
<1> QED BY <1>1, <1>2, <1>3, Zenon

----------------------------------------------------------------------------
(* The event log.                                                          *)
LogType ==
  tl \in [enabled : BOOLEAN, active : BOOLEAN, rerun : BOOLEAN, written : Nat,
          rAddr : 0 .. RingSize - 1, printed : Nat, inOrder : BOOLEAN, behind : BOOLEAN]

(* The reader is less than a ring behind, at the entry of the event that   *)
(* is to be printed next.                                                  *)
InStep(t) ==
  /\ t.inOrder
  /\ t.active => /\ t.printed <= t.written /\ t.written - t.printed < RingSize
                 /\ t.rAddr = t.printed % RingSize
LogInv == LogType /\ (tl.behind \/ tl.rerun \/ InStep(tl))

LEMMA LogEventInv == ASSUME LogInv, LogEvent PROVE LogInv'
<1>1. tl' = [tl EXCEPT !.written = @ + 1,
                       !.behind = @ \/ tl.written + 1 - tl.printed >= RingSize]
  BY DEF LogEvent
<1>2. LogType'
  <2>1. tl.written + 1 \in Nat
    BY DEF LogInv, LogType
  <2>2. (tl.behind \/ tl.written + 1 - tl.printed >= RingSize) \in BOOLEAN
    BY DEF LogInv, LogType
  <2> QED BY <1>1, <2>1, <2>2 DEF LogInv, LogType
<1>3. tl.behind \/ tl.rerun \/ tl.written + 1 - tl.printed >= RingSize => (tl.behind \/ tl.rerun)'
  BY <1>1 DEF LogInv, LogType
<1>4. /\ tl'.inOrder = tl.inOrder /\ tl'.active = tl.active /\ tl'.printed = tl.printed
      /\ tl'.rAddr = tl.rAddr /\ tl'.written = tl.written + 1
  BY <1>1 DEF LogInv, LogType
<1>5. tl.written \in Nat /\ tl.printed \in Nat
  BY DEF LogInv, LogType
<1>6. InStep(tl) /\ ~(tl.written + 1 - tl.printed >= RingSize) => InStep(tl')
  BY <1>4, <1>5, RingAssumption DEF InStep
<1> QED BY <1>2, <1>3, <1>6 DEF LogInv

LEMMA StopInv == ASSUME LogInv, tl' = tlogStop(tl) PROVE LogInv'
BY DEF LogInv, LogType, InStep, tlogStop

(* A log that is started begins at the event and at the entry of number 0. *)
LEMMA StartInv == ASSUME LogInv, tl' = tlogStart(tlogStop(tl)) PROVE LogInv'
<1>1. PICK t : t = tlogStop(tl)
  OBVIOUS
<1>2. t \in [enabled : BOOLEAN, active : BOOLEAN, rerun : BOOLEAN, written : Nat,
             rAddr : 0 .. RingSize - 1, printed : Nat, inOrder : BOOLEAN, behind : BOOLEAN]
  BY <1>1 DEF tlogStop, LogInv, LogType
<1>3. tl' = tlogStart(t)
  BY <1>1
<1>4. 0 \in 0 .. RingSize - 1 /\ 0 % RingSize = 0
  BY RingAssumption, RemainderIs
<1>5. LogType'
  <2>1. t.enabled \in BOOLEAN /\ (IF t.enabled THEN t.written ELSE 0) \in Nat
    BY <1>2
  <2>2. 0 \in 0 .. RingSize - 1
    BY RingAssumption
  <2>3. PICK on \in BOOLEAN, w \in Nat : on = t.enabled /\ w = IF t.enabled THEN t.written ELSE 0
    BY <2>1
  <2>4. tl' = [t EXCEPT !.enabled = TRUE, !.active = TRUE, !.rerun = on, !.rAddr = 0,
                        !.printed = 0, !.written = w, !.inOrder = TRUE, !.behind = FALSE]
    BY <1>3, <2>3 DEF tlogStart
  <2>5. tl' = [enabled |-> TRUE, active |-> TRUE, rerun |-> on, written |-> w, rAddr |-> 0,
               printed |-> 0, inOrder |-> TRUE, behind |-> FALSE]
    BY <1>2, <2>4
  <2> QED BY <2>2, <2>3, <2>5 DEF LogType
<1>6. t.enabled => tl'.rerun
  BY <1>2, <1>3 DEF tlogStart
<1>7. ~t.enabled => /\ tl'.inOrder /\ tl'.written = 0 /\ tl'.printed = 0 /\ tl'.rAddr = 0
  BY <1>2, <1>3 DEF tlogStart
<1>8. ~t.enabled => InStep(tl)'
  BY <1>4, <1>7, RingAssumption DEF InStep
<1> QED BY <1>5, <1>6, <1>8 DEF LogInv

(* The reader prints what there is to print, in order.                     *)
LEMMA PrintedInOrder ==
  ASSUME LogType, InStep(tl), tl.active
  PROVE  /\ Unread(tl) = tl.written - tl.printed
         /\ \A i \in 0 .. Unread(tl) - 1 : InEntry(AddressOf(tl, i), tl.written) = tl.printed + i
         /\ (tl.rAddr + Unread(tl)) % RingSize = tl.written % RingSize
<1>1. /\ tl.written \in Nat /\ tl.printed \in Nat /\ tl.printed <= tl.written
      /\ tl.written - tl.printed < RingSize /\ tl.rAddr = tl.printed % RingSize
      /\ RingSize \in Nat \ {0}
  BY RingAssumption DEF LogType, InStep
<1>2. Unread(tl) = tl.written - tl.printed
  <2>1. (tl.written - (tl.printed % RingSize)) % RingSize = (tl.written - tl.printed) % RingSize
    <3>1. tl.written \in Int /\ tl.printed \in Int
      BY <1>1
    <3> QED BY <1>1, <3>1, RemainderOfSum, Zenon
  <2>2. (tl.written - tl.printed) % RingSize = tl.written - tl.printed
    BY <1>1
  <2> QED BY <1>1, <2>1, <2>2 DEF Unread
<1>3. ASSUME NEW i \in 0 .. Unread(tl) - 1
      PROVE  InEntry(AddressOf(tl, i), tl.written) = tl.printed + i
  <2> DEFINE n == tl.printed + i
  <2>1. /\ n \in tl.written - RingSize .. tl.written - 1 /\ i \in Nat /\ n \in Int
    BY <1>1, <1>2
  <2>2. ((tl.printed % RingSize) + i) % RingSize = (tl.printed + i) % RingSize
    <3>1. i \in Int /\ tl.printed \in Int
      BY <1>1, <2>1
    <3> QED BY <1>1, <3>1, RemainderOfSum, Zenon
  <2>6. AddressOf(tl, i) = n % RingSize
    BY <1>1, <2>2 DEF AddressOf
  <2>3. ASSUME NEW m \in tl.written - RingSize .. tl.written - 1, m % RingSize = n % RingSize
        PROVE  m = n
    <3>1. m - n < RingSize /\ n - m < RingSize /\ m \in Int
      BY <1>1, <2>1
    <3> HIDE DEF n
    <3> QED BY <1>1, <2>1, <2>3, <3>1, SameRemainder
  <2> HIDE DEF n
  <2>4. (CHOOSE m \in tl.written - RingSize .. tl.written - 1 : m % RingSize = n % RingSize) = n
    BY <2>1, <2>3
  <2>5. InEntry(AddressOf(tl, i), tl.written) = n
    BY <2>6, <2>4 DEF InEntry
  <2> QED BY <2>5 DEF n
<1>4. (tl.rAddr + Unread(tl)) % RingSize = tl.written % RingSize
  <2>1. ((tl.printed % RingSize) + (tl.written - tl.printed)) % RingSize
          = (tl.printed + (tl.written - tl.printed)) % RingSize
    <3>1. tl.written - tl.printed \in Int /\ tl.printed \in Int
      BY <1>1
    <3> QED BY <1>1, <3>1, RemainderOfSum, Zenon
  <2>2. tl.printed + (tl.written - tl.printed) = tl.written
    BY <1>1
  <2> QED BY <1>1, <1>2, <2>1, <2>2
<1> QED BY <1>2, <1>3, <1>4

LEMMA CrankInv == ASSUME LogInv, tl' \in tlogCrank(tl) PROVE LogInv'
<1>1. CASE tl' = tl
  BY <1>1 DEF LogInv, LogType, InStep
<1>2. CASE tl' = [tl EXCEPT !.active = FALSE]
  BY <1>2 DEF LogInv, LogType, InStep
<1>3. CASE tl.active /\ tl' = Printed(tl)
  <2>1. /\ Unread(tl) \in 0 .. RingSize - 1
        /\ (tl.rAddr + Unread(tl)) % RingSize \in 0 .. RingSize - 1
    <3>1. tl.written - tl.rAddr \in Int /\ tl.rAddr \in Int
      BY RingAssumption DEF LogInv, LogType
    <3>2. Unread(tl) \in 0 .. RingSize - 1
      BY <3>1, Quotient, RingAssumption DEF Unread
    <3>3. tl.rAddr + Unread(tl) \in Int
      BY <3>1, <3>2, RingAssumption
    <3> QED BY <3>2, <3>3, Quotient, RingAssumption
  <2>2. tl.printed + Unread(tl) \in Nat
    BY <2>1, RingAssumption DEF LogInv, LogType
  <2> DEFINE ok == tl.inOrder /\ \A i \in 0 .. Unread(tl) - 1 :
                                    InEntry(AddressOf(tl, i), tl.written) = tl.printed + i
             on == Unread(tl) < addrMask
  <2>3. ok \in BOOLEAN /\ on \in BOOLEAN
    BY DEF LogInv, LogType
  <2>4. tl' = [tl EXCEPT !.rAddr = (tl.rAddr + Unread(tl)) % RingSize,
                         !.printed = tl.printed + Unread(tl), !.inOrder = ok, !.active = on]
    BY <1>3 DEF Printed
  <2> HIDE DEF ok, on
  <2>5. LogType'
    BY <2>1, <2>2, <2>3, <2>4 DEF LogInv, LogType
  <2>6. /\ tl'.behind = tl.behind /\ tl'.rerun = tl.rerun /\ tl'.written = tl.written
        /\ tl'.rAddr = (tl.rAddr + Unread(tl)) % RingSize /\ tl'.printed = tl.printed + Unread(tl)
        /\ tl'.inOrder = ok
    BY <2>1, <2>2, <2>3, <2>4 DEF LogInv, LogType
  <2>7. ASSUME InStep(tl) PROVE InStep(tl)'
    <3>1. /\ Unread(tl) = tl.written - tl.printed /\ ok
          /\ (tl.rAddr + Unread(tl)) % RingSize = tl.written % RingSize
      BY <1>3, <2>7, PrintedInOrder DEF LogInv, InStep, ok
    <3>2. tl.printed + Unread(tl) = tl.written /\ tl.written \in Nat
      BY <3>1 DEF LogInv, LogType
    <3> QED BY <2>6, <3>1, <3>2, RingAssumption DEF InStep
  <2> QED BY <2>5, <2>6, <2>7 DEF LogInv
<1> QED BY <1>1, <1>2, <1>3 DEF tlogCrank
----------------------------------------------------------------------------
(* The eye scan.                                                           *)
Points == [h : Int, v : Int]
ScanRecords ==
  [active : BOOLEAN, acquiring : BOOLEAN, format : Formats \cup {"art"}, h : Int, v : Int,
   border : Nat, age : Nat, run : BOOLEAN, done : BOOLEAN, offset : Points, count : Points,
   shown : Seq([at : Points, of : Points])]
RowLength == 2 * HLast + 1
RasterSize == RowLength * (2 * VLast + 1)

(* What has been shown is in its place, and the scan is at the point after *)
(* it: the row after the last one is where the scan ends.                  *)
ShownInPlace(s) ==
  /\ Len(s.shown) <= RasterSize
  /\ \A k \in 1 .. Len(s.shown) : /\ s.shown[k].at = Raster[k]
                                  /\ s.shown[k].of = IF k = 1 THEN Centre ELSE Raster[k]
AtNextPoint(s) ==
  /\ s.h \in -HLast .. HLast /\ s.v \in -VLast - 1 .. VLast
  /\ s.v = -VLast - 1 => s.h = -HLast
  /\ Len(s.shown) = RowLength * (VLast - s.v) + (s.h + HLast)

(* The count at the centre is taken for that of the first point; every     *)
(* other point is counted anew.                                            *)
CountIsFresh(s) ==
  /\ s.shown = <<>> => s.run /\ s.done /\ s.count = Centre
  /\ s.shown # <<>> => IF s.acquiring THEN s.run /\ (s.done => s.count = s.offset) ELSE ~s.run
  /\ s.acquiring => s.v >= -VLast /\ s.offset = Point(s.h, s.v)
Sound(s) == /\ s \in ScanRecords /\ ShownInPlace(s)
            /\ s.active => AtNextPoint(s) /\ CountIsFresh(s)
ScanInv == Sound(es)

LEMMA RasterLength == Len(Raster) = RasterSize /\ RasterSize \in Nat /\ RowLength \in Nat \ {0}
<1>1. RowLength \in Nat \ {0} /\ RasterSize \in Nat
  BY ScanAssumption DEF RowLength, RasterSize
<1>2. Raster = [k \in 1 .. RasterSize |-> Raster[k]]
  BY DEF Raster, RasterSize, RowLength
<1>3. Raster \in Seq({Raster[k] : k \in 1 .. RasterSize}) /\ DOMAIN Raster = 1 .. RasterSize
  BY <1>1, <1>2
<1> QED BY <1>1, <1>3

(* A point of the raster is at the place that its row and column give.     *)
LEMMA PlaceInRaster ==
  ASSUME NEW h \in -HLast .. HLast, NEW v \in -VLast .. VLast, NEW n \in Int,
         n = RowLength * (VLast - v) + (h + HLast)
  PROVE  n + 1 \in 1 .. RasterSize /\ Raster[n + 1] = Point(h, v)
<1>1. RowLength \in Nat \ {0} /\ h + HLast \in 0 .. RowLength - 1 /\ VLast - v \in 0 .. 2 * VLast
  BY ScanAssumption DEF RowLength
<1>2. PICK d \in 0 .. 2 * VLast : d = VLast - v
  BY <1>1
<1>3. n + 1 \in 1 .. RasterSize
  <2>1. RowLength * d \in 0 .. RowLength * (2 * VLast)
    BY <1>1, ScanAssumption
  <2>2. RasterSize = RowLength * (2 * VLast) + RowLength
    BY <1>1, ScanAssumption DEF RasterSize
  <2>3. n = RowLength * d + (h + HLast)
    BY <1>2
  <2> QED BY <1>1, <2>1, <2>2, <2>3, ScanAssumption
<1>4. n % RowLength = h + HLast /\ n \div RowLength = d
  <2>1. n = RowLength * d + (h + HLast) /\ d \in Int
    BY <1>2, ScanAssumption
  <2> QED BY <1>1, <2>1, RemainderIs, Zenon
<1>6. Raster[n + 1] = Point((n % RowLength) - HLast, VLast - (n \div RowLength))
  <2>1. (n + 1) - 1 = n
    OBVIOUS
  <2> QED BY <1>3, <2>1 DEF Raster, RasterSize, RowLength
<1> QED BY <1>2, <1>3, <1>4, <1>6, ScanAssumption

(* What is on the display and what is printed of a border do not matter.   *)
LEMMA BorderSound ==
  ASSUME NEW s, Sound(s), NEW n \in Nat PROVE Sound([s EXCEPT !.border = n])
BY DEF Sound, ScanRecords, ShownInPlace, AtNextPoint, CountIsFresh

LEMMA FormatSound ==
  ASSUME NEW s, Sound(s), NEW f \in Formats PROVE Sound([s EXCEPT !.format = f])
BY DEF Sound, ScanRecords, ShownInPlace, AtNextPoint, CountIsFresh

LEMMA CrankSound == ASSUME NEW s, Sound(s) PROVE Sound(xBorderCrank(s))
<1>1. s.border \in Nat /\ (s.border # 0 => s.border - 1 \in Nat)
  BY DEF Sound, ScanRecords
<1> QED BY <1>1, BorderSound DEF xBorderCrank

LEMMA StartBorderSound == ASSUME NEW s, Sound(s) PROVE Sound(xBorderStart(s))
BY BorderSound, ScanAssumption DEF xBorderStart

(* The step that shows a count.                                            *)
LEMMA ShowingSound ==
  ASSUME NEW s, Sound(s), s.active, s.acquiring, s.done
  PROVE  Sound(drp_clr(Shown([s EXCEPT !.acquiring = FALSE])))
<1> DEFINE e == [at |-> Point(s.h, s.v), of |-> s.count]
           o == [s EXCEPT !.acquiring = FALSE]
           p == [o EXCEPT !.shown = Append(@, e)]
           q == NextPoint(p)
           r == drp_clr(q)
           more == Append(s.shown, e)
<1>1. /\ s \in ScanRecords /\ s.shown \in Seq([at : Points, of : Points])
      /\ s.h \in -HLast .. HLast /\ s.v \in -VLast .. VLast
      /\ Len(s.shown) = RowLength * (VLast - s.v) + (s.h + HLast)
      /\ s.offset = Point(s.h, s.v)
  BY ScanAssumption DEF Sound, AtNextPoint, CountIsFresh, ScanRecords
<1>2. e \in [at : Points, of : Points]
  BY <1>1, ScanAssumption DEF Point, Points, ScanRecords
<1>3. /\ more \in Seq([at : Points, of : Points]) /\ Len(more) = Len(s.shown) + 1
      /\ more[Len(s.shown) + 1] = e
      /\ \A k \in 1 .. Len(s.shown) : more[k] = s.shown[k]
  <2> HIDE DEF e
  <2> QED BY <1>1, <1>2
<1>4. p \in ScanRecords /\ p = [s EXCEPT !.acquiring = FALSE, !.shown = more]
  <2> HIDE DEF e
  <2> QED BY <1>1, <1>3 DEF ScanRecords
<1>5. /\ q \in ScanRecords /\ q.shown = more /\ q.active /\ ~q.acquiring
      /\ IF s.h < HLast THEN q.h = s.h + 1 /\ q.v = s.v ELSE q.h = -HLast /\ q.v = s.v - 1
  <2> HIDE DEF p
  <2>1. p.h = s.h /\ p.v = s.v /\ p.shown = more /\ p.active /\ ~p.acquiring
    BY <1>1, <1>3, <1>4 DEF ScanRecords
  <2>2. s.h + 1 \in Int /\ -HLast \in Int /\ s.v - 1 \in Int
    BY <1>1, ScanAssumption
  <2> QED BY <1>4, <2>1, <2>2, ZenonT(30) DEF NextPoint, ScanRecords
<1>6. /\ r \in ScanRecords /\ r.shown = more /\ r.h = q.h /\ r.v = q.v
      /\ ~r.acquiring /\ ~r.run
  <2> HIDE DEF q
  <2> QED BY <1>5 DEF drp_clr, ScanRecords
<1>7. /\ Len(s.shown) \in Int /\ Len(s.shown) + 1 \in 1 .. RasterSize
      /\ Raster[Len(s.shown) + 1] = Point(s.h, s.v)
  BY <1>1, PlaceInRaster
<1>8. s.count = IF Len(s.shown) + 1 = 1 THEN Centre ELSE Point(s.h, s.v)
  <2>1. CASE s.shown = <<>>
    BY <2>1, <1>1 DEF Sound, CountIsFresh
  <2>2. CASE s.shown # <<>>
    <3>1. Len(s.shown) # 0
      BY <1>1, <2>2
    <3> QED BY <1>1, <1>7, <2>2, <3>1 DEF Sound, CountIsFresh
  <2> QED BY <2>1, <2>2
<1>9. ShownInPlace(r)
  <2>1. Len(r.shown) = Len(s.shown) + 1 /\ Len(r.shown) <= RasterSize
    BY <1>3, <1>6, <1>7, RasterLength
  <2>2. ASSUME NEW k \in 1 .. Len(r.shown)
        PROVE  /\ r.shown[k].at = Raster[k]
               /\ r.shown[k].of = IF k = 1 THEN Centre ELSE Raster[k]
    <3>1. CASE k \in 1 .. Len(s.shown)
      BY <1>3, <1>6, <3>1 DEF Sound, ShownInPlace
    <3>2. CASE k = Len(s.shown) + 1
      <4>1. r.shown[k] = e /\ Raster[k] = Point(s.h, s.v)
        BY <1>3, <1>6, <1>7, <3>2
      <4>2. e.at = Point(s.h, s.v) /\ e.of = s.count
        OBVIOUS
      <4> HIDE DEF e
      <4> QED BY <1>8, <3>2, <4>1, <4>2
    <3> QED BY <1>7, <2>1, <2>2, <3>1, <3>2
  <2> QED BY <2>1, <2>2 DEF ShownInPlace
<1>10. AtNextPoint(r)
  <2> HIDE DEF q, r
  <2>1. Len(r.shown) = RowLength * (VLast - s.v) + (s.h + HLast) + 1
    BY <1>1, <1>3, <1>6
  <2>2. CASE s.h < HLast
    <3>1. r.h = s.h + 1 /\ r.v = s.v
      BY <1>5, <1>6, <2>2
    <3>2. r.h + HLast = s.h + HLast + 1 /\ r.h \in -HLast .. HLast /\ r.v \in -VLast .. VLast
      BY <1>1, <2>2, <3>1, ScanAssumption
    <3>3. RowLength * (VLast - r.v) \in Int /\ RowLength * (VLast - r.v) = RowLength * (VLast - s.v)
      BY <3>1, <3>2, ScanAssumption, RasterLength
    <3>4. Len(r.shown) = RowLength * (VLast - r.v) + (r.h + HLast)
      BY <1>1, <2>1, <3>2, <3>3, ScanAssumption
    <3> QED BY <3>2, <3>4, ScanAssumption DEF AtNextPoint
  <2>3. CASE ~(s.h < HLast)
    <3>1. r.h = -HLast /\ r.v = s.v - 1 /\ s.h = HLast
      BY <1>1, <1>5, <1>6, <2>3, ScanAssumption
    <3>2. \A x \in Int : RowLength * x + RowLength = RowLength * (x + 1)
      BY RasterLength
    <3>3. VLast - s.v \in Int /\ VLast - r.v = (VLast - s.v) + 1
      BY <1>1, <3>1, ScanAssumption
    <3>4. RowLength * (VLast - r.v) = RowLength * (VLast - s.v) + RowLength
      BY <3>2, <3>3
    <3>5. s.h + HLast + 1 = RowLength /\ RowLength * (VLast - s.v) \in Int
      BY <3>1, <3>3, ScanAssumption DEF RowLength
    <3>6. Len(r.shown) = RowLength * (VLast - r.v) + (r.h + HLast)
      BY <2>1, <3>1, <3>4, <3>5, ScanAssumption, RasterLength
    <3>7. /\ r.h \in -HLast .. HLast /\ r.h = -HLast /\ r.v \in -VLast - 1 .. VLast
      BY <1>1, <3>1, ScanAssumption
    <3> QED BY <3>6, <3>7 DEF AtNextPoint
  <2> QED BY <2>2, <2>3
<1>11. CountIsFresh(r)
  <2>1. r.shown # <<>>
    BY <1>1, <1>3, <1>6
  <2> QED BY <1>6, <2>1 DEF CountIsFresh
<1>12. r = drp_clr(Shown(o))
  BY DEF Shown
<1> QED BY <1>6, <1>9, <1>10, <1>11, <1>12 DEF Sound

(* A crank of the scan.                                                    *)
LEMMA AcquiringSound ==
  ASSUME NEW s, Sound(s), s.active, s.acquiring PROVE Sound(Acquiring(s))
<1>1. CASE s.done
  BY <1>1, ShowingSound DEF Acquiring
<1>2. CASE ~s.done /\ TimedOut(s)
  BY <1>2 DEF Acquiring, drp_clr, Sound, ScanRecords, ShownInPlace
<1>3. CASE ~s.done /\ ~TimedOut(s)
  BY <1>3 DEF Acquiring
<1> QED BY <1>1, <1>2, <1>3

LEMMA AcquireSound ==
  ASSUME NEW s, Sound(s), s.active, ~s.acquiring PROVE Sound(Acquire(s))
<1>1. CASE s.v < -VLast
  <2>1. Sound([s EXCEPT !.active = FALSE])
    BY DEF Sound, ScanRecords, ShownInPlace
  <2> QED BY <1>1, <2>1, StartBorderSound DEF Acquire
<1>2. CASE ~(s.v < -VLast)
  <2> DEFINE p == drp_rmw(s, Point(s.h, s.v))
             q == drp_set(p)
             r == [q EXCEPT !.acquiring = TRUE, !.age = 0]
  <2>1. s \in ScanRecords /\ s.v \in Int /\ AtNextPoint(s) /\ CountIsFresh(s) /\ ShownInPlace(s)
    BY DEF Sound, ScanRecords
  <2>2. Point(s.h, s.v) \in Points
    BY <2>1 DEF Point, Points, ScanRecords
  <2>3. /\ p \in ScanRecords /\ p.offset = Point(s.h, s.v) /\ p.run = s.run /\ p.done = s.done
        /\ p.shown = s.shown /\ p.h = s.h /\ p.v = s.v /\ p.count = s.count /\ p.active
    BY <2>1, <2>2 DEF drp_rmw, ScanRecords
  <2>4. /\ q \in ScanRecords /\ q.offset = Point(s.h, s.v) /\ q.run
        /\ q.done = (s.run /\ s.done)
        /\ q.shown = s.shown /\ q.h = s.h /\ q.v = s.v /\ q.count = s.count /\ q.active
    <3> HIDE DEF p
    <3>1. CASE p.run
      BY <2>3, <3>1 DEF drp_set, ScanRecords
    <3>2. CASE ~p.run
      BY <2>3, <3>2 DEF drp_set, ScanRecords
    <3> QED BY <3>1, <3>2
  <2>5. /\ r \in ScanRecords /\ r.offset = Point(s.h, s.v) /\ r.run /\ r.acquiring
        /\ r.done = (s.run /\ s.done)
        /\ r.shown = s.shown /\ r.h = s.h /\ r.v = s.v /\ r.count = s.count /\ r.active
    <3> HIDE DEF q
    <3> QED BY <2>4 DEF ScanRecords
  <2> HIDE DEF p, q, r
  <2>6. ShownInPlace(r) /\ AtNextPoint(r)
    BY <2>1, <2>5 DEF ShownInPlace, AtNextPoint
  <2>7. r.v >= -VLast
    BY <1>2, <2>1, <2>5, ScanAssumption
  <2>8. CountIsFresh(r)
    BY <2>1, <2>5, <2>7 DEF CountIsFresh
  <2>9. Acquire(s) = r
    BY <1>2 DEF Acquire, p, q, r
  <2> QED BY <2>5, <2>6, <2>8, <2>9 DEF Sound
<1> QED BY <1>1, <1>2

LEMMA StepSound == ASSUME NEW s, Sound(s) PROVE Sound(eyescanStep(s))
<1> DEFINE b == xBorderCrank(s)
<1>1. Sound(b)
  BY CrankSound
<1>2. b.active = s.active /\ b.acquiring = s.acquiring
  BY DEF xBorderCrank, Sound, ScanRecords
<1> HIDE DEF b
<1>3. s.active /\ b.acquiring => Sound(Acquiring(b))
  BY <1>1, <1>2, AcquiringSound
<1>4. s.active /\ ~b.acquiring => Sound(Acquire(b))
  BY <1>1, <1>2, AcquireSound
<1> QED BY <1>1, <1>3, <1>4 DEF eyescanStep, b

(* A command that begins a scan finds none: what is shown is not in use.   *)
LEMMA CommandSound ==
  ASSUME NEW s, Sound(s), ~s.active, NEW c \in eyescanCommand(s) PROVE Sound(c)
<1>1. PICK form \in Formats :
        c \in {eyescanStart(Synchronized([s EXCEPT !.format = form]))}
              \cup NotSynchronized([s EXCEPT !.format = form])
  BY DEF eyescanCommand
<1>2. PICK f : f = [s EXCEPT !.format = form]
  OBVIOUS
<1>3. Sound(f) /\ ~f.active /\ f \in ScanRecords
  BY <1>2, FormatSound DEF Sound, ScanRecords
<1>4. Centre \in Points /\ Point(-HLast, 0) \in Points
  BY ScanAssumption DEF Centre, Point, Points
<1> DEFINE p == Running(f)
<1>5. p \in ScanRecords /\ ~p.active /\ p.shown = f.shown /\ p.run
  BY <1>3, <1>4 DEF Running, drp_set, drp_rmw, ScanRecords
<1> HIDE DEF p
<1>6. CASE c = drp_clr(p)
  <2>1. c \in ScanRecords /\ ~c.active /\ c.shown = f.shown
    BY <1>5, <1>6 DEF drp_clr, ScanRecords
  <2> QED BY <1>3, <2>1 DEF Sound, ShownInPlace
<1>7. CASE c = [p EXCEPT !.offset = Point(-HLast, 0)]
  <2>1. c \in ScanRecords /\ ~c.active /\ c.shown = f.shown
    BY <1>4, <1>5, <1>7 DEF ScanRecords
  <2> QED BY <1>3, <2>1 DEF Sound, ShownInPlace
<1>8. CASE c = eyescanStart(Synchronized(f))
  <2> DEFINE y == [p EXCEPT !.done = TRUE, !.count = Centre]
             z == [y EXCEPT !.acquiring = FALSE, !.active = TRUE,
                            !.h = -HLast, !.v = VLast, !.shown = <<>>]
  <2>1. y \in ScanRecords /\ y.run /\ y.done /\ y.count = Centre
    BY <1>4, <1>5 DEF ScanRecords
  <2> HIDE DEF y
  <2>2. -HLast \in Int /\ VLast \in Int /\ <<>> \in Seq([at : Points, of : Points])
    BY ScanAssumption
  <2>3. /\ z \in ScanRecords /\ z.run /\ z.done /\ z.count = Centre /\ ~z.acquiring
        /\ z.shown = <<>> /\ z.h = -HLast /\ z.v = VLast
    BY <2>1, <2>2 DEF ScanRecords
  <2> HIDE DEF z
  <2>4. ShownInPlace(z)
    BY <2>3, RasterLength DEF ShownInPlace
  <2>5. AtNextPoint(z)
    <3>1. RowLength * (VLast - VLast) = 0
      BY ScanAssumption, RasterLength
    <3> QED BY <2>3, <3>1, ScanAssumption DEF AtNextPoint
  <2>6. Sound(z)
    BY <2>3, <2>4, <2>5 DEF Sound, CountIsFresh
  <2>7. c = xBorderStart(z)
    BY <1>8 DEF eyescanStart, Synchronized, p, y, z
  <2> QED BY <2>6, <2>7, StartBorderSound
<1>9. c = eyescanStart(Synchronized(f)) \/ c = drp_clr(Running(f))
        \/ c = [Running(f) EXCEPT !.offset = Point(-HLast, 0)]
  BY <1>1, <1>2 DEF NotSynchronized
<1> QED BY <1>6, <1>7, <1>8, <1>9 DEF p

LEMMA ScanEnvironmentInv == ASSUME ScanInv, ScanEnvironment PROVE ScanInv'
<1>1. CASE CountingDone
  <2>1. /\ es.run /\ ~es.done /\ es' = [es EXCEPT !.done = TRUE, !.count = es.offset]
        /\ es \in ScanRecords
    BY <1>1 DEF CountingDone, ScanInv, Sound
  <2>2. /\ es' \in ScanRecords /\ es'.done /\ es'.count = es.offset /\ es'.offset = es.offset
        /\ es'.run = es.run /\ es'.active = es.active /\ es'.acquiring = es.acquiring
        /\ es'.shown = es.shown /\ es'.h = es.h /\ es'.v = es.v
    BY <2>1 DEF ScanRecords
  <2> QED BY <2>1, <2>2 DEF ScanInv, Sound, ShownInPlace, AtNextPoint, CountIsFresh
<1>2. CASE ScanTime
  BY <1>2 DEF ScanTime, ScanInv, Sound, ScanRecords, ShownInPlace, AtNextPoint, CountIsFresh
<1> QED BY <1>1, <1>2 DEF ScanEnvironment

LEMMA ScanAtBootSound == Sound(ScanAtBoot)
<1>1. ScanAtBoot \in ScanRecords
  BY DEF ScanAtBoot, ScanRecords, Centre, Point, Points
<1>2. ScanAtBoot.shown = <<>> /\ ~ScanAtBoot.active
  BY DEF ScanAtBoot
<1> QED BY <1>1, <1>2, RasterLength DEF Sound, ShownInPlace
----------------------------------------------------------------------------
(* What a step of the console does to the event log and to the scan.       *)
LEMMA ReadingTheRest ==
  ASSUME NEW key, NEW o, NEW unread, ReadKey(key, o, unread)
  PROVE  /\ tl' \in {tlogStop(tl), tlogStart(tlogStop(tl)), LogAtBoot}
         /\ es' \in eyescanCommand(eyescanStep(es)) \cup {eyescanStep(es), ScanAtBoot}
<1>1. CASE EndOfLine(o, eyescanStep(es), tlogStop(tl))
  BY <1>1 DEF EndOfLine, LogAfter, ScansAfter
<1>2. CASE Edit(key, o, eyescanStep(es), tlogStop(tl))
  BY <1>2 DEF Edit
<1>3. CASE resetFPGA
  BY <1>3 DEF resetFPGA
<1> QED BY <1>1, <1>2, <1>3 DEF ReadKey

LEMMA LogSteps ==
  ASSUME [ConsoleNext]_consoleVars
  PROVE  \/ tl' = tl \/ LogEvent \/ tl' \in tlogCrank(tl)
         \/ tl' \in {tlogStop(tl), tlogStart(tlogStop(tl)), LogAtBoot}
<1>1. CASE consoleCheck
  BY <1>1, ReadingTheRest DEF consoleCheck, Replay, Scan, ReadSerial, ReadDatagram, Idle
<1>2. CASE Hardware
  BY <1>2 DEF Hardware
<1>3. CASE ~consoleCheck /\ ~Hardware
  BY <1>3 DEF ConsoleNext, consoleVars, console_callback, Typed, OutputTime, resetFPGA
<1> QED BY <1>1, <1>2, <1>3

LEMMA ScanSteps ==
  ASSUME [ConsoleNext]_consoleVars
  PROVE  \/ es' = es \/ ScanEnvironment \/ es' = eyescanStep(es) \/ es' = ScanAtBoot
         \/ ~eyescanStep(es).active /\ es' \in eyescanCommand(eyescanStep(es))
<1>1. CASE consoleCheck
  <2>1. ~Busy(es) => ~eyescanStep(es).active
    BY DEF Busy
  <2> QED BY <1>1, <2>1, ReadingTheRest
          DEF consoleCheck, Replay, Scan, ReadSerial, ReadDatagram, Idle
<1>2. CASE Hardware
  BY <1>2 DEF Hardware
<1>3. CASE ~consoleCheck /\ ~Hardware
  BY <1>3 DEF ConsoleNext, consoleVars, console_callback, Typed, OutputTime, resetFPGA
<1> QED BY <1>1, <1>2, <1>3

LEMMA LogAtBootInv ==
  /\ LogAtBoot \in [enabled : BOOLEAN, active : BOOLEAN, rerun : BOOLEAN, written : Nat,
          rAddr : 0 .. RingSize - 1, printed : Nat, inOrder : BOOLEAN, behind : BOOLEAN]
  /\ InStep(LogAtBoot)
BY RingAssumption DEF LogAtBoot, InStep

(* Every event is printed once and in the order it came, unless the reader *)
(* falls a whole ring behind or the log is started again after it was left *)
(* off (cmdTLOG): for a ring of any size and any number of events.         *)
THEOREM LogInOrder == ConsoleSpec => []EventsInOrder
<1>1. ConsoleInit => LogInv
  BY LogAtBootInv DEF ConsoleInit, LogInv, LogType
<1>2. LogInv /\ [ConsoleNext]_consoleVars => LogInv'
  <2> SUFFICES ASSUME LogInv, [ConsoleNext]_consoleVars PROVE LogInv'
    OBVIOUS
  <2>1. CASE tl' = tl
    BY <2>1 DEF LogInv, LogType, InStep
  <2>2. CASE LogEvent
    BY <2>2, LogEventInv
  <2>3. CASE tl' \in tlogCrank(tl)
    BY <2>3, CrankInv
  <2>4. CASE tl' = tlogStop(tl)
    BY <2>4, StopInv
  <2>5. CASE tl' = tlogStart(tlogStop(tl))
    BY <2>5, StartInv
  <2>6. CASE tl' = LogAtBoot
    BY <2>6, LogAtBootInv DEF LogInv, LogType, InStep
  <2> QED BY <2>1, <2>2, <2>3, <2>4, <2>5, <2>6, LogSteps
<1>3. LogInv => EventsInOrder
  BY DEF LogInv, InStep, EventsInOrder
<1> QED BY <1>1, <1>2, <1>3, PTL DEF ConsoleSpec

(* What an eye scan has shown are the points of the raster in order, each  *)
(* with a count that was taken there (eyescanCrank): for a raster of any   *)
(* size, whatever is typed and however long a count takes.                 *)
THEOREM ScanShowsItsCounts == ConsoleSpec => []CountedWhereShown
<1>1. ConsoleInit => ScanInv
  BY ScanAtBootSound DEF ConsoleInit, ScanInv
<1>2. ScanInv /\ [ConsoleNext]_consoleVars => ScanInv'
  <2> SUFFICES ASSUME ScanInv, [ConsoleNext]_consoleVars PROVE ScanInv'
    OBVIOUS
  <2>1. Sound(es) /\ Sound(eyescanStep(es))
    BY StepSound DEF ScanInv
  <2>2. CASE es' = es
    BY <2>1, <2>2 DEF ScanInv
  <2>3. CASE ScanEnvironment
    BY <2>3, ScanEnvironmentInv
  <2>4. CASE es' = eyescanStep(es) \/ es' = ScanAtBoot
    BY <2>1, <2>4, ScanAtBootSound DEF ScanInv
  <2>5. CASE ~eyescanStep(es).active /\ es' \in eyescanCommand(eyescanStep(es))
    BY <2>1, <2>5, CommandSound DEF ScanInv
  <2> QED BY <2>2, <2>3, <2>4, <2>5, ScanSteps
<1>3. ScanInv => CountedWhereShown
  <2>1. ASSUME ScanInv PROVE DOMAIN es.shown = 1 .. Len(es.shown)
    BY <2>1 DEF ScanInv, Sound, ScanRecords
  <2> QED BY <2>1, RasterLength DEF ScanInv, Sound, ShownInPlace, CountedWhereShown
<1> QED BY <1>1, <1>2, <1>3, PTL DEF ConsoleSpec

----------------------------------------------------------------------------
(* The buffers.  The line and the output stay within theirs, and what a    *)
(* question may be about is an address.                                    *)
OutputRecords ==
  [n : 0 .. ObufSize - 1, age : Nat, to : Clients \cup {NoClient}, startup : BOOLEAN,
   logged : 0 .. StartSize, replayed : Nat]
AddressesKept == {ipv4, macBuf} \subseteq Addresses \cup {NoAddress}
BufferInv == out \in OutputRecords /\ Len(line) <= MaxLine /\ AddressesKept

LEMMA DrainInBuffer == ASSUME NEW o \in OutputRecords PROVE Drain(o) \in OutputRecords
<1>1. 0 \in 0 .. ObufSize - 1
  BY ConsoleAssumption
<1> QED BY <1>1 DEF Drain, OutputRecords

LEMMA outbyteInBuffer == ASSUME NEW o \in OutputRecords PROVE outbyte(o) \in OutputRecords
<1>1. Recorded(o) \in OutputRecords
  <2>1. o.logged \in Int /\ (o.logged < StartSize => o.logged + 1 \in 0 .. StartSize)
    BY ConsoleAssumption DEF OutputRecords
  <2> QED BY <2>1 DEF Recorded, OutputRecords
<1>2. ASSUME NEW r \in OutputRecords PROVE Buffered(r) \in OutputRecords
  <2> DEFINE age == IF r.n = 0 THEN 0 ELSE r.age
             more == [r EXCEPT !.n = r.n + 1, !.age = age]
  <2>1. r.n + 1 \in 0 .. ObufSize /\ age \in Nat
    BY ConsoleAssumption DEF OutputRecords
  <2>5. 0 \in 0 .. ObufSize - 1 /\ (r.n + 1 < ObufSize => r.n + 1 \in 0 .. ObufSize - 1)
    BY <2>1, ConsoleAssumption
  <2> HIDE DEF age
  <2>2. more.n = r.n + 1 /\ [more EXCEPT !.n = 0] \in OutputRecords
    BY <2>1, <2>5 DEF OutputRecords
  <2>3. r.n + 1 < ObufSize => more \in OutputRecords
    BY <2>1, <2>5 DEF OutputRecords
  <2>4. Buffered(r) \in {r, [more EXCEPT !.n = 0], more}
        /\ (Buffered(r) = more => r.n + 1 < ObufSize \/ more = [more EXCEPT !.n = 0]
                                  \/ Buffered(r) = r)
    BY <2>1, <2>2, ConsoleAssumption DEF Buffered, Drain, age
  <2> HIDE DEF more
  <2> QED BY <2>2, <2>3, <2>4
<1> QED BY <1>1, <1>2 DEF outbyte

LEMMA CurrentInBuffer ==
  ASSUME out \in OutputRecords
  PROVE  /\ DrainIfOld(out) \in OutputRecords /\ Current \in OutputRecords
         /\ [Current EXCEPT !.to = NoClient] \in OutputRecords
<1>1. DrainIfOld(out) \in OutputRecords
  BY DrainInBuffer DEF DrainIfOld
<1>2. Current \in OutputRecords
  BY <1>1 DEF Current, Replayed, OutputRecords
<1> QED BY <1>1, <1>2 DEF OutputRecords

LEMMA AddressesStay == ASSUME AddressesKept, Stay PROVE AddressesKept'
BY DEF Stay, AddressesKept

LEMMA HandledAddresses ==
  ASSUME AddressesKept, NEW k \in ProperKeys, handleLine(k) PROVE AddressesKept'
<1>1. CASE cmdNET(k) /\ k.word \in {"net", "netBad"}
  <2>1. k.arg \in Addresses /\ ipv4' = k.arg /\ macBuf' = macBuf
    BY <1>1 DEF cmdNET, ProperKeys, Proper
  <2> QED BY <2>1 DEF AddressesKept
<1>2. CASE cmdMAC(k) /\ k.word \in {"mac", "macBad"}
  <2>1. k.arg \in Addresses /\ macBuf' = k.arg /\ ipv4' = ipv4
    BY <1>2 DEF cmdMAC, ProperKeys, Proper
  <2> QED BY <2>1 DEF AddressesKept
<1>3. CASE UNCHANGED <<ipv4, macBuf>>
  BY <1>3 DEF AddressesKept
<1> QED BY <1>1, <1>2, <1>3
        DEF handleLine, commandCallback, cmdUMGT, cmdBOOTorLOG, Stay, Answered,
            bootQueryCallback, netQueryCallback, macQueryCallback

LEMMA ResetBuffers == ASSUME resetFPGA PROVE BufferInv'
<1>1. 0 \in 0 .. ObufSize - 1 /\ 1 \in 0 .. StartSize
  BY ConsoleAssumption
<1>2. out' \in OutputRecords
  BY <1>1 DEF resetFPGA, OutAtBoot, OutputRecords
<1> QED BY <1>2, ConsoleAssumption DEF resetFPGA, BufferInv, AddressesKept

LEMMA ReadingInBuffer ==
  ASSUME ConsoleInv, BufferInv, NEW key \in ProperKeys, NEW o \in OutputRecords, NEW unread,
         ReadKey(key, o, unread)
  PROVE  BufferInv'
<1> DEFINE s == eyescanStep(es)
           t == tlogStop(tl)
<1>1. CASE EndOfLine(o, s, t)
  <2>1. [o EXCEPT !.startup = FALSE] \in OutputRecords
    BY DEF OutputRecords
  <2>2. out' \in OutputRecords
    BY <1>1, <2>1, outbyteInBuffer DEF EndOfLine
  <2>3. AddressesKept'
    BY <1>1, WordIsProper, HandledAddresses DEF EndOfLine, BufferInv, ConsoleInv
  <2> QED BY <1>1, <2>2, <2>3, ConsoleAssumption DEF EndOfLine, BufferInv
<1>2. CASE Edit(key, o, s, t)
  <2>1. out' \in OutputRecords
    BY <1>2, outbyteInBuffer DEF Edit
  <2>2. AddressesKept'
    BY <1>2, AddressesStay DEF Edit, BufferInv
  <2>3. line \in Seq(ProperKeys) /\ Len(line) <= MaxLine /\ Len(line) \in Nat
    BY DEF BufferInv, ConsoleInv, InputInv
  <2>4. Len(Erased(line)) <= MaxLine
    BY <2>3, ConsoleAssumption DEF Erased
  <2>5. Len(Extended(line, key)) <= MaxLine
    BY <2>3, ConsoleAssumption DEF Extended
  <2> QED BY <1>2, <2>1, <2>2, <2>4, <2>5 DEF Edit, BufferInv
<1>3. CASE resetFPGA
  BY <1>3, ResetBuffers
<1> QED BY <1>1, <1>2, <1>3 DEF ReadKey

LEMMA CheckInBuffer == ASSUME ConsoleInv, BufferInv, consoleCheck PROVE BufferInv'
<1>1. out \in OutputRecords
  BY DEF BufferInv
<1>2. CASE Replay
  <2>1. outbyte(DrainIfOld(out)) \in OutputRecords
    BY <1>1, CurrentInBuffer, outbyteInBuffer
  <2>2. out' \in OutputRecords
    BY <1>2, <2>1 DEF Replay, OutputRecords
  <2> QED BY <1>2, <2>2 DEF Replay, question, BufferInv, AddressesKept
<1>3. CASE Scan \/ Idle
  <2>1. out' \in OutputRecords
    BY <1>1, <1>3, CurrentInBuffer, outbyteInBuffer DEF Scan, Idle
  <2>2. AddressesKept' /\ line' = line
    BY <1>3, AddressesStay DEF Scan, Idle, BufferInv
  <2> QED BY <2>1, <2>2 DEF BufferInv
<1>4. CASE ReadSerial
  <2>1. Head(input.serial) \in ProperKeys
    BY <1>4 DEF ReadSerial, ConsoleInv, InputInv
  <2> QED BY <1>1, <1>4, <2>1, CurrentInBuffer, ReadingInBuffer DEF ReadSerial
<1>5. CASE ReadDatagram
  <2>1. Head(input.pbuf) \in ProperKeys
    BY <1>5 DEF ReadDatagram, ConsoleInv, InputInv
  <2> QED BY <1>1, <1>5, <2>1, CurrentInBuffer, ReadingInBuffer DEF ReadDatagram
<1> QED BY <1>2, <1>3, <1>4, <1>5 DEF consoleCheck

LEMMA InitialBuffers == ASSUME ConsoleInit PROVE ConsoleInv /\ BufferInv
<1>1. 0 \in 0 .. ObufSize - 1 /\ 1 \in 0 .. StartSize
  BY ConsoleAssumption
<1> QED BY <1>1, Initial, ConsoleAssumption
        DEF ConsoleInit, OutAtBoot, OutputRecords, BufferInv, AddressesKept

LEMMA StepInBuffer ==
  ASSUME ConsoleInv, BufferInv, ConsoleStep
  PROVE  ConsoleInv' /\ BufferInv'
<1>1. ConsoleInv'
  BY StepIsGood DEF ConsoleInv, Good
<1>2. ASSUME NEW client \in Clients, NEW p \in Seq(ProperKeys), console_callback(client, p)
      PROVE  BufferInv'
  BY <1>2 DEF console_callback, question, BufferInv, OutputRecords, AddressesKept
<1>3. ASSUME NEW key \in ProperKeys, Typed(key) PROVE BufferInv'
  BY <1>3 DEF Typed, question, BufferInv, AddressesKept
<1>4. ASSUME OutputTime PROVE BufferInv'
  BY <1>4 DEF OutputTime, question, BufferInv, OutputRecords, AddressesKept
<1>5. ASSUME Hardware \/ UNCHANGED consoleVars PROVE BufferInv'
  BY <1>5 DEF Hardware, consoleVars, question, BufferInv, AddressesKept
<1>6. BufferInv'
  BY <1>2, <1>3, <1>4, <1>5, ResetBuffers, CheckInBuffer DEF ConsoleStep
<1> QED BY <1>1, <1>6

LEMMA BuffersAre == ASSUME ConsoleInv, BufferInv PROVE ConsoleTypeOK
<1>1. out.n < ObufSize /\ out.logged <= StartSize
  BY ConsoleAssumption DEF BufferInv, OutputRecords
<1> QED BY <1>1 DEF BufferInv, AddressesKept, ConsoleInv, QuestionInv, Modes, ConsoleTypeOK

(* The line and the output stay within their buffers, however long the     *)
(* lines and the datagrams are (lineBuf, obuf and startBuf of console.c),  *)
(* and a question is about an address.                                     *)
THEOREM BuffersHold == ASSUME ProperInput PROVE ConsoleSpec => []ConsoleTypeOK
<1>1. ConsoleInv /\ BufferInv /\ [ConsoleNext]_consoleVars => (ConsoleInv /\ BufferInv)'
  BY NextIsStep, StepInBuffer
<1> QED BY <1>1, InitialBuffers, BuffersAre, PTL DEF ConsoleSpec

----------------------------------------------------------------------------
(* The parameter store and the console together, as MCOperator runs them.  *)
(* Its addresses and adjustments are among those there are.                *)
OperatorInput == {"a", "b"} \subseteq Addresses /\ {"a", "b"} \subseteq Adjustments

LEMMA CommandIsProper ==
  ASSUME OperatorInput, NEW w \in Words, NEW a \in {"a", "b"}
  PROVE  Key(w, a) \in ProperKeys /\ Command(w, a) \in Seq(ProperKeys)
<1>1. ASSUME NEW word \in Words, NEW arg \in {"a", "b"} PROVE Key(word, arg) \in ProperKeys
  BY DEF OperatorInput, Key, ProperKeys, Proper, Keys, Args
<1>2. Key(w, a) \in ProperKeys /\ Key("newline", "a") \in ProperKeys
  BY <1>1 DEF Words
<1>3. PICK k \in ProperKeys, n \in ProperKeys : k = Key(w, a) /\ n = Key("newline", "a")
  BY <1>2
<1>4. <<k, n>> \in Seq(ProperKeys)
  OBVIOUS
<1> QED BY <1>3, <1>4 DEF Command, Newline, Word0

LEMMA FocusIsProper ==
  ASSUME OperatorInput, NEW f \in {"settings", "commands", "scan", "log"}
  PROVE  MCDatagrams[f] \subseteq Seq(ProperKeys) /\ MCSerialKeys[f] \subseteq ProperKeys
<1>1. ASSUME NEW w \in Words, NEW a \in {"a", "b"}
      PROVE  Key(w, a) \in ProperKeys /\ Command(w, a) \in Seq(ProperKeys)
  BY CommandIsProper
<1>2. {"net", "mac", "macBad", "userMGT", "boot", "log", "tlog", "xcvr", "yes", "no", "none",
       "backspace", "newline"} \subseteq Words
  BY DEF Words
<1>3. /\ MCDatagrams["settings"] = {Command("mac", "b"), Command("no", "a")}
      /\ MCDatagrams["commands"] = {Command("userMGT", "b"), Command("yes", "a"), Command("macBad", "a")}
      /\ MCDatagrams["scan"] = {Command("xcvr", "a"), Command("log", "a")}
      /\ MCDatagrams["log"] = {Command("none", "a")}
  BY DEF MCDatagrams
<1>4. /\ MCSerialKeys["settings"] = {Key("net", "b"), Key("yes", "a"), Key("newline", "a")}
      /\ MCSerialKeys["commands"] = {Key("boot", "a"), Key("backspace", "a"), Key("newline", "a")}
      /\ MCSerialKeys["scan"] = {Key("newline", "a")}
      /\ MCSerialKeys["log"] = {Key("tlog", "a"), Key("newline", "a")}
  BY DEF MCSerialKeys, Word0, Newline
<1>5. \A w \in {"net", "mac", "macBad", "userMGT", "boot", "log", "tlog", "xcvr", "yes", "no", "none",
                "backspace", "newline"}, a \in {"a", "b"} :
        Key(w, a) \in ProperKeys /\ Command(w, a) \in Seq(ProperKeys)
  BY <1>1, <1>2
<1> QED BY <1>3, <1>4, <1>5

LEMMA OperatorStep ==
  ASSUME OperatorInput, TypeOK, ConsoleInv, BufferInv, focus \in DOMAIN MCDatagrams \cup {"parameters"},
         [MCNext]_operatorVars
  PROVE  (TypeOK /\ ConsoleInv /\ BufferInv /\ focus \in DOMAIN MCDatagrams \cup {"parameters"})'
<1>1. DOMAIN MCDatagrams = {"settings", "commands", "scan", "log"}
  BY DEF MCDatagrams
<1>2. CASE focus = "parameters" /\ Next /\ UNCHANGED <<consoleVars, focus>>
  <2>1. ConsoleStep
    BY <1>2 DEF ConsoleStep
  <2>2. TypeOK' /\ focus' = focus
    BY <1>2, NextType
  <2> QED BY <2>1, <2>2, StepInBuffer
<1>3. CASE focus # "parameters" /\ ConsoleInFocus /\ UNCHANGED <<vars, focus>>
  <2>1. PICK f \in {"settings", "commands", "scan", "log"} : f = focus
    BY <1>1, <1>3
  <2>2. ConsoleStep
    BY <1>3, <2>1, FocusIsProper DEF ConsoleInFocus, ConsoleStep
  <2>3. TypeOK' /\ focus' = focus
    BY <1>3, NextType
  <2> QED BY <2>2, <2>3, StepInBuffer
<1>4. CASE UNCHANGED operatorVars
  <2>1. ConsoleStep /\ UNCHANGED <<vars, focus>>
    BY <1>4 DEF ConsoleStep, operatorVars
  <2>2. TypeOK' /\ focus' = focus
    BY <2>1, NextType
  <2> QED BY <2>1, <2>2, StepInBuffer
<1> QED BY <1>2, <1>3, <1>4 DEF MCNext

(* What an operator reaches stays of its kinds and sizes, in the system    *)
(* that the run checks, for any parameters, addresses and buffers.         *)
THEOREM KindsAndSizes ==
  ASSUME OperatorInput PROVE MCSpec => []OperatorTypeOK
<1> DEFINE Inv == /\ TypeOK /\ ConsoleInv /\ BufferInv
                  /\ focus \in DOMAIN MCDatagrams \cup {"parameters"}
<1>1. MCInit => Inv
  <2> SUFFICES ASSUME MCInit PROVE Inv
    OBVIOUS
  <2>1. focus \in DOMAIN MCDatagrams \cup {"parameters"}
    BY DEF MCInit, MCDatagrams
  <2> QED BY <2>1, InitType, InitialBuffers DEF MCInit
<1>2. Inv /\ [MCNext]_operatorVars => Inv'
  BY OperatorStep
<1>3. Inv => OperatorTypeOK
  BY BuffersAre DEF OperatorTypeOK
<1> QED BY <1>1, <1>2, <1>3, PTL DEF MCSpec
============================================================================
