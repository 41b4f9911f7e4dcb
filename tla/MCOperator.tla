----------------------------- MODULE MCOperator -----------------------------
(***************************************************************************)
(* What an operator reaches: the parameter file and the console.  They are *)
(* checked in one run and share no state: focus chooses, once and for all, *)
(* what is operated, and for the console which of its commands.            *)
(***************************************************************************)
EXTENDS SystemParameters, Console

FirstValue == 1
DefaultTable == [p \in 1 .. N |-> FirstValue]

Word0(word) == Key(word, "a")
Newline == Word0("newline")
Command(word, arg) == <<Key(word, arg), Newline>>
MCSerialKeys ==
  [settings |-> {Key("net", "b"), Word0("yes"), Newline},
   commands |-> {Word0("boot"), Word0("backspace"), Newline},
   scan |-> {Newline}, log |-> {Word0("tlog"), Newline}]
MCDatagrams ==
  [settings |-> {Command("mac", "b"), Command("no", "a")},
   commands |-> {Command("userMGT", "b"), Command("yes", "a"), Command("macBad", "a")},
   scan |-> {Command("xcvr", "a"), Command("log", "a")}, log |-> {Command("none", "a")}]

VARIABLE focus
operatorVars == <<vars, consoleVars, focus>>

(* A part that is not in focus starts in one state and stays there.        *)
MCInit ==
  /\ focus \in {"parameters", "settings", "commands", "scan", "log"}
  /\ Init /\ ConsoleInit
  /\ focus # "parameters" => file = Default
  /\ settings = [net |-> "a", mac |-> "a", offset |-> "a"]
ConsoleInFocus ==
  \/ \E client \in Clients, p \in MCDatagrams[focus] : console_callback(client, p)
  \/ \E key \in MCSerialKeys[focus] : Typed(key)
  \/ consoleCheck \/ OutputTime \/ Hardware
  \/ focus = "settings" /\ resetFPGA
MCNext ==
  \/ focus = "parameters" /\ Next /\ UNCHANGED <<consoleVars, focus>>
  \/ focus # "parameters" /\ ConsoleInFocus /\ UNCHANGED <<vars, focus>>
MCSpec == /\ MCInit /\ [][MCNext]_operatorVars
          /\ focus # "parameters" => ConsoleFairness

(* The parameters and the console are of the right kinds and sizes.        *)
OperatorTypeOK == TypeOK /\ ConsoleTypeOK

(* Nothing that is sent to the console, or that it has to say, waits for   *)
(* ever.                                                                   *)
NothingWaits == InputIsRead /\ OutputLeaves
=============================================================================
