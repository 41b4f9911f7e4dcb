------------------------------- MODULE MCBoard -------------------------------
(***************************************************************************)
(* The components of the board, none of which shares state with another:   *)
(* focus chooses, once and for all, whose operations are run.              *)
(***************************************************************************)
EXTENDS IicBus, FrontEnd, Receiver, TimeForward, TodReceiver

At(ctl, port, addr) == [ctl |-> ctl, port |-> port, addr |-> addr]
MCDevice ==
  [d \in {"Expander", "Vadj", "IrpsB", "IrpsC", "Bridge", "MgtClk", "UserSi570", "Sfp0"} |->
     CASE d = "Expander" -> At(0, 126, 32)
       [] d = "Vadj" -> At(0, 0, 69)
       [] d = "IrpsC" -> At(0, 2, 69)
       [] d = "IrpsB" -> At(0, 2, 68)
       [] d = "UserSi570" -> At(1, 2, 93)
       [] d = "MgtClk" -> At(1, 3, 93)
       [] d = "Bridge" -> At(1, 5, 47)
       [] d = "Sfp0" -> At(1, 15, 80)]
MCMuxSel == [zcu111 |-> <<0, 1, 3>>, zcu208 |-> <<0, 1>>]
MCOffsets == {-4000, 100}
MCSupplies == <<"Vadj">>
MCControllers == <<"IrpsC">>

VARIABLE focus
timeVars == <<forwardVars, todVars>>
boardVars == <<busVars, feVars, mgt, tod, evmap, timeVars, focus>>

(* The parts that are not in focus start in one state.                     *)
MCInit ==
  /\ focus \in {"clocks", "monitors", "analogue", "eeprom", "aligner", "time", "events",
               "forward", "seconds"}
  /\ BusInit /\ FeInit /\ MgtInit /\ TodInit /\ EvInit /\ ForwardInit /\ RxInit
  /\ focus # "clocks" => bus.target = "zcu208"
  /\ bus.page["IrpsC"] = 0
  /\ focus # "monitors" => bus.page["IrpsB"] = 0
  /\ focus # "time" => tod.now.fraction = 0
  /\ focus # "seconds" => tx.sent = 0 /\ rx.shiftReg = 0

(* Bound: levels are set for channel 0 only.                               *)
Only(part, parts) == focus = part /\ UNCHANGED <<focus, parts>>
MCNext ==
  \/ /\ UNCHANGED <<focus, feVars, mgt, tod, evmap, timeVars>>
     /\ \/ focus = "clocks" /\ (Configure \/ GetStatus \/ ShowClocks \/ GetFirst)
        \/ focus = "monitors" /\ (FetchMonitors \/ Adjust)
        \/ focus \in {"clocks", "monitors"} /\ BusRestart
  \/ /\ Only("analogue", <<busVars, mgt, tod, evmap, timeVars>>)
     /\ (SetGain \/ SetCoupling \/ SetDAC \/ EnableTone \/ SetLevel \/ RestartConverters)
     /\ fe'.level[1] = fe.level[1]
  \/ Only("eeprom", <<busVars, mgt, tod, evmap, timeVars>>) /\ StashEEPROM
  \/ Only("aligner", <<busVars, feVars, tod, evmap, timeVars>>) /\ MgtNext
  \/ Only("time", <<busVars, feVars, mgt, evmap, timeVars>>) /\ TodNext
  \/ Only("events", <<busVars, feVars, mgt, tod, timeVars>>) /\ EvNext
  \/ Only("forward", <<busVars, feVars, mgt, tod, evmap, todVars>>) /\ ForwardNext
  \/ Only("seconds", <<busVars, feVars, mgt, tod, evmap, forwardVars>>) /\ RxNext

(* What is in focus runs on: the aligner is cranked, time passes, both     *)
(* clocks have edges, and a receiver that is reset again and again comes   *)
(* out aligned again and again.                                            *)
AlignerRuns ==
  /\ WF_mgt(focus = "aligner" /\ Processor)
  /\ WF_mgt(focus = "aligner" /\ MgtTime)
  /\ SF_mgt(focus = "aligner" /\ mgt.state = "await" /\ ComeOut(TRUE, TRUE))
ReaderRuns == WF_tod(focus = "time" /\ (ReadFraction \/ ReadAgain))
ClocksRun == /\ WF_forwardVars(focus = "forward" /\ InEdge)
             /\ WF_forwardVars(focus = "forward" /\ OutEdge)
MCSpec == MCInit /\ [][MCNext]_boardVars /\ AlignerRuns /\ ReaderRuns /\ ClocksRun

(* A receiver that keeps coming back is accepted; a time comes over to the *)
(* bus, and its reading ends.  What is not in focus is at rest already.    *)
MCProgress == (focus = "aligner" => EventuallyAligned) /\ ReadingEnds /\ TimeArrives
=============================================================================
