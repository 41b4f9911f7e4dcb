---------------------------- MODULE MCDigitizer ----------------------------
(***************************************************************************)
(* The recorder of a channel, the readout of the channels of a group, and  *)
(* the front panel.  They are checked in one run and share no state: focus *)
(* chooses, once and for all, which of them runs, and for the panel what   *)
(* of it is used.                                                          *)
(***************************************************************************)
EXTENDS MCHsdRecorder, HsdReadout, FrontPanel

MCFirstItem == <<0, 0, 1>>
MCLines == <<2, 1, 1>>
MCMessages == {[rows |-> 1, bytes |-> 3]}
MCGarbage == {<<1, 9>>}

VARIABLE focus
digitizerVars == <<vars, ro, panelVars, focus>>

PanelInFocus ==
  \/ \E due \in BOOLEAN : displayUpdate(due)
  \/ focus # "switch" /\ \E m \in Messages : warn(m)
  \/ focus = "clock" /\ displayShowStatusLine
  \/ focus = "switch" /\ (displayShowFatal \/ checkForReset \/ FatalTimesOut)
  \/ BeginLoop \/ World
Used(parts) == UNCHANGED <<vars, ro, focus>> /\ PanelInFocus /\ UNCHANGED parts

MCInit == /\ focus \in {"recorder", "readout", "pages", "clock", "switch"}
          /\ Init /\ ReadoutInit /\ PanelInit
          /\ focus # "switch" => ~swtch
MCNext ==
  \/ focus = "recorder" /\ Next /\ UNCHANGED <<ro, panelVars, focus>>
  \/ focus = "readout" /\ ReadoutNext /\ UNCHANGED <<vars, panelVars, focus>>
  \/ focus = "pages" /\ Used(<<swtch, time>>)
  \/ focus = "clock" /\ Used(<<button, swtch>>)
  \/ focus = "switch" /\ Used(<<button, time>>)

(* The state of the recorder and of the panel is of the right kinds.       *)
DigitizerTypeOK == TypeOK /\ PanelTypeOK

MCSpec == MCInit /\ [][MCNext]_digitizerVars
=============================================================================
