----------------------------- MODULE Transfers -----------------------------
(***************************************************************************)
(* Functions of the code that talk to a device which may fail to answer.   *)
(* Such a function is an operator that gives the set of its outcomes       *)
(* [s |-> state after it, ok |-> whether it reports success].  The field   *)
(* faults of a state is the number of transfers that may still fail.       *)
(***************************************************************************)
EXTENDS Integers, Sequences

Done(s) == {[s |-> s, ok |-> TRUE]}
Then(S, F(_)) == UNION {IF o.ok THEN F(o.s) ELSE {o} : o \in S}
Regardless(S, F(_)) == UNION {F(o.s) : o \in S}
InTurn(s, seq, F(_, _)) ==
  LET after[n \in 0 .. Len(seq)] ==
        IF n = 0 THEN Done(s) ELSE Regardless(after[n - 1], LAMBDA t : F(t, seq[n]))
  IN  after[Len(seq)]

(* A transfer that turns s into t when the device hears it.  One that fails *)
(* may have been heard.                                                    *)
Failing(s) == [s EXCEPT !.faults = @ - 1]
Send(s, t) ==
  {[s |-> t, ok |-> TRUE]} \cup
    {[s |-> Failing(x), ok |-> FALSE] : x \in IF s.faults > 0 THEN {s, t} ELSE {}}
=============================================================================
