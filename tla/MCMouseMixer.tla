---------------------------- MODULE MCMouseMixer ----------------------------
(* Small values for the constants of MouseMixer; one group per question a  *)
(* run asks.                                                               *)
EXTENDS MixerRefinement

Cmd(x, p, s, kind, latest, key, button) ==
  [x |-> x, persistent |-> p, scheduled |-> s, kind |-> kind,
   latest |-> latest, key |-> key, button |-> button]

Physical(buttons, x) == [match |-> TRUE, buttons |-> buttons, x |-> x]
Foreign == [match |-> FALSE, buttons |-> {}, x |-> 0]

(* Motion: a coalescing movement, one that is split in parts, a guarded    *)
(* transaction; physical reports that do and do not leave room for them.   *)
MotionCommands ==
  {Cmd(2, {}, {}, "MOVEMENT", TRUE, 0, NoButton),
   Cmd(-3, {}, {}, "MOVEMENT", FALSE, 0, NoButton),
   Cmd(2, {}, {}, "TRANSACTION_OUT", FALSE, 1, NoButton)}
MotionReports == {Physical({}, 1), Foreign}

(* Competition: every physical report is at the end of the field, so the   *)
(* motion fits none of them.                                               *)
FitlessCommands == {Cmd(2, {}, {}, "MOVEMENT", FALSE, 0, NoButton)}
FitlessReports == {Physical({}, 1)}

(* Refinement: movement, click and release, and what they merge with.     *)
RefinedCommands ==
  {Cmd(2, {}, {}, "MOVEMENT", TRUE, 0, NoButton),
   Cmd(0, {}, {2}, "CLICK_PRESS", FALSE, 1, 2),
   Cmd(0, {}, {}, "RELEASE_ALL", FALSE, 0, NoButton)}
RefinedReports == {Physical({2}, 1), Foreign}

(* The masks: one hold, no reset needed to lose it but the client's own.   *)
HoldCommands == {Cmd(0, {1}, {}, "PERSISTENT", FALSE, 0, NoButton)}
IdleReports == {Physical({}, 0)}

MinusOne == -1
=============================================================================
