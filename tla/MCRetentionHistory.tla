------------------------- MODULE MCRetentionHistory -------------------------
(* RetentionHistory over a small calendar.                                  *)
EXTENDS RetentionHistory

Calendar(ticks) == [g \in DOMAIN ticks |-> [t \in 0 .. Horizon |-> t \div ticks[g]]]

\* Two ticks are an hour, four a day.
Hours == [hour |-> 2, day |-> 4, week |-> 4, month |-> 4, year |-> 4]
HourSlots == Calendar(Hours)

Shaped(h, d, w, m, y) == [hourly |-> h, daily |-> d, weekly |-> w, monthly |-> m, yearly |-> y]
Wide == Shaped(1, 1, 0, 0, 0)
Narrow == Shaped(1, 0, 0, 0, 0)

Config(p, other, promise, sends) ==
  [this |-> p, other |-> other, promise |-> promise, sends |-> sends]

GatePolicies == {Wide, Narrow, Transient}
TwoOthers == {1, 2}
GateStarts ==
  {[place |-> "local", config |-> Config(Wide, 2, FALSE, TRUE)],
   [place |-> "drive", config |-> Config(Wide, 2, TRUE, TRUE)]}
GateMenu ==
  {Config(Wide, 1, TRUE, TRUE), Config(Narrow, 2, TRUE, TRUE), Config(Narrow, 1, TRUE, FALSE),
   Config(Transient, 2, TRUE, TRUE)}

UnheldPolicies == {Wide, Narrow}
UnheldStarts == {[place |-> "drive", config |-> Config(Narrow, 2, TRUE, TRUE)]}
UnheldMenu == {Config(Wide, 1, TRUE, TRUE), Config(Narrow, 2, TRUE, TRUE)}
==============================================================================
