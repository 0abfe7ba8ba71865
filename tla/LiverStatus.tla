----------------------------- MODULE LiverStatus -----------------------------
(* The fields of a liver that are computed from its dates and from the clock  *)
(* (domain/models.go). Moments are numbers of ticks; a liver has the fields    *)
(* debutedOn, a moment, and retiredOn, {} or {moment}.                        *)
EXTENDS Integers

CONSTANTS TicksPerDay,
          MaxDuration    \* time.Time.Sub saturates here, at about 292 years

ASSUME LiverStatusAssumption ==
  /\ TicksPerDay \in Nat \ {0}
  /\ MaxDuration \in Nat

\* The moment of the zero time.Time, which the driver makes of '0000-00-00'.
ZeroTime == -2 * MaxDuration

Retired(liver) == liver.retiredOn # {}

NoRetirement(liver, now) ==  \* variant: the last case is forgotten
  IF Retired(liver) THEN "" ELSE IF liver.debutedOn > now THEN "ANNOUNCED" ELSE "DEBUTED"

\* Retirement counts as soon as it has a date, also one in the future.
Status(liver, now) ==
  IF Retired(liver) THEN "RETIRED"
  ELSE IF liver.debutedOn > now THEN "ANNOUNCED"
  ELSE "DEBUTED"

Sub(to, from) ==
  LET d == to - from
  IN  IF d > MaxDuration THEN MaxDuration
      ELSE IF d < -MaxDuration THEN -MaxDuration
      ELSE d

EnrollmentDuration(liver, now) ==
  Sub(IF Retired(liver) THEN CHOOSE t \in liver.retiredOn : TRUE ELSE now, liver.debutedOn)

Floored(duration) == duration \div TicksPerDay  \* variant

\* The conversion of the quotient to an integer drops its fraction.
Days(duration) == IF duration < 0 THEN -((-duration) \div TicksPerDay) ELSE duration \div TicksPerDay

EnrollmentDays(liver, now) == Days(EnrollmentDuration(liver, now))
==============================================================================
