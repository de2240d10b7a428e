------------------------------- MODULE Pressure -------------------------------
(***************************************************************************)
(* Pressure classification with hysteresis. The code compares the fraction *)
(* used/capacity with fractional watermarks in double precision; here the  *)
(* watermarks are percentages and the comparison is exact.                 *)
(***************************************************************************)
EXTENDS Integers

CONSTANTS Low, High, Critical   \* watermarks, in percent of the capacity

ASSUME WatermarkAssumption ==   \* WatermarkConfig::valid
    Low \in Nat /\ High \in Low .. 100 /\ Critical \in High .. 100

PressureState ==
    {"UNKNOWN", "LOW", "NORMAL", "ELEVATED", "HIGH", "CRITICAL", "RECLAIMING",
     "RECOVERING", "STALE", "REVALIDATION_REQUIRED"}

Under(used, capacity, percent) == used * 100 < percent * capacity

\* Pressure once utilization is below the low watermark.
Relaxed(used, capacity) ==
    IF Under(used * 2, capacity, Low) THEN "LOW" ELSE "NORMAL"

\* While at HIGH or above, only a fall below the low watermark relaxes it.
Held(last) == last \in {"HIGH", "CRITICAL", "RECLAIMING"}

\* Mutation: without hysteresis.
classify_memoryless(used, capacity, last) ==
    IF Under(used, capacity, Low) THEN Relaxed(used, capacity)
    ELSE IF ~Under(used, capacity, Critical) THEN "CRITICAL"
    ELSE IF ~Under(used, capacity, High) THEN "HIGH" ELSE "NORMAL"

classify_pressure(used, capacity, last) ==
    IF Under(used, capacity, Low) THEN Relaxed(used, capacity)
    ELSE IF ~Under(used, capacity, Critical) THEN "CRITICAL"
    ELSE IF Held(last) \/ ~Under(used, capacity, High) THEN "HIGH" ELSE "NORMAL"

evaluate_pressure(used, capacity, last) ==
    IF capacity = 0 THEN "UNKNOWN" ELSE classify_pressure(used, capacity, last)
==============================================================================
