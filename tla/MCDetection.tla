---------------------------- MODULE MCDetection ----------------------------
EXTENDS Detection

Detector(mode, rise, fall) ==
    [mode |-> mode, rise_threshold |-> 3, fall_threshold |-> 1,
     rise_debounce_ms |-> rise, fall_debounce_ms |-> fall]

Pipeline(kind, detector, scale, offset) ==
    [kind |-> kind, detector |-> detector,
     trigger |-> IF kind = "state" THEN None ELSE "on-transition",
     calibration |-> [scale |-> scale, offset |-> offset]]

MCDefinitions ==
    {Pipeline("state", Detector("high-active", 2, 1), 1, 0),
     Pipeline("state", Detector("low-active", 1, 2), -1, 4),
     Pipeline("accumulated-count", Detector("high-active", 0, 1), 1, 0),
     Pipeline("accumulated-count", Detector("low-active", 0, 0), 1, 0)}

\* A state pipeline needs time for its windows, a counter inputs for its limit.
MCMaxTime == [kind \in Kinds |-> IF kind = "state" THEN 3 ELSE 2]
MCMaxInputs == [kind \in Kinds |-> IF kind = "state" THEN 5 ELSE 6]

=============================================================================
