-------------------------- MODULE MCPipelineEngine --------------------------
EXTENDS PipelineEngine

Input(adapter, index) ==
    [adapter |-> adapter, subject |-> None, measurement_key |-> "level",
     channel_index |-> None, value_index |-> index]

Detector(rise) ==
    [mode |-> "high-active", rise_threshold |-> 1, fall_threshold |-> 0,
     rise_debounce_ms |-> rise, fall_debounce_ms |-> 0]

Pipeline(id, kind, input, detector, unit) ==
    [id |-> id, kind |-> kind, input |-> input, detector |-> detector, unit |-> unit,
     trigger |-> IF kind = "accumulated-count" THEN "on-transition" ELSE None,
     calibration |-> [scale |-> 1, offset |-> 0]]

Reading(adapter, values) ==
    [adapter |-> adapter, subject |-> "s1", measurement_key |-> "level",
     channel_index |-> None, values |-> values]

MCCandidates ==
    {Pipeline(1, "accumulated-count", Input("a", 1), Detector(0), None),
     Pipeline(1, "state", Input("a", 1), Detector(0), None),
     Pipeline(1, "state", Input("a", 1), Detector(1), None),
     Pipeline(1, "state", Input("b", 1), Detector(0), None),
     Pipeline(2, "measurement", Input("a", 2), None, "C"),
     Pipeline(2, "measurement", Input("a", 1), None, "C"),
     Pipeline(2, "measurement", Input("a", 1), None, None)}

MCReadings == {Reading("b", <<1>>), Reading("a", <<0>>), Reading("a", <<1>>), Reading("a", <<9>>)}
=============================================================================
