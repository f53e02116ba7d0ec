---------------------------- MODULE MCNodeRuntime ----------------------------
EXTENDS NodeRuntime

Conf(adapters, api, mqtt) == [adapters |-> adapters, api |-> api, mqtt |-> mqtt]

\* One adapter of each hardware kind, two simple ones, and services alone.
MCConfigs ==
    {Conf({"serial"}, FALSE, FALSE), Conf({"i2c"}, FALSE, TRUE),
     Conf({"sample", "sample2"}, FALSE, FALSE), Conf({"sample"}, TRUE, TRUE)}
        \cup {Conf({}, api, mqtt) : api \in BOOLEAN, mqtt \in BOOLEAN}
=============================================================================
