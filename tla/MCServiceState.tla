--------------------------- MODULE MCServiceState ---------------------------
(* The parts of the service's state, in turn and with what may go wrong.   *)
EXTENDS ServiceState

CONSTANTS c1, c2, t1, t2

(* One radio at a time: what each reports is kept apart.  The last six     *)
(* are the calls, the settings, the engine's status and the files.         *)
MCWorlds ==
    {{"connection", "crash", "wifi"}, {"connection", "crash", "wan"},
     {"connection", "crash", "telephony", "power"},
     {"connection", "wan", "late", "odd"},
     {"connection", "wifi", "late", "odd", "unsent"},
     {"connection", "telephony", "late", "odd"},
     {"connection", "geocoding", "crash", "wan"},
     {"settings", "crash"}, {"settings", "crash", "write_fails"},
     {"settings", "crash", "read_fails"},
     {"engine", "crash"},
     {"positions"}, {"positions", "crash"}, {"positions", "mock"},
     {"positions", "disk", "crash"}}

(* No file, and one without reverse geocoding.                             *)
MCFiles == {Null, [ok |-> TRUE, features |-> {"geocode"}]}

Symmetry == Permutations({c1, c2}) \cup Permutations({t1, t2})

Home == [place |-> "home", acc |-> 1]
Street == [place |-> "street", acc |-> 2]
OffShore == [place |-> "equator", acc |-> 1]
MCReport == {Home, Street, OffShore}
=============================================================================
