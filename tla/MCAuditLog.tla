----------------------------- MODULE MCAuditLog -----------------------------
(* Instances of AuditLog for TLC.                                          *)
EXTENDS AuditLog
CONSTANTS t1, t2
BothTraces == {t1, t2}
OneTrace == {t1}
MCIdOf == [t \in Traces |-> IF t = t1 THEN "a" ELSE "b"]
SharedId == [t \in Traces |-> "a"]
ThreeAndOne == [t \in Traces |-> IF t = t1 THEN 3 ELSE 1]
TwoEach == [t \in Traces |-> 2]
NoFaults == {}
AllFaults == {"open", "close", "write", "torn", "sync", "clock"}
OpenFault == {"open"}
=============================================================================
