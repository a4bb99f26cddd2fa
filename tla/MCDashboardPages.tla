---------------------------- MODULE MCDashboardPages ----------------------------
EXTENDS DashboardPagesInvariant, TLC

CONSTANTS a, b

Lists == {<<a, b>>, <<b>>}

Releases ==
  [app \in App |-> IF app = a
                  THEN {<<"main", "1.0", u>> : u \in {"update", "rollback", "rollback2"}}
                  ELSE {<<"main", "1.0", "other">>}]

Uuids ==
  [u \in {"update", "rollback", "rollback2", "other"} |->
     IF u = "rollback2" THEN "rollback" ELSE u]

================================================================================
