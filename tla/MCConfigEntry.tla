---------------------------- MODULE MCConfigEntry ----------------------------
(* Three addresses and two units; an entry of release 1.1 with its old entity *)
(* names, one of 2.1, one with two units at one address, or none yet.         *)
EXTENDS ConfigEntry

CONSTANTS R1, R2

MCNames == "ii_plain" :> {"data_health", "device_fault"}
    @@ "ii_f" :> {"data_health", "device_fault", "humidity_extract_air"}

Old(key, name, scoped) == [key |-> key, name |-> name, scoped |-> scoped, fresh |-> FALSE]

MCOldEntries ==
    {[version |-> <<0, 0>>, subs |-> {}, entities |-> {}],
     [version |-> <<1, 1>>,
      subs |-> {[Subentry(0, <<2, 1>>, 2, None, "ii_plain") EXCEPT !.uid = None]},
      entities |-> {Old(<<2, 1>>, "airflow_data_stale", FALSE), Old(<<2, 1>>, "rf_fault_status", FALSE)}],
     [version |-> <<1, 4>>,
      subs |-> {[Subentry(0, <<2, 1>>, 2, R1, "ii_f") EXCEPT !.uid = None],
                [Subentry(0, <<2, 2>>, 2, R2, "ii_plain") EXCEPT !.uid = None]},
      entities |-> {Old(<<2, 1>>, "data_health", FALSE), Old(<<2, 2>>, "rf_fault_status", FALSE)}],
     [version |-> <<2, 1>>,
      subs |-> {Subentry(0, <<2, 1>>, 2, R1, "ii_f"), Subentry(0, <<3, 1>>, 3, R2, "ii_plain")},
      entities |-> {Old(<<2, 1>>, "rf_fault_status", TRUE), Old(<<2, 1>>, "device_fault", TRUE),
                    Old(<<3, 1>>, "rf_fault_status", TRUE)}]}

MCPaired == [a \in Slaves |-> IF a = 2 THEN R1 ELSE IF a = 3 THEN R2 ELSE None]
=============================================================================
