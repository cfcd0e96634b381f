----------------------------- MODULE MCRoomReads -----------------------------
(* A plain set of jobs of one unit: airflow with the modes, temperatures with *)
(* air quality, and one bridged RF diagnostic.  A step of time is 10 s; the   *)
(* intervals and limits above it are scaled down and keep their order.        *)
EXTENDS RoomReads, TLC

MCPlans == {"airflow", "temperature", "rf"}
MCFeeds == "airflow" :> ("airflow" :> {"flow"})
    @@ "temperature" :> ("temperatures" :> {"temperature"}
                         @@ "supply_temperature" :> {"temperature"}
                         @@ "extract_air_quality" :> {"air_quality"})
    @@ "rf" :> ("rf_signal_strength" :> {"rf_signal"})
MCJobOrder == "airflow" :> 1 @@ "temperature" :> 2 @@ "rf" :> 3
MCOrder == "airflow" :> 1 @@ "temperatures" :> 2 @@ "supply_temperature" :> 3
    @@ "extract_air_quality" :> 4 @@ "rf_signal_strength" :> 5
MCInterval == "airflow" :> 1 @@ "temperature" :> 2 @@ "rf" :> 2
MCStaleAfter == "flow" :> 3 @@ "flow_control" :> 3 @@ "intensive" :> 3
    @@ "temperature" :> 6 @@ "air_quality" :> 6 @@ "rf_signal" :> 6
MCComponentBackoff == <<1, 2, 4>>
MCModeBackoff == <<3, 6>>
=============================================================================
