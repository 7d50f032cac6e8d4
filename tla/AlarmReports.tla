---------------------------- MODULE AlarmReports ----------------------------
(***************************************************************************)
(* The aggregations of the alarm API: POST /alarms/summary, /trends,       *)
(* /rationalization-candidates and /flood-analysis.                        *)
(*                                                                         *)
(* The body p of a request holds asset_ids (a set, empty for no filter),   *)
(* site, unit, severities (a set, empty for no filter), the two ends of    *)
(* its time_range, which no request may leave out, and a threshold.        *)
(***************************************************************************)
EXTENDS AlarmApi

(* Python's None is no asset.                                              *)
ASSUME ReportsAssumption == None \notin {x.asset_id : x \in Alarms}

(* How many rows have each of the values Key takes.                        *)
CountBy(rows, Key(_)) ==
  [k \in {Key(rows[i]) : i \in DOMAIN rows} |->
     Cardinality({i \in DOMAIN rows : Key(rows[i]) = k})]

(* The filters three of the aggregations share.                            *)
ReportScope(p) ==
  Kept(SeedAlarms, LAMBDA a : /\ p.asset_ids # {} => a.asset_id \in p.asset_ids
                              /\ a.asset_id \in AssetIdsIn(p.site, p.unit))

ReportRows(p) == Until(Since(ReportScope(p), p.start_time), p.end_time)

Summary(p) ==
  LET rows == Kept(ReportRows(p), LAMBDA a : p.severities # {} => a.severity \in p.severities)
  IN  [total |-> Len(rows), kpis |-> CountBy(rows, LAMBDA a : a.severity)]

(* One row per alarm; the day is its bucket whatever bucket is asked for.  *)
Trends(p) ==
  LET rows == ReportRows(p)
  IN  [i \in DOMAIN rows |-> [bucket |-> rows[i].raised_at \div 96,
                              asset_id |-> rows[i].asset_id,
                              severity |-> rows[i].severity]]

(* Mutant: an asset has to exceed the threshold.                           *)
CandidatesAbove(p) ==
  LET counts == CountBy(ReportRows(p), LAMBDA a : a.asset_id)
  IN  [id \in {k \in DOMAIN counts : counts[k] > p.threshold} |-> counts[id]]

(* Assets that raised as many alarms as the threshold.                     *)
Candidates(p) ==
  LET counts == CountBy(ReportRows(p), LAMBDA a : a.asset_id)
  IN  [id \in {k \in DOMAIN counts : counts[k] >= p.threshold} |-> counts[id]]

(* Of one unit, in the whole range: the rolling window is not looked at.   *)
FloodRows(p) == Until(Since(SeedAlarms, p.start_time), p.end_time)

FloodWindows(p) ==
  LET rows   == Kept(FloodRows(p), LAMBDA a : a.asset_id \in AssetIdsIn(None, p.unit))
      counts == CountBy(rows, LAMBDA a : a.asset_id)
  IN  [id \in {k \in DOMAIN counts : counts[k] >= p.threshold} |-> counts[id]]

=============================================================================
