------------------------------ MODULE MetadataLog ------------------------------
(***************************************************************************)
(* The log a tiered JSONL sink writes: its lines are kept and torn as      *)
(* MetadataSinks says, and each holds the object that MetadataRecords      *)
(* makes of a fact.                                                        *)
(***************************************************************************)
EXTENDS MetadataSinks, MetadataRecords

CONSTANT Records  \* the facts that are compared

ASSUME RecordsAssumption == \A r \in Records : IsRecord(r)

(* Two facts that differ write two different lines: what the log says      *)
(* determines the record, so a reader can tell a cancelled node from a     *)
(* failed one and a null from a value (metadata_record_to_json_value; the  *)
(* projection has no state, so it is compared before the first call).      *)
LogDeterminesRecord ==
  calls = <<>> => \A r, s \in Records : RecordJson(r) = RecordJson(s) => r = s
===============================================================================
