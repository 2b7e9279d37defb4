---------------------------- MODULE AuditHistory ----------------------------
(***************************************************************************)
(* The audit log as GET /flags/{flag_id}/audit-log lists it: in the order  *)
(* of created_at, the start of the transaction that wrote the entry.       *)
(***************************************************************************)
EXTENDS FlagService, TLC

(* AuditRepository.list_for_flag: ORDER BY created_at, id (two transactions *)
(* are never given the same timestamp here).                               *)
Listing == SortSeq(audit, LAMBDA d, e : started[d.writer] < started[e.writer])

(* get_audit_log: "Return the chronological audit history for a flag."     *)
(* Applying the listed changes one after the other gives the row.          *)
ListingExplainsRow == Explains(Listing, row)
=============================================================================
