----------------------------- MODULE MCOutreach -----------------------------
(* Tabs on one account, with one request more than a tab needs, so that two  *)
(* handlers run at a time.                                                   *)
EXTENDS OutreachDrafts
=============================================================================
