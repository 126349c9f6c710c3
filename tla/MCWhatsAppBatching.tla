--------------------------- MODULE MCWhatsAppBatching ---------------------------
(* Three messages of one chat with nothing going wrong: two may share a batch   *)
(* while the third is on its way.  Or two messages and one failed call or stop. *)
EXTENDS WhatsAppBatching

================================================================================
