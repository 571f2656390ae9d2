--------------------------- MODULE MCNoticeOutbox ---------------------------
(***************************************************************************)
(* NoticeOutbox with two replicas.                                          *)
(***************************************************************************)
EXTENDS NoticeOutbox

CONSTANTS d1, d2

MCDispatchers == {d1, d2}
=============================================================================
