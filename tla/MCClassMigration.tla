--------------------------- MODULE MCClassMigration ---------------------------
(***************************************************************************)
(* A small instance of ClassMigration: up to three rows of earlier         *)
(* releases, of four that may ever exist.  The keys of rows 2 and 3 begin  *)
(* alike, and another class has the name row 4 would get.                  *)
(***************************************************************************)
EXTENDS ClassMigration

Historical(status, calendar, active) ==
    [status |-> status, calendar |-> calendar, active |-> active]

SomeHistory == {Historical("LIVE", FALSE, TRUE), Historical("READY", TRUE, TRUE),
                Historical("READY", TRUE, FALSE),
                Historical("PROVIDER_RESPONSE_INVALID", TRUE, FALSE),
                Historical("PROVIDER_STATE_UNKNOWN", FALSE, TRUE),
                Historical("DRAFT", FALSE, FALSE), Historical("ENDED", TRUE, FALSE),
                Historical("RETRYABLE_FAILED", FALSE, TRUE),
                Historical("RETRYABLE_FAILED", TRUE, FALSE)}

SomeNames == [i \in 1..MaxRows |-> IF i = 3 THEN 2 ELSE i]
=============================================================================
