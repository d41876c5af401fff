------------------------------ MODULE MCAuditLog -----------------------------
(* Lines of two lengths, the long ones with a line separator in their text;   *)
(* files of one or two lines, two backups.                                    *)
EXTENDS AuditLog

CONSTANTS small, big

MCSize == [kind \in Kinds |-> IF kind = small THEN 2 ELSE 3]
MCFilters == {{small}, {small, big}}
=============================================================================
