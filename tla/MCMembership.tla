---------------------------- MODULE MCMembership ----------------------------
(* Instances of Membership for TLC.                                         *)
EXTENDS Membership

CONSTANTS adm, e1, e2

\* two new addresses, with a duplicate within the file; and a file without a
\* valid row: the administrator's own address and a malformed row
Sheets == {<<e1, e1, e2>>, <<adm, None>>}
============================================================================
