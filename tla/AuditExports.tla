----------------------------- MODULE AuditExports -----------------------------
(***************************************************************************)
(* The audit exports of a partner (audit.service.ts): a snapshot of the    *)
(* log is stored with an export, handed out until it expires and then      *)
(* deleted, by the clean-up of the tick or by the next download.           *)
(*                                                                         *)
(* Abstracted: filters, formats and sealing of the content; what the log   *)
(* holds.                                                                  *)
(***************************************************************************)
EXTENDS Integers

CONSTANTS
  Exports,   \* the exports that are created
  ExportTtl  \* seven days

VARIABLES
  exports,  \* the AuditExportJob table
  now

Export ==
  [status : {"none", "READY", "EXPIRED"}, content : BOOLEAN, expiresAt : Nat]

NoExport == [status |-> "none", content |-> FALSE, expiresAt |-> 0]

TypeOK == exports \in [Exports -> Export]

Init == exports = [x \in Exports |-> NoExport]

CreateExport(x) ==
  /\ exports[x].status = "none"
  /\ exports' = [exports EXCEPT ![x] = [status |-> "READY", content |-> TRUE,
                                        expiresAt |-> now + ExportTtl]]
  /\ UNCHANGED now

Emptied(export) == [export EXCEPT !.status = "EXPIRED", !.content = FALSE]

\* getAuditExportDownload of an expired export.  It reads, compares and then
\* updates by id, but what it compares, expiresAt, never changes; the download
\* of one that has not expired changes nothing.
ExpireOnDownload(x) ==
  /\ exports[x].status # "none"
  /\ exports[x].expiresAt <= now
  /\ exports' = [exports EXCEPT ![x] = Emptied(@)]
  /\ UNCHANGED now

\* cleanupExpiredAuditExports.
CleanExports ==
  /\ exports' = [x \in Exports |->
       IF exports[x].status = "READY" /\ exports[x].expiresAt < now
       THEN Emptied(exports[x]) ELSE exports[x]]
  /\ UNCHANGED now
===============================================================================
