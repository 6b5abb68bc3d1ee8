------------------------------ MODULE MCErrno ------------------------------
(* Errno on a system that numbers its errors from 1 in the order of the     *)
(* table, except that EHOSTDOWN is 64 and EREMOTEIO has the place that is   *)
(* then free; the system defines all errors, or all but one, or none.       *)
EXTENDS Errno

MCErrnoOf ==
  [e \in SystemErrors |->
     CASE e = "EHOSTDOWN" -> 64
       [] e = "EREMOTEIO" -> 63
       [] OTHER -> 4094 + Fallback[e]]

MCMissing == {{}, SystemErrors} \cup {{e} : e \in SystemErrors}
=============================================================================
