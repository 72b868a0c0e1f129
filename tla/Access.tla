------------------------------- MODULE Access -------------------------------
(***************************************************************************)
(* The administration of Rbac and the Shield engine at work together: the  *)
(* same process serves both, and both write the audit log.                 *)
(***************************************************************************)
EXTENDS Rbac, Shield

allVars == <<auditVars, rbacVars, shieldVars>>

Init == AuditInit /\ RbacInit /\ ShieldInit

Arrive(w) ==
  \/ RbacArrive(w) /\ UNCHANGED shieldVars
  \/ ShieldArrive(w) /\ UNCHANGED rbacVars

Continue(w) ==
  \/ RbacContinue(w) /\ UNCHANGED shieldVars
  \/ ShieldContinue(w) /\ UNCHANGED rbacVars
  \/ WriteEntry(w) /\ UNCHANGED <<rbacVars, shieldVars>>

Next ==
  \/ \E w \in Workers : Arrive(w)
  \/ \E w \in Workers : Continue(w)
  \/ \E w \in Workers : Fault(w) /\ UNCHANGED <<rbacVars, shieldVars>>
  \/ \E p \in People \X Devices : Trust(p) /\ UNCHANGED rbacVars

Spec == Init /\ [][Next]_allVars

-----------------------------------------------------------------------------
\* What an entry of the log says was done has been done: the row or the link is
\* there, the session was ended by somebody, the device is known.
Done(e) ==
  CASE e.action = "create" -> e.on \in made
    [] e.action = "assign" -> <<e.on, e.to>> \in links
    [] e.action = "end" -> \E u \in Accounts : <<u, e.on>> \in ended
    [] e.action = "login" -> \E u \in People : <<u, e.to>> \in known
    [] e.action = "evaluate" -> e.actor \in People

EntriesAreTrue == \A e \in log : Done(e)
=============================================================================
