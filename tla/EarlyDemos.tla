----------------------------- MODULE EarlyDemos -----------------------------
(***************************************************************************)
(* Demos 1 to 4a on one machine, one at a time.  They share no object, so  *)
(* a demo is run while the others have not been.                           *)
(***************************************************************************)
EXTENDS SysVSegment, NamedObject, Demo4aServer

EarlyInit == SysVInit /\ NamedInit /\ Demo4aInit

EarlyNext ==
  \/ SysVNext /\ NamedInit /\ Demo4aInit /\ UNCHANGED <<namedVars, demo4aVars>>
  \/ NamedNext /\ SysVInit /\ Demo4aInit /\ UNCHANGED <<sysVVars, demo4aVars>>
  \/ Demo4aNext /\ SysVInit /\ NamedInit /\ UNCHANGED <<sysVVars, namedVars>>

EarlySpec == EarlyInit /\ [][EarlyNext]_<<sysVVars, namedVars, demo4aVars>>

\* The variables of the three have their types.
EarlyTypeOK == SysVTypeOK /\ NamedTypeOK /\ Demo4aTypeOK
=============================================================================
