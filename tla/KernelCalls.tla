------------------------------ MODULE KernelCalls ------------------------------
(***************************************************************************)
(* The system calls that project4/sys.c has besides the semaphores, in     *)
(* five families.  What a family needs of another one, the user of a task  *)
(* or a limit, is a parameter of its module, so a behaviour makes the      *)
(* calls of one, and the rest of the state stays as it is.                 *)
(***************************************************************************)
EXTENDS Processes, Credentials, Priorities, ResourceLimits, MemoryMap

VARIABLE family

vars == <<processVars, credVars, prioVars, limitVars, mapVars, family>>

(* Any start of the family that calls, one for the others. *)
Init ==
    /\ family \in {"processes", "credentials", "priorities", "limits", "map"}
    /\ ProcessesInit
    /\ PrioritiesInit
    /\ IF family = "credentials" THEN CredentialsInit
       ELSE Login(Root, CHOOSE g \in Gids : TRUE, {})
    /\ IF family = "limits" THEN LimitsInit
       ELSE Boot([p \in LimitCallers \cup LimitTargets |-> Admin])
    /\ IF family = "map" THEN MapInit
       ELSE LET n == CHOOSE k \in DataLimits : TRUE IN
            Loaded(CHOOSE m \in Maps : Loadable(m, n), n)

Next ==
    /\ UNCHANGED family
    /\ \/ /\ family = "processes" /\ ProcessesNext
          /\ UNCHANGED <<credVars, prioVars, limitVars, mapVars>>
       \/ /\ family = "credentials" /\ CredentialsNext
          /\ UNCHANGED <<processVars, prioVars, limitVars, mapVars>>
       \/ /\ family = "priorities" /\ PrioritiesNext
          /\ UNCHANGED <<processVars, credVars, limitVars, mapVars>>
       \/ /\ family = "limits" /\ LimitsNext
          /\ UNCHANGED <<processVars, credVars, prioVars, mapVars>>
       \/ /\ family = "map" /\ MapNext
          /\ UNCHANGED <<processVars, credVars, prioVars, limitVars>>

Spec == Init /\ [][Next]_vars
==============================================================================
