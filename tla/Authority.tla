------------------------------- MODULE Authority -------------------------------
(***************************************************************************)
(* What the set*id calls promise of one process, however they shuffle its  *)
(* ids: without the capability it can only lose identities, and what it    *)
(* has lost comes back with the program it executes next, or never.        *)
(***************************************************************************)
CONSTANTS Ids, Root, Gids, Caps

VARIABLES
    uids,   \* the users the process is, or may become again
    gids,   \* the groups
    caps,   \* the capabilities it may use
    image   \* the program it runs: TRUE and FALSE in turn

Init ==
    /\ uids \in SUBSET Ids
    /\ gids \in SUBSET Gids
    /\ caps \in SUBSET Caps
    /\ image \in BOOLEAN

GiveUp ==
    /\ uids' \subseteq uids
    /\ gids' \subseteq gids
    /\ caps' \subseteq caps
    /\ UNCHANGED image

ChangeUser ==
    /\ "setuid" \in caps
    /\ uids' \subseteq Ids
    /\ caps' \subseteq caps
    /\ UNCHANGED <<gids, image>>

ChangeGroup ==
    /\ "setgid" \in caps
    /\ gids' \subseteq Gids
    /\ UNCHANGED <<uids, caps, image>>

(* One user and one group come from the program file, all capabilities     *)
(* from being root.                                                        *)
Execute(o, g) ==
    /\ uids' \subseteq uids \cup {o}
    /\ gids' \subseteq gids \cup {g}
    /\ caps' \subseteq Caps
    /\ image' = ~image
    /\ caps' # {} => Root \in uids'

Next ==
    \/ GiveUp
    \/ ChangeUser
    \/ ChangeGroup
    \/ \E o \in Ids, g \in Gids : Execute(o, g)

Spec == Init /\ [][Next]_<<uids, gids, caps, image>>
==============================================================================
