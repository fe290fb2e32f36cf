------------------------------ MODULE Credentials ------------------------------
(***************************************************************************)
(* The set*uid and set*gid system calls of project4/sys.c, made by one     *)
(* process, the only one that changes its credentials.                     *)
(*                                                                         *)
(* Each call checks, changes a copy of the credentials and commits it, so  *)
(* a call is one step, and one that is refused (a bad id, no memory, no    *)
(* permission) changes nothing.  The exception is a security module that   *)
(* refuses after set_user has judged the limit of processes.               *)
(***************************************************************************)
CONSTANTS
    Ids,        \* users
    Root,       \* INIT_USER, user 0
    Gids,       \* groups
    Keep,       \* the argument -1
    Nobody,     \* no user
    SetuidOwners, SetgidOwners,   \* owners of the set-id programs there are
    Limited,    \* the users that may be at RLIMIT_NPROC
    LsmRefuses  \* a security module may refuse a change

ASSUME CredentialsAssumption ==
    /\ Root \in Ids /\ Gids # {}
    /\ Keep \notin Ids \cup Gids
    /\ Nobody \notin Ids
    /\ SetuidOwners \subseteq Ids /\ SetgidOwners \subseteq Gids
    /\ Limited \subseteq Ids
    /\ LsmRefuses \in BOOLEAN

VARIABLES
    uid, gid,    \* real, effective, saved and file system id
    permitted, effective,
    user,        \* cred->user, the account that processes are counted in
    exceeded,    \* PF_NPROC_EXCEEDED
    busy,        \* the users with RLIMIT_NPROC processes, the caller not counted
    dropped,     \* history: the user that privilege was last given up for
    overLimit,   \* history: the real user was at its limit when the process
                 \* became it, and no exec has come since
    denied,      \* history: a change of the real user was refused since
    image        \* history: TRUE and FALSE in turn, with every exec

caps == <<permitted, effective>>
limitHistory == <<overLimit, denied>>
credVars == <<uid, gid, caps, user, exceeded, busy, dropped, limitHistory, image>>

Caps == {"setuid", "setgid"}
IdRecords(S) == [r : S, e : S, s : S, f : S]
All(x) == [r |-> x, e |-> x, s |-> x, f |-> x]

(* The ids that permissions are checked with, and all that are held. *)
Res(id) == {id.r, id.e, id.s}
Held(id) == Res(id) \cup {id.f}

(* A login shell of user u, while those of full have no process left. *)
Login(u, g, full) ==
    /\ uid = All(u) /\ gid = All(g) /\ user = u
    /\ permitted = IF u = Root THEN Caps ELSE {}
    /\ effective = permitted
    /\ exceeded = FALSE
    /\ busy = full
    /\ dropped = Nobody
    /\ overLimit = FALSE /\ denied = FALSE
    /\ image = FALSE

CredentialsInit == \E u \in Ids, g \in Gids, full \in SUBSET Limited : Login(u, g, full)

------------------------------------------------------------------------------
(* The rest of the kernel. *)

(* security_task_fix_setuid, with no PR_SET_KEEPCAPS and no securebits *)
FixSetuid(new) ==
    LET lost == Root \in Res(uid) /\ Root \notin Res(new) IN
    /\ permitted' = IF lost THEN {} ELSE permitted
    /\ effective' = IF lost \/ (uid.e = Root /\ new.e # Root) THEN {}
                    ELSE IF uid.e # Root /\ new.e = Root THEN permitted
                    ELSE effective

ExecRefused == exceeded /\ user \in busy

(* execve of a program that runs as user o and group g: the deferred limit *)
(* is enforced, or forgotten.                                              *)
Execve(o, g) ==
    /\ o \in SetuidOwners \cup {uid.e}
    /\ g \in SetgidOwners \cup {gid.e}
    /\ ~ExecRefused
    /\ uid' = [r |-> uid.r, e |-> o, s |-> o, f |-> o]
    /\ gid' = [r |-> gid.r, e |-> g, s |-> g, f |-> g]
    /\ permitted' = IF Root \in {uid.r, o} THEN Caps ELSE {}
    /\ effective' = IF o = Root THEN Caps ELSE {}
    /\ exceeded' = FALSE
    /\ overLimit' = FALSE /\ denied' = FALSE
    /\ dropped' = Nobody
    /\ image' = ~image
    /\ UNCHANGED <<user, busy>>

CapSet ==
    /\ permitted' \in SUBSET permitted
    /\ effective' \in SUBSET permitted'
    /\ UNCHANGED <<uid, gid, user, exceeded, busy, dropped, limitHistory, image>>

(* Others fork and exit. *)
Others ==
    /\ busy' \in SUBSET Limited
    /\ UNCHANGED <<uid, gid, caps, user, exceeded, dropped, limitHistory, image>>

------------------------------------------------------------------------------
(* sys.c *)

Capable(cap) == cap \in effective

Or(x, old) == IF x = Keep THEN old ELSE x

(* Mutant: anyone may change the real id. *)
MayReAnyReal(id, r, e, cap) ==
    \/ Capable(cap)
    \/ r \in {Keep} \cup Gids \cup Ids /\ e \in {Keep, id.r, id.e, id.s}

(* Mutant: the saved id is left. *)
NewReKeepsSaved(id, r, e) == [r |-> Or(r, id.r), e |-> Or(e, id.e), s |-> id.s, f |-> Or(e, id.e)]

(* setreuid and setregid: who may, and what comes of it.  A new real id,   *)
(* or an effective one that differs from the real one, is saved too.       *)
MayRe(id, r, e, cap) ==
    \/ Capable(cap)
    \/ r \in {Keep, id.r, id.e} /\ e \in {Keep, id.r, id.e, id.s}

NewRe(id, r, e) ==
    LET new == Or(e, id.e) IN
    [r |-> Or(r, id.r),
     e |-> new,
     s |-> IF r # Keep \/ e \notin {Keep, id.r} THEN new ELSE id.s,
     f |-> new]

(* setresuid and setresgid *)
MayRes(id, r, e, s, cap) == Capable(cap) \/ {r, e, s} \subseteq {Keep} \cup Res(id)

NewRes(id, r, e, s) ==
    [r |-> Or(r, id.r), e |-> Or(e, id.e), s |-> Or(s, id.s), f |-> Or(e, id.e)]

(* setuid and setgid *)
MaySet(id, x, cap) == Capable(cap) \/ x \in {id.r, id.s}

NewSet(id, x, cap) == IF Capable(cap) THEN All(x) ELSE [id EXCEPT !.e = x, !.f = x]

(* setfsuid and setfsgid; they return the old id whatever they did *)
MaySetFs(id, x, cap) == Capable(cap) \/ x \in Held(id)

(* Mutant: a user at its limit leaves the flag as it is. *)
SetUserOnlyClears(r) == exceeded' = IF r \in busy \ {Root} THEN exceeded ELSE FALSE

(* set_user judges the limit of the new real user, before the commit. *)
SetUser(r) == exceeded' = (r \in busy \ {Root})

(* What set*id(u) with all ids given as u means to the caller. *)
Drops(u) == dropped' = IF u \in Ids \ {Root} THEN u ELSE dropped

(* The end of setreuid, setuid and setresuid; the module that refuses is   *)
(* asked after set_user.                                                   *)
ChangeUid(new, drop) ==
    LET moves == new.r # uid.r IN
    /\ IF moves THEN SetUser(new.r) ELSE UNCHANGED exceeded
    /\ \/ /\ uid' = new
          /\ user' = IF moves THEN new.r ELSE user
          /\ FixSetuid(new)
          /\ Drops(drop)
          /\ overLimit' = IF moves THEN new.r \in busy \ {Root} ELSE overLimit
          /\ denied' = (denied /\ ~moves)
       \/ /\ LsmRefuses
          /\ denied' = (denied \/ moves)
          /\ UNCHANGED <<uid, user, caps, dropped, overLimit>>
    /\ UNCHANGED <<gid, busy, image>>

SetReUid(r, e) ==
    /\ MayRe(uid, r, e, "setuid")
    /\ ChangeUid(NewRe(uid, r, e), IF r = e THEN r ELSE Keep)

SetUid(u) ==
    /\ MaySet(uid, u, "setuid")
    /\ ChangeUid(NewSet(uid, u, "setuid"), IF Capable("setuid") THEN u ELSE Keep)

SetResUid(r, e, s) ==
    /\ MayRes(uid, r, e, s, "setuid")
    /\ ChangeUid(NewRes(uid, r, e, s), IF {r, e, s} = {r} THEN r ELSE Keep)

GetResUid == <<uid.r, uid.e, uid.s>>

SetFsUid(u) ==
    /\ MaySetFs(uid, u, "setuid")
    /\ uid' = [uid EXCEPT !.f = u]
    /\ UNCHANGED <<gid, caps, user, exceeded, busy, dropped, limitHistory, image>>

ChangeGid(new) ==
    /\ gid' = new
    /\ UNCHANGED <<uid, caps, user, exceeded, busy, dropped, limitHistory, image>>

SetReGid(r, e) == MayRe(gid, r, e, "setgid") /\ ChangeGid(NewRe(gid, r, e))
SetGid(g) == MaySet(gid, g, "setgid") /\ ChangeGid(NewSet(gid, g, "setgid"))
SetResGid(r, e, s) == MayRes(gid, r, e, s, "setgid") /\ ChangeGid(NewRes(gid, r, e, s))
GetResGid == <<gid.r, gid.e, gid.s>>
SetFsGid(g) == MaySetFs(gid, g, "setgid") /\ ChangeGid([gid EXCEPT !.f = g])

------------------------------------------------------------------------------
UidCalls ==
    \/ \E u \in Ids : SetUid(u) \/ SetFsUid(u)
    \/ \E r, e \in Ids \cup {Keep} :
          SetReUid(r, e) \/ \E s \in Ids \cup {Keep} : SetResUid(r, e, s)

GidCalls ==
    \/ \E g \in Gids : SetGid(g) \/ SetFsGid(g)
    \/ \E r, e \in Gids \cup {Keep} :
          SetReGid(r, e) \/ \E s \in Gids \cup {Keep} : SetResGid(r, e, s)

Execves == \E o \in Ids, g \in Gids : Execve(o, g)

CredentialsNext == UidCalls \/ GidCalls \/ Execves \/ CapSet \/ Others

CredentialsSpec == CredentialsInit /\ [][CredentialsNext]_credVars
------------------------------------------------------------------------------
(* Every variable stays in its range; -1 is never stored as an id. *)
CredentialsTypeOK ==
    /\ uid \in IdRecords(Ids) /\ gid \in IdRecords(Gids)
    /\ permitted \subseteq Caps /\ effective \subseteq permitted
    /\ user \in Ids
    /\ exceeded \in BOOLEAN
    /\ busy \subseteq Limited
    /\ dropped \in Ids \cup {Nobody}
    /\ overLimit \in BOOLEAN /\ denied \in BOOLEAN
    /\ image \in BOOLEAN

(* Processes are counted in the account of the real user: a call that      *)
(* changes the real uid has also called set_user (lines 630, 708, 782).    *)
UserMatchesUid == user = uid.r

(* A process with a capability can still become root: one that has left    *)
(* root in all three ids has been stripped of everything.                  *)
PrivilegeNeedsRoot == permitted # {} => Root \in Res(uid)

(* "This makes it possible for a setuid program to completely drop its     *)
(* privileges" (lines 592-595, and 675-677 for setuid): after setreuid(u,  *)
(* u), setresuid(u, u, u) or root's setuid(u), no sequence of calls brings *)
(* another identity or a capability back before the next exec.             *)
DropsStick ==
    dropped # Nobody =>
        /\ GetResUid = <<dropped, dropped, dropped>> /\ uid.f = dropped
        /\ permitted = {}

(* set*uid does not fail at the limit of processes; the failure is         *)
(* deferred to exec (lines 571-582).  Whatever the process calls in        *)
(* between, exec is refused to one that became its real user while that    *)
(* user was at the limit, and still is, and to no other.  A module that    *)
(* refuses a change of the real user after set_user has judged it (lines   *)
(* 630 and 655, 708 and 717, 782 and 794) leaves a verdict on a user that  *)
(* the process has not become, and nothing is said then.                   *)
LimitReachesExec == denied \/ (ExecRefused <=> overLimit /\ uid.r \in busy)

(* The calls keep the promises of Authority: what a process may become is  *)
(* what it holds in its ids, and the capabilities it may switch on.        *)
A == INSTANCE Authority WITH uids <- Held(uid), gids <- Held(gid), caps <- permitted
Authorized == A!Spec
==============================================================================
