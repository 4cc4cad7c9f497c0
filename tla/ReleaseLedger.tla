---------------------------- MODULE ReleaseLedger ----------------------------
(***************************************************************************)
(* What a release promises its users, whatever runs, reruns, outages and   *)
(* maintainers do: a version becomes public once, from one commit, and its *)
(* Git tag and its GitHub Release are made for that commit or not at all.  *)
(* Only what names the published commit counts here: a tag that somebody   *)
(* pushed at another commit is no tag of the release.                      *)
(***************************************************************************)
EXTENDS Naturals

CONSTANTS Releases, Shas

VARIABLES public,  \* per version the commit npm published, 0 while there is none
          tagged,  \* whether the Git tag of the version names that commit
          released \* whether the GitHub Release of the version exists

ledgerVars == <<public, tagged, released>>

LedgerInit ==
    /\ public = [v \in Releases |-> 0]
    /\ tagged = [v \in Releases |-> FALSE]
    /\ released = [v \in Releases |-> FALSE]

(* A maintainer approves a staged package; a tag at its commit may exist already. *)
MakePublic(v, s) ==
    /\ public[v] = 0
    /\ public' = [public EXCEPT ![v] = s]
    /\ \E t \in BOOLEAN : tagged' = [tagged EXCEPT ![v] = t]
    /\ UNCHANGED released

MakeTag(v) ==
    /\ public[v] # 0 /\ ~tagged[v]
    /\ tagged' = [tagged EXCEPT ![v] = TRUE]
    /\ UNCHANGED <<public, released>>

MakeRelease(v) ==
    /\ public[v] # 0 /\ tagged[v] /\ ~released[v]
    /\ released' = [released EXCEPT ![v] = TRUE]
    /\ UNCHANGED <<public, tagged>>

LedgerNext ==
    \E v \in Releases : MakeTag(v) \/ MakeRelease(v) \/ \E s \in Shas : MakePublic(v, s)

LedgerSpec == LedgerInit /\ [][LedgerNext]_ledgerVars
=============================================================================
