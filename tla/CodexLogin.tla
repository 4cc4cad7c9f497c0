------------------------------ MODULE CodexLogin ------------------------------
(***************************************************************************)
(* Logging a ChatGPT account in: the dashboard's dialog                    *)
(* (gui/src/components/use-add-codex-account-oauth.ts and its reducer)     *)
(* against the proxy (internal/server/codex_auth_login.go), its login      *)
(* owner (internal/oauth/loginown), its pending file                       *)
(* (internal/oauth/chatgpt/login.go) and the credential store.             *)
(*                                                                         *)
(* A login is numbered by the POST that asks for it; the number stands for *)
(* its flow id, its state and its verifier.  An authorization the operator *)
(* gives in the browser (a grant) reaches the proxy through the callback   *)
(* listener or as pasted input, and the handler that takes it runs its     *)
(* steps below while everyone else runs theirs.  An identity stands for a  *)
(* ChatGPT account id with its email.  Notices, the retry streak that only *)
(* words one, and the wording of errors are left out.                      *)
(***************************************************************************)
EXTENDS Naturals, FiniteSets

CONSTANTS LoginIds,    \* ids the operator names: of a new row, or of one to re-authenticate
          Identities,  \* ChatGPT accounts
          Absent,      \* no id, no row, no credential
          MaxLogins,   \* bound: login POSTs
          MaxSessions, \* bound: times the dialog is mounted
          MaxGrants,   \* bound: authorizations that reach the proxy
          MaxFaults,   \* bound: disk, network and provider failures
          MaxRestarts  \* bound: restarts of the proxy

ASSUME LoginAssumption ==
    /\ MaxLogins \in Nat /\ MaxSessions \in Nat /\ MaxGrants \in Nat
    /\ MaxFaults \in Nat /\ MaxRestarts \in Nat
    /\ Absent \notin LoginIds /\ Absent \notin Identities

VARIABLES owner,       \* loginown's slot of "chatgpt"
          pendingFile, \* the login oauth-pending-chatgpt.json belongs to, 0 for no file
          listener,    \* the login whose goroutine serves port 1455, 0 for none
          logins,      \* codexLoginState, and the POST of each login
          credentials, \* codex-accounts.json
          poolRows,    \* codexAccounts of config.json
          grants,      \* the handlers of callbacks and of pasted codes
          cancels,     \* the handlers of cancel POSTs
          dialog,      \* the mounted dialog and its LoginAttempt
          reads,       \* its status reads in flight
          added,       \* the logins it reported with onAdded
          faults,
          restarts

proxyVars == <<owner, pendingFile, listener, credentials, poolRows, grants>>
loginVars == <<proxyVars, logins, cancels, dialog, reads, added, faults, restarts>>

Flows == 1 .. MaxLogins
Grants == Flows \X {"browser", "paste"}

NoLogin ==
    [pc |-> "idle", id |-> Absent, reauth |-> FALSE, gen |-> 0, status |-> "unknown",
     cancelled |-> FALSE, stored |-> {}]
NoGrant ==
    [step |-> "none", flow |-> 0, who |-> Absent, seen |-> [id \in LoginIds |-> Absent],
     session |-> 0, spent |-> FALSE]

createLoginAttempt(session, reauth) ==
    [session |-> session, open |-> TRUE, reauth |-> reauth,
     phase |-> IF reauth = Absent THEN "choosing" ELSE "authorizing",
     flow |-> 0, watching |-> 0, reading |-> FALSE, manual |-> "idle", post |-> 0]

LoginInit ==
    /\ owner = [gen |-> 0, active |-> FALSE] /\ pendingFile = 0 /\ listener = 0
    /\ logins = [f \in Flows |-> NoLogin]
    /\ poolRows \in [LoginIds -> Identities \union {Absent}]
    /\ credentials \in [LoginIds -> {[who |-> w, flow |-> 0] : w \in Identities \union {Absent}}]
    /\ \A id \in LoginIds : credentials[id].who \in {poolRows[id], Absent}
    /\ grants = [g \in Grants |-> NoGrant] /\ cancels = {} /\ reads = {}
    /\ dialog = [createLoginAttempt(0, Absent) EXCEPT !.open = FALSE]
    /\ added = {} /\ faults = 0 /\ restarts = 0

Fault == faults < MaxFaults /\ faults' = faults + 1

-----------------------------------------------------------------------------
(* The dialog opens a login. *)

(* The login POST goes out; the one before it, if it has not answered, is aborted. *)
requestLogin(d, id, reauth) ==
    \E f \in Flows :
        /\ \A g \in Flows : (g < f) <=> (logins[g].pc # "idle")
        /\ logins' = [logins EXCEPT ![f] = [@ EXCEPT !.pc = "sent", !.id = id, !.reauth = reauth]]
        /\ dialog' = [d EXCEPT !.post = f]

OpenToAdd ==
    /\ ~dialog.open /\ dialog.session < MaxSessions
    /\ dialog' = createLoginAttempt(dialog.session + 1, Absent)
    /\ UNCHANGED <<proxyVars, logins, cancels, reads, added, faults, restarts>>

(* A dialog mounted to re-authenticate starts its login by itself. *)
OpenToReauth(id) ==
    /\ ~dialog.open /\ dialog.session < MaxSessions
    /\ requestLogin(createLoginAttempt(dialog.session + 1, id), id, TRUE)
    /\ UNCHANGED <<proxyVars, cancels, reads, added, faults, restarts>>

startOAuth(id) ==
    /\ dialog.open /\ dialog.phase = "choosing"
    /\ requestLogin(dialog, id, FALSE)
    /\ UNCHANGED <<proxyVars, cancels, reads, added, faults, restarts>>

watchFlow ==
    /\ dialog.post # 0 /\ logins[dialog.post].pc = "answered"
    /\ dialog' = [dialog EXCEPT !.phase = "authorizing", !.flow = dialog.post,
                                !.watching = dialog.post, !.reading = FALSE, !.post = 0]
    /\ logins' = [logins EXCEPT ![dialog.post].pc = "shown"]
    /\ UNCHANGED <<proxyVars, cancels, reads, added, faults, restarts>>

LoginRefused ==
    /\ dialog.post # 0 /\ logins[dialog.post].pc = "refused"
    /\ dialog' = [dialog EXCEPT !.post = 0]
    /\ UNCHANGED <<proxyVars, logins, cancels, reads, added, faults, restarts>>

-----------------------------------------------------------------------------
(* The proxy's login owner. *)

Owns(f) == owner.active /\ owner.gen = logins[f].gen   \* Assert

OwnerClaimed == [gen |-> owner.gen + 1, active |-> TRUE]
OwnerCancelled == IF owner.active THEN [gen |-> owner.gen + 1, active |-> FALSE] ELSE owner
OwnerReleased(gen) == IF owner.gen = gen THEN [owner EXCEPT !.active = FALSE] ELSE owner

-----------------------------------------------------------------------------
(* serveCodexAuthLogin, between whose steps other requests are served. *)

LoginRefuse(f) ==
    /\ logins[f].pc = "sent"
    /\ \/ logins[f].reauth /\ poolRows[logins[f].id] = Absent /\ UNCHANGED faults
       \/ Fault
    /\ logins' = [logins EXCEPT ![f].pc = "refused"]
    /\ UNCHANGED <<proxyVars, cancels, dialog, reads, added, restarts>>

LoginSave(f) ==
    /\ logins[f].pc = "sent" /\ (logins[f].reauth => poolRows[logins[f].id] # Absent)
    /\ pendingFile' = f
    /\ logins' = [logins EXCEPT ![f].pc = "saved"]
    /\ UNCHANGED <<owner, listener, credentials, poolRows, grants, cancels, dialog, reads, added,
                   faults, restarts>>

LoginClaim(f) ==
    /\ logins[f].pc = "saved"
    /\ owner' = OwnerClaimed
    /\ logins' = [logins EXCEPT ![f] = [@ EXCEPT !.pc = "claimed", !.gen = OwnerClaimed.gen]]
    /\ UNCHANGED <<pendingFile, listener, credentials, poolRows, grants, cancels, dialog, reads,
                   added, faults, restarts>>

(* The pending logins expire, this one is registered, and its goroutine listens for the   *)
(* callback unless the port is taken, by an earlier login or by another program.           *)
LoginRegister(f) ==
    /\ logins[f].pc = "claimed"
    /\ logins' = [g \in Flows |->
            IF g = f THEN [logins[f] EXCEPT !.pc = "answered", !.status = "pending"]
            ELSE IF logins[g].status = "pending" THEN [logins[g] EXCEPT !.status = "expired"]
            ELSE logins[g]]
    /\ \/ listener = 0 /\ listener' = f /\ UNCHANGED faults
       \/ listener # 0 /\ UNCHANGED <<listener, faults>>
       \/ listener = 0 /\ Fault /\ UNCHANGED listener
    /\ UNCHANGED <<owner, pendingFile, credentials, poolRows, grants, cancels, dialog, reads, added,
                   restarts>>

-----------------------------------------------------------------------------
(* serveCodexAuthLoginCancel: the owner first, then the file, then the flow it names. *)

(* Mutant: the handler leaves the login owner alone. *)
CancelKeepsOwner(x) ==
    /\ x.step = "sent"
    /\ cancels' = (cancels \ {x}) \union {[x EXCEPT !.step = "owner"]}
    /\ UNCHANGED <<proxyVars, logins, dialog, reads, added, faults, restarts>>

CancelOwner(x) ==
    /\ x.step = "sent"
    /\ owner' = OwnerCancelled
    /\ cancels' = (cancels \ {x}) \union {[x EXCEPT !.step = "owner"]}
    /\ UNCHANGED <<pendingFile, listener, credentials, poolRows, grants, logins, dialog, reads, added,
                   faults, restarts>>

CancelFile(x) ==
    /\ x.step = "owner"
    /\ pendingFile' = 0
    /\ cancels' = (cancels \ {x}) \union {[x EXCEPT !.step = "file"]}
    /\ UNCHANGED <<owner, listener, credentials, poolRows, grants, logins, dialog, reads, added,
                   faults, restarts>>

CancelFlow(x) ==
    /\ x.step = "file"
    /\ logins' = IF logins[x.flow].status = "unknown" THEN logins
                 ELSE [logins EXCEPT ![x.flow] = [@ EXCEPT !.status = "expired", !.cancelled = TRUE]]
    /\ cancels' = cancels \ {x}
    /\ UNCHANGED <<proxyVars, dialog, reads, added, faults, restarts>>

-----------------------------------------------------------------------------
(* A grant: Complete, then commitChatGPTLogin of the flow the handler serves. *)

(* The provider sends the browser to port 1455, whose listener serves the flow it was      *)
(* started for.                                                                            *)
BrowserRedirect(f, who) ==
    /\ logins[f].pc = "shown" /\ listener # 0
    /\ grants[<<f, "browser">>] = NoGrant /\ Cardinality({g \in Grants : grants[g] # NoGrant}) < MaxGrants
    /\ grants' = [grants EXCEPT ![<<f, "browser">>] =
                     [NoGrant EXCEPT !.step = "sent", !.flow = listener, !.who = who]]
    /\ UNCHANGED <<owner, pendingFile, listener, credentials, poolRows, logins, cancels, dialog, reads,
                   added, faults, restarts>>

submitManualCode(who) ==
    /\ dialog.flow # 0 /\ dialog.manual = "idle"
    /\ grants[<<dialog.flow, "paste">>] = NoGrant
    /\ Cardinality({g \in Grants : grants[g] # NoGrant}) < MaxGrants
    /\ dialog' = [dialog EXCEPT !.manual = "submitting"]
    /\ grants' = [grants EXCEPT ![<<dialog.flow, "paste">>] =
                     [NoGrant EXCEPT !.step = "sent", !.flow = dialog.flow, !.who = who,
                                     !.session = dialog.session]]
    /\ UNCHANGED <<owner, pendingFile, listener, credentials, poolRows, logins, cancels, reads, added,
                   faults, restarts>>

(* The answer of the code POST, to the dialog that sent it while that is mounted.  It is   *)
(* applied to whatever login the dialog shows by then.                                     *)
CodeAnswered(g) ==
    /\ g[2] = "paste" /\ grants[g].step \in {"failed", "finished"}
    /\ grants' = [grants EXCEPT ![g].step = "over"]
    /\ dialog' = IF dialog.open /\ dialog.session = grants[g].session /\ dialog.phase = "authorizing"
                 THEN [dialog EXCEPT !.manual = IF grants[g].step = "failed" THEN "idle" ELSE "awaiting"]
                 ELSE dialog
    /\ UNCHANGED <<owner, pendingFile, listener, credentials, poolRows, logins, cancels, reads, added,
                   faults, restarts>>

Reached(g, step) == [grants EXCEPT ![g] = [@ EXCEPT !.step = step, !.seen = NoGrant.seen]]

(* setCodexLoginError, whatever the flow's status is. *)
setCodexLoginError(f) ==
    IF logins[f].status = "unknown" THEN logins ELSE [logins EXCEPT ![f].status = "error"]

(* A pasted code is refused when its flow is not pending, and leaves the flow as it is. *)
CodeRefused(g) ==
    /\ g[2] = "paste" /\ grants[g].step = "sent" /\ logins[grants[g].flow].status # "pending"
    /\ grants' = Reached(g, "failed")
    /\ UNCHANGED <<owner, pendingFile, listener, credentials, poolRows, logins, cancels, dialog, reads,
                   added, faults, restarts>>

(* Load, and the state the callback carries: both need the pending file of this very login. *)
LoadPending(g) ==
    /\ grants[g].step = "sent" /\ (g[2] = "paste" => logins[grants[g].flow].status = "pending")
    /\ \/ /\ pendingFile = g[1] /\ grants' = Reached(g, "loaded")
          /\ UNCHANGED <<pendingFile, logins, faults>>
       \/ /\ pendingFile # g[1] /\ grants' = Reached(g, "failed")
          /\ logins' = setCodexLoginError(grants[g].flow) /\ UNCHANGED <<pendingFile, faults>>
       \/ /\ Fault /\ pendingFile # 0 /\ pendingFile' = 0   \* past its time to live
          /\ grants' = Reached(g, "failed") /\ logins' = setCodexLoginError(grants[g].flow)
    /\ UNCHANGED <<owner, listener, credentials, poolRows, cancels, dialog, reads, added, restarts>>

(* The provider takes the code, and Consume removes whatever pending file is there by then. *)
Exchange(g) ==
    /\ grants[g].step = "loaded"
    /\ \/ /\ pendingFile' = 0 /\ UNCHANGED <<logins, faults>>
          /\ grants' = [grants EXCEPT ![g] = [@ EXCEPT !.step = "exchanged", !.spent = TRUE]]
       \/ /\ Fault /\ UNCHANGED pendingFile
          /\ grants' = Reached(g, "failed") /\ logins' = setCodexLoginError(grants[g].flow)
    /\ UNCHANGED <<owner, listener, credentials, poolRows, cancels, dialog, reads, added, restarts>>

(* commitChatGPTLogin gives up at grant g. *)
CommitFails(g) ==
    /\ grants' = Reached(g, "failed") /\ logins' = setCodexLoginError(grants[g].flow)

(* A re-authentication must come back as the account it was asked for. *)
SameIdentity(f, who) ==
    logins[f].reauth => IF credentials[logins[f].id].who # Absent THEN credentials[logins[f].id].who = who
                        ELSE poolRows[logins[f].id] = who

chatgptAccountCollision(f, who) ==
    \E id \in LoginIds : /\ ~(logins[f].reauth /\ id = logins[f].id)
                         /\ poolRows[id] # Absent /\ credentials[id].who = who

(* The rows are read here and written back, with the login's own, by CommitConfig. *)
CommitCheck(g) ==
    /\ grants[g].step = "exchanged"
    /\ LET f == grants[g].flow
       IN  \/ /\ logins[f].status = "pending" /\ SameIdentity(f, grants[g].who)
              /\ ~chatgptAccountCollision(f, grants[g].who) /\ Owns(f)
              /\ grants' = [grants EXCEPT ![g] = [@ EXCEPT !.step = "checked", !.seen = poolRows]]
              /\ UNCHANGED logins
           \/ /\ \/ logins[f].status # "pending" \/ ~SameIdentity(f, grants[g].who)
                 \/ chatgptAccountCollision(f, grants[g].who) \/ ~Owns(f)
              /\ CommitFails(g)
    /\ UNCHANGED <<owner, pendingFile, listener, credentials, poolRows, cancels, dialog, reads, added,
                   faults, restarts>>

(* Mutant: PutChecked takes the lock and does not ask its gate again. *)
CommitUngated(g) ==
    /\ grants[g].step = "checked" /\ \A h \in Grants : grants[h].step # "gated"
    /\ grants' = [grants EXCEPT ![g].step = "gated"]
    /\ UNCHANGED <<owner, pendingFile, listener, credentials, poolRows, logins, cancels, dialog, reads,
                   added, faults, restarts>>

(* PutChecked: under the store's lock the gate asserts the owner. *)
CommitGate(g) ==
    /\ grants[g].step = "checked" /\ \A h \in Grants : grants[h].step # "gated"
    /\ IF Owns(grants[g].flow)
       THEN grants' = [grants EXCEPT ![g].step = "gated"] /\ UNCHANGED logins
       ELSE CommitFails(g)
    /\ UNCHANGED <<owner, pendingFile, listener, credentials, poolRows, cancels, dialog, reads, added,
                   faults, restarts>>

(* The store is written, and its lock released. *)
CommitPersist(g) ==
    /\ grants[g].step = "gated"
    /\ LET f == grants[g].flow
       IN  \/ /\ credentials' = [credentials EXCEPT ![logins[f].id] = [who |-> grants[g].who, flow |-> f]]
              /\ logins' = [logins EXCEPT ![f].stored = @ \union {"tokens"}]
              /\ grants' = [grants EXCEPT ![g].step = "persisted"] /\ UNCHANGED faults
           \/ Fault /\ CommitFails(g) /\ UNCHANGED credentials
    /\ UNCHANGED <<owner, pendingFile, listener, poolRows, cancels, dialog, reads, added, restarts>>

(* Mutant: the error of the config transaction is dropped. *)
CommitConfigAnyway(g) ==
    /\ grants[g].step = "persisted" /\ grants' = Reached(g, "configured")
    /\ LET f == grants[g].flow
       IN  \/ /\ poolRows' = [grants[g].seen EXCEPT ![logins[f].id] = grants[g].who]
              /\ logins' = [logins EXCEPT ![f].stored = @ \union {"row"}] /\ UNCHANGED faults
           \/ Fault /\ UNCHANGED <<poolRows, logins>>
    /\ UNCHANGED <<owner, pendingFile, listener, credentials, cancels, dialog, reads, added, restarts>>

(* The config transaction.  It fails before the file is written, or when the audit record  *)
(* of a written file is not.                                                               *)
CommitConfig(g) ==
    /\ grants[g].step = "persisted"
    /\ LET f == grants[g].flow
           written == [grants[g].seen EXCEPT ![logins[f].id] = grants[g].who]
       IN  \/ /\ poolRows' = written /\ grants' = Reached(g, "configured")
              /\ logins' = [logins EXCEPT ![f].stored = @ \union {"row"}] /\ UNCHANGED faults
           \/ Fault /\ CommitFails(g) /\ poolRows' \in {poolRows, written}
    /\ UNCHANGED <<owner, pendingFile, listener, credentials, cancels, dialog, reads, added, restarts>>

CommitFinish(g) ==
    /\ grants[g].step = "configured"
    /\ IF Owns(grants[g].flow)
       THEN logins' = [logins EXCEPT ![grants[g].flow].status = "done"] /\ grants' = Reached(g, "done")
       ELSE CommitFails(g)
    /\ UNCHANGED <<owner, pendingFile, listener, credentials, poolRows, cancels, dialog, reads, added,
                   faults, restarts>>

CommitRelease(g) ==
    /\ grants[g].step = "done"
    /\ owner' = OwnerReleased(logins[grants[g].flow].gen)
    /\ grants' = Reached(g, "finished")
    /\ UNCHANGED <<pendingFile, listener, credentials, poolRows, logins, cancels, dialog, reads, added,
                   faults, restarts>>

-----------------------------------------------------------------------------
(* The dialog watches its flow. *)

(* Mutant: haltPolling stops the timer and leaves the open read alone. *)
keepReads(open) == open

(* What haltPolling leaves of the status reads: their signal is aborted, and an aborted    *)
(* read is decoded to "abort" however it settles.                                          *)
abortReads(open) == {}

(* haltPolling, with the flow forgotten and the manual code reset. *)
attemptEnded(d) ==
    [d EXCEPT !.watching = 0, !.reading = FALSE, !.flow = 0, !.manual = "idle"]

(* returned-to-choosing, which a re-authentication does not do. *)
backToChoosing(d) == IF d.reauth = Absent THEN [d EXCEPT !.phase = "choosing"] ELSE d

abandonFlow(f) == cancels' = cancels \union {[flow |-> f, step |-> "sent"]}

PollTick ==
    /\ dialog.watching # 0 /\ ~dialog.reading
    /\ reads' = reads \union {[flow |-> dialog.watching, answer |-> "none"]}
    /\ dialog' = [dialog EXCEPT !.reading = TRUE]
    /\ UNCHANGED <<proxyVars, logins, cancels, added, faults, restarts>>

(* serveCodexAuthLoginStatus: a flow the process does not know has expired. *)
ServeStatus(r) ==
    /\ r.answer = "none"
    /\ reads' = (reads \ {r}) \union {[r EXCEPT !.answer =
                    IF logins[r.flow].status = "unknown" THEN "expired" ELSE logins[r.flow].status]}
    /\ UNCHANGED <<proxyVars, logins, cancels, dialog, added, faults, restarts>>

(* decodeCodexAuthPollTick and applyPollDecision. *)
StatusRead(r) ==
    /\ r.answer # "none"
    /\ CASE r.answer = "pending" ->
              /\ dialog' = [dialog EXCEPT !.reading = FALSE]
              /\ reads' = reads \ {r} /\ UNCHANGED added
         [] r.answer = "done" ->
              /\ dialog' = [attemptEnded(dialog) EXCEPT !.open = FALSE, !.post = 0]
              /\ reads' = abortReads(reads \ {r}) /\ added' = added \union {r.flow}
         [] OTHER ->
              /\ dialog' = backToChoosing(attemptEnded(dialog))
              /\ reads' = abortReads(reads \ {r}) /\ UNCHANGED added
    /\ UNCHANGED <<proxyVars, logins, cancels, faults, restarts>>

(* Mutant: a read that fails does not clear pollInFlight. *)
StatusStuck(r) ==
    /\ Fault
    /\ reads' = reads \ {r}
    /\ UNCHANGED <<proxyVars, logins, cancels, dialog, added, restarts>>

(* The read fails or outlasts its tick; the next tick tries again. *)
StatusLost(r) ==
    /\ Fault
    /\ reads' = reads \ {r} /\ dialog' = [dialog EXCEPT !.reading = FALSE]
    /\ UNCHANGED <<proxyVars, logins, cancels, added, restarts>>

onLoginWindowClosed ==
    /\ dialog.watching # 0
    /\ abandonFlow(dialog.flow)
    /\ dialog' = backToChoosing(attemptEnded(dialog)) /\ reads' = abortReads(reads)
    /\ UNCHANGED <<proxyVars, logins, added, faults, restarts>>

(* closeModal, or the page goes away: the login POST is aborted and the flow abandoned. *)
closeModal ==
    /\ dialog.open
    /\ dialog' = [attemptEnded(dialog) EXCEPT !.open = FALSE, !.post = 0]
    /\ reads' = abortReads(reads)
    /\ IF dialog.flow = 0 THEN UNCHANGED cancels ELSE abandonFlow(dialog.flow)
    /\ UNCHANGED <<proxyVars, logins, added, faults, restarts>>

-----------------------------------------------------------------------------
(* The proxy stops and starts again: what it kept in memory is gone, the files are not,    *)
(* and every request it was serving fails.                                                 *)
RestartProxy ==
    /\ restarts < MaxRestarts /\ restarts' = restarts + 1
    /\ owner' = [gen |-> 0, active |-> FALSE] /\ listener' = 0 /\ cancels' = {}
    /\ logins' = [f \in Flows |->
            [logins[f] EXCEPT !.gen = 0, !.status = "unknown", !.cancelled = FALSE,
                              !.pc = IF @ \in {"idle", "shown"} THEN @ ELSE "refused"]]
    /\ grants' = [g \in Grants |->
            IF grants[g].step \in {"none", "over"} THEN grants[g] ELSE Reached(g, "failed")[g]]
    /\ reads' = {} /\ dialog' = [dialog EXCEPT !.reading = FALSE]
    /\ UNCHANGED <<pendingFile, credentials, poolRows, added, faults>>

DialogNext ==
    \/ OpenToAdd \/ (\E id \in LoginIds : OpenToReauth(id) \/ startOAuth(id))
    \/ watchFlow \/ LoginRefused \/ onLoginWindowClosed \/ closeModal
    \/ PollTick \/ (\E r \in reads : ServeStatus(r) \/ StatusRead(r) \/ StatusLost(r))
    \/ \E who \in Identities : submitManualCode(who)

ProxyNext ==
    \/ \E f \in Flows : LoginRefuse(f) \/ LoginSave(f) \/ LoginClaim(f) \/ LoginRegister(f)
    \/ \E x \in cancels : CancelOwner(x) \/ CancelFile(x) \/ CancelFlow(x)
    \/ \E f \in Flows, who \in Identities : BrowserRedirect(f, who)
    \/ \E g \in Grants :
         \/ CodeAnswered(g) \/ CodeRefused(g) \/ LoadPending(g) \/ Exchange(g) \/ CommitCheck(g)
         \/ CommitGate(g) \/ CommitPersist(g) \/ CommitConfig(g) \/ CommitFinish(g) \/ CommitRelease(g)
    \/ RestartProxy

LoginNext == DialogNext \/ ProxyNext
LoginSpec == LoginInit /\ [][LoginNext]_loginVars

(* While its tab is visible the poll timer fires, and an answer that came is read. *)
LoginFairness ==
    /\ WF_loginVars(PollTick)
    /\ WF_loginVars(\E r \in reads : ServeStatus(r)) /\ WF_loginVars(\E r \in reads : StatusRead(r))

-----------------------------------------------------------------------------
Statuses == {"unknown", "pending", "done", "error", "expired"}
Stages == {"idle", "sent", "saved", "claimed", "answered", "refused", "shown"}
Steps == {"none", "sent", "loaded", "exchanged", "checked", "gated", "persisted", "configured", "done",
          "finished", "failed", "over"}
MaybeFlow == 0 .. MaxLogins
MaybeId == LoginIds \union {Absent}
MaybeIdentity == Identities \union {Absent}

Owners == [gen : Nat, active : BOOLEAN]
Logins ==
    [pc : Stages, id : MaybeId, reauth : BOOLEAN, gen : Nat, status : Statuses, cancelled : BOOLEAN,
     stored : SUBSET {"tokens", "row"}]
Credentials == [who : MaybeIdentity, flow : MaybeFlow]
GrantHandlers ==
    [step : Steps, flow : MaybeFlow, who : MaybeIdentity, seen : [LoginIds -> MaybeIdentity],
     session : Nat, spent : BOOLEAN]
CancelHandlers == [flow : Flows, step : {"sent", "owner", "file"}]
Dialogs ==
    [session : Nat, open : BOOLEAN, reauth : MaybeId, phase : {"choosing", "authorizing"},
     flow : MaybeFlow, watching : MaybeFlow, reading : BOOLEAN,
     manual : {"idle", "submitting", "awaiting"}, post : MaybeFlow]
StatusReads == [flow : Flows, answer : Statuses \union {"none"}]

(* Every variable has its type. *)
LoginTypeOK ==
    /\ owner \in Owners /\ pendingFile \in MaybeFlow /\ listener \in MaybeFlow
    /\ logins \in [Flows -> Logins] /\ credentials \in [LoginIds -> Credentials]
    /\ poolRows \in [LoginIds -> MaybeIdentity] /\ grants \in [Grants -> GrantHandlers]
    /\ cancels \subseteq CancelHandlers /\ dialog \in Dialogs /\ reads \subseteq StatusReads
    /\ added \subseteq Flows /\ faults \in Nat /\ restarts \in Nat

(* A login the operator cancelled is never done afterwards: the cancel handler takes the   *)
(* owner away before it marks the flow, and commitChatGPTLogin asserts the owner where it  *)
(* reports done.                                                                           *)
CancelledNeverDone == \A f \in Flows : logins[f].cancelled => logins[f].status # "done"

(* The credential stored for an account is never older than its last finished login: a     *)
(* login that was superseded while it waited for the store's lock does not write over the  *)
(* newer one's tokens.                                                                     *)
NewestTokensStay ==
    \A f \in Flows : logins[f].status = "done" =>
        /\ credentials[logins[f].id].flow # 0
        /\ logins[credentials[logins[f].id].flow].gen >= logins[f].gen

(* What the dialog reports as added had its tokens written to the store and its row to the  *)
(* config, whichever of the commit's writes failed and whatever restarted in between.       *)
AddedIsStored == \A f \in added : logins[f].stored = {"tokens", "row"}

(* The dialog stops watching a flow only when it gives that flow up itself, and then says  *)
(* so to the proxy, or when it has read that this flow ended; an answer about a flow it    *)
(* watched before never ends the one it watches now.                                       *)
WatchEndsForCause ==
    [][\A f \in Flows : dialog.watching = f /\ dialog'.watching # f =>
            \/ [flow |-> f, step |-> "sent"] \in cancels'
            \/ \E r \in reads : r.flow = f /\ r.answer \in {"done", "error", "expired"}]_loginVars

(* A login that is done while its dialog watches it does not stay unnoticed, whichever     *)
(* reads fail before.                                                                      *)
DoneGetsReported ==
    \A f \in Flows : logins[f].status = "done" /\ dialog.watching = f ~> dialog.watching # f

(* The text of the dialog, "Waiting for ChatGPT login to complete in your browser...": a   *)
(* login whose authorization the provider has taken is not left pending by the handler of  *)
(* its callback.                                                                           *)
CallbackEndsItsLogin ==
    \A f \in Flows : logins[f].status = "pending" =>
        \A via \in {"browser", "paste"} :
            grants[<<f, via>>].spent => grants[<<f, via>>].step \notin {"failed", "finished", "over"}
=============================================================================
