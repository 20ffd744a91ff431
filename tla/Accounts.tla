------------------------------ MODULE Accounts ------------------------------
(***************************************************************************)
(* Accounts, their sessions and the secrets that change them: bootstrap,   *)
(* invitations, sign-in, passwords, provider links, e-mail challenges,     *)
(* password resets, re-authentication proofs, and the administrator's      *)
(* disable, deletion and purge (app/auth.py, app/admin.py, the modules and *)
(* SQL functions they call).                                               *)
(*                                                                         *)
(* A handler authenticates first, works without a lock, and commits one    *)
(* transaction that locks the account row and compares its version with    *)
(* the session's.  An action is that transaction.  `sessions' keeps every  *)
(* session ever given, so a request that was authenticated at any earlier  *)
(* time may still commit, and an earlier cookie may come back.             *)
(***************************************************************************)
EXTENDS Integers, FiniteSets

CONSTANTS
    Account, First,  \* account ids; the id of the first account, in Account
    Secret,          \* tokens and provider states, each new one is fresh
    Email,
    Unit,            \* units of work under a lease or an account transaction
    None,
    MaxVersion,      \* bound of auth_version
    MaxChanges       \* bound: committed changes in a behaviour

ASSUME AccountsAssumption ==
    /\ First \in Account /\ None \notin Account \cup Email \cup Secret
    /\ MaxVersion \in Nat \ {0} /\ MaxChanges \in Nat
    /\ \E f \in [Account -> Email] : \A a, b \in Account : f[a] = f[b] => a = b

VARIABLES
    row,           \* accounts and oidc_identities: [Account -> record]
    bootstrapped,  \* instance_state.bootstrap_completed_at
    sessions,      \* every session given: set of <<account, version>>
    sec,           \* invitations, email_challenges, oidc_attempts and proofs
    unit,          \* [Unit -> record]
    changes        \* changes left

accountVars == <<row, bootstrapped, sessions, sec, unit, changes>>

NoRow == [state |-> "none", enabled |-> FALSE, admin |-> FALSE, version |-> 0,
          password |-> FALSE, linked |-> FALSE, email |-> None, verified |-> FALSE,
          deadline |-> "none"]

Member(email) == [NoRow EXCEPT !.state = "live", !.enabled = TRUE, !.version = 1,
                               !.email = email]

Unborn == [state |-> "unborn", kind |-> None, of |-> None, ver |-> 0, email |-> None,
           target |-> None, ready |-> FALSE]

Exists(a) == row[a].state = "live"
Active(a, v) == Exists(a) /\ row[a].enabled /\ row[a].version = v

(* A request of the account's user reaches its transaction *)
Signed(a) == Active(a, row[a].version) /\ <<a, row[a].version>> \in sessions
Administrator(a) == Signed(a) /\ row[a].admin

(* An open account transaction shares its account's row *)
Writable(a) == \A u \in Unit : ~(unit[u].at = "transaction" /\ unit[u].of = a)

Challenges == {"verify", "change", "reset"}
Proofs == {"prove_verify", "prove_change", "prove_password", "prove_purge"}
ChallengesOf(a) == {s \in Secret : sec[s].state = "live" /\ sec[s].of = a /\ sec[s].kind \in Challenges}
AttemptsOf(a) == {s \in Secret : sec[s].state = "live" /\ sec[s].of = a
                                 /\ sec[s].kind \in Proofs \cup {"link"}}
InvitationsBy(a) == {s \in Secret : sec[s].state = "live" /\ sec[s].of = a /\ sec[s].kind = "invite"}

EmailFree(e) == \A a \in Account : Exists(a) => row[a].email # e

(***************************************************************************)
(* May the secret still do its work?                                       *)
(***************************************************************************)
Usable(s) ==
    LET k == sec[s].kind
        a == sec[s].of
    IN CASE k = "invite" -> Exists(a) /\ row[a].enabled /\ row[a].admin
         [] k = "join" -> TRUE
         [] k \in Challenges -> /\ Active(a, sec[s].ver) /\ row[a].email = sec[s].email
                                /\ (k = "reset" => row[a].verified)
         [] OTHER -> Active(a, sec[s].ver)

Open(s) == sec[s].state \in {"live", "redeeming"} /\ Usable(s)

(* One transaction on the secrets; nothing is kept of one that has ended *)
Ended(how) == [Unborn EXCEPT !.state = how]
Settle(used, dead) ==
    sec' = [s \in Secret |-> IF s \in used THEN Ended("used")
                             ELSE IF s \in dead THEN Ended("dead") ELSE sec[s]]
Create(new, record, used, dead) ==
    /\ sec[new] = Unborn
    /\ sec' = [s \in Secret |-> IF s = new THEN record
                                ELSE IF s \in used THEN Ended("used")
                                ELSE IF s \in dead THEN Ended("dead") ELSE sec[s]]

Change == changes > 0 /\ changes' = changes - 1

(* A new version ends every session; the caller may be given one *)
Bump(a, next) ==
    /\ Writable(a)
    /\ row[a].version < MaxVersion
    /\ row' = [row EXCEPT ![a] = [next EXCEPT !.version = @ + 1]]
SignIn(a) == sessions' = sessions \cup {<<a, row'[a].version>>}

(***************************************************************************)
(* The first account, by browser, by command line or by a provider that an *)
(* older installation trusted                                              *)
(***************************************************************************)
Bootstrap(email) ==
    /\ Change
    /\ ~bootstrapped /\ \A a \in Account : row[a].state = "none"
    /\ \E linked \in BOOLEAN :
         row' = [row EXCEPT ![First] =
                   [Member(email) EXCEPT !.admin = TRUE, !.password = TRUE, !.linked = linked]]
    /\ bootstrapped' = TRUE
    /\ SignIn(First)
    /\ UNCHANGED <<sec, unit>>

(* The password is checked against the row that was read, the provider's    *)
(* subject against its link; the session gets that row's version            *)
LogIn(a) ==
    /\ Exists(a) /\ row[a].enabled
    /\ row[a].password \/ row[a].linked
    /\ <<a, row[a].version>> \notin sessions
    /\ UNCHANGED <<row, bootstrapped, sec, unit, changes>>
    /\ SignIn(a)

(***************************************************************************)
(* Changes by the account's own user                                       *)
(***************************************************************************)
(* replace_account_password: with the current password, or, for an account  *)
(* without one, with a proof that the same transaction consumes             *)
ChangePassword(a) ==
    /\ Change
    /\ Signed(a)
    /\ Bump(a, [row[a] EXCEPT !.password = TRUE])
    /\ SignIn(a)
    /\ \/ row[a].password /\ Settle({}, ChallengesOf(a) \cup AttemptsOf(a))
       \/ \E p \in AttemptsOf(a) :
            /\ ~row[a].password
            /\ sec[p].kind = "prove_password" /\ sec[p].ready /\ Usable(p)
            /\ Settle({p}, ChallengesOf(a) \cup AttemptsOf(a))
    /\ UNCHANGED <<bootstrapped, unit>>

(* Mutant: the provider may be unlinked though it is the only way in *)
UnlinkAnyway(a) ==
    /\ Change
    /\ Signed(a) /\ row[a].linked
    /\ Bump(a, [row[a] EXCEPT !.linked = FALSE])
    /\ SignIn(a)
    /\ Settle({}, ChallengesOf(a) \cup AttemptsOf(a))
    /\ UNCHANGED <<bootstrapped, unit>>

UnlinkProvider(a) ==
    /\ Change
    /\ Signed(a) /\ row[a].password /\ row[a].linked
    /\ Bump(a, [row[a] EXCEPT !.linked = FALSE])
    /\ SignIn(a)
    /\ Settle({}, ChallengesOf(a) \cup AttemptsOf(a))
    /\ UNCHANGED <<bootstrapped, unit>>

SignOutEverywhere(a) ==
    /\ Change
    /\ Signed(a)
    /\ Bump(a, row[a])
    /\ Settle({}, ChallengesOf(a) \cup AttemptsOf(a))
    /\ UNCHANGED <<bootstrapped, sessions, unit>>

(***************************************************************************)
(* Provider round trips.  A browser has room for one link, one joining, one *)
(* re-authentication under way and one proof of each kind; a new one takes  *)
(* the place of whatever its browser holds there.                           *)
(***************************************************************************)
Attempt(kind, a, target) ==
    [state |-> "live", kind |-> kind, of |-> a, ver |-> row[a].version, email |-> row[a].email,
     target |-> target, ready |-> FALSE]
InItsPlace(kind) ==
    {s \in Secret : /\ sec[s].state = "live"
                    /\ \/ sec[s].kind = kind
                       \/ kind \in Proofs /\ sec[s].kind \in Proofs /\ ~sec[s].ready}
Replaced(kind) == SUBSET InItsPlace(kind)

StartLink(a, s) ==
    /\ Signed(a) /\ row[a].password /\ ~row[a].linked
    /\ \E old \in Replaced("link") : Create(s, Attempt("link", a, None), {}, old)
    /\ UNCHANGED <<row, bootstrapped, sessions, unit, changes>>

(* The attempt's row goes before the provider is asked for its token *)
ConsumeLink(s) ==
    /\ sec[s].state = "live" /\ sec[s].kind = "link"
    /\ <<sec[s].of, sec[s].ver>> \in sessions
    /\ sec' = [sec EXCEPT ![s].state = "redeeming"]
    /\ UNCHANGED <<row, bootstrapped, sessions, unit, changes>>

(* link_oidc_identity; the callback may also fail before it *)
LinkProvider(s) ==
    LET a == sec[s].of IN
    /\ Change
    /\ sec[s].state = "redeeming" /\ sec[s].kind = "link"
    /\ Active(a, sec[s].ver) /\ row[a].password /\ ~row[a].linked
    /\ Bump(a, [row[a] EXCEPT !.linked = TRUE])
    /\ SignIn(a)
    /\ Settle({s}, ChallengesOf(a) \cup AttemptsOf(a))
    /\ UNCHANGED <<bootstrapped, unit>>

StartReauth(a, kind, target, s) ==
    /\ Signed(a) /\ row[a].linked
    /\ \/ kind = "prove_verify" /\ ~row[a].password /\ target = row[a].email
       \/ kind = "prove_change" /\ ~row[a].password /\ target \in Email \ {row[a].email}
       \/ kind = "prove_password" /\ ~row[a].password /\ target = None
       \/ /\ kind = "prove_purge" /\ row[a].admin /\ target \in Account \ {a}
          /\ Exists(target) /\ ~row[target].enabled /\ row[target].deadline = "passed"
    /\ \E old \in Replaced(kind) : Create(s, Attempt(kind, a, target), {}, old)
    /\ UNCHANGED <<row, bootstrapped, sessions, unit, changes>>

(* finish_oidc_reauth: the attempt becomes a proof, with its expiry; it is   *)
(* gone if the provider is no longer linked, and takes an older proof's place *)
FinishReauth(s) ==
    /\ sec[s].state = "live" /\ sec[s].kind \in Proofs /\ ~sec[s].ready
    /\ Usable(s) /\ Writable(sec[s].of)
    /\ \/ /\ row[sec[s].of].linked
          /\ \E old \in SUBSET {p \in Secret \ {s} : sec[p].state = "live" /\ sec[p].ready
                                                     /\ sec[p].kind = sec[s].kind} :
               sec' = [p \in Secret |-> IF p = s THEN [sec[s] EXCEPT !.ready = TRUE]
                                        ELSE IF p \in old THEN Ended("dead") ELSE sec[p]]
       \/ ~row[sec[s].of].linked /\ Settle({}, {s})
    /\ UNCHANGED <<row, bootstrapped, sessions, unit, changes>>

(***************************************************************************)
(* E-mail challenges and password resets.  The token is known to nobody    *)
(* until its mail is out.                                                  *)
(***************************************************************************)
Challenge(kind, a, target) ==
    [state |-> "live", kind |-> kind, of |-> a, ver |-> row[a].version, email |-> row[a].email,
     target |-> target, ready |-> FALSE]

Superseded(kind, a) == {s \in ChallengesOf(a) : sec[s].kind = kind}

(* issue_email_challenge; without a password the proof goes with it *)
IssueChallenge(a, kind, target, s) ==
    /\ Signed(a) /\ Writable(a)
    /\ kind = "verify" => target = row[a].email
    /\ kind = "change" => target # row[a].email
    /\ \/ row[a].password /\ Create(s, Challenge(kind, a, target), {}, Superseded(kind, a))
       \/ \E p \in AttemptsOf(a) :
            /\ ~row[a].password
            /\ sec[p].kind = (IF kind = "verify" THEN "prove_verify" ELSE "prove_change")
            /\ sec[p].target = target /\ sec[p].ready /\ Usable(p)
            /\ Create(s, Challenge(kind, a, target), {p}, Superseded(kind, a))
    /\ UNCHANGED <<row, bootstrapped, sessions, unit, changes>>

(* issue_password_reset by anybody who knows the address, and               *)
(* issue_admin_password_reset by a current administrator                    *)
IssueReset(a, s, actor) ==
    /\ Exists(a) /\ row[a].enabled /\ row[a].verified
    /\ Writable(a) /\ (actor # None => Administrator(actor) /\ Writable(actor))
    /\ actor = None => \A o \in Superseded("reset", a) : ~Usable(o)
    /\ LET by == IF actor = None THEN None ELSE <<actor, row[actor].version>>
       IN Create(s, Challenge("reset", a, by), {}, Superseded("reset", a))
    /\ UNCHANGED <<row, bootstrapped, sessions, unit, changes>>

(* The last check is made under shared rows and the transport starts in it; *)
(* a challenge that is refused there, or whose mail fails, is revoked       *)
Deliver(s) ==
    /\ sec[s].state = "live" /\ sec[s].kind \in Challenges /\ ~sec[s].ready
    /\ IF /\ Usable(s)
          /\ sec[s].kind = "reset" /\ sec[s].target # None =>
                Active(sec[s].target[1], sec[s].target[2]) /\ row[sec[s].target[1]].admin
       THEN sec' = [sec EXCEPT ![s].ready = TRUE]
       ELSE Settle({}, {s})
    /\ UNCHANGED <<row, bootstrapped, sessions, unit, changes>>

(* consume_email_challenge.  A new address ends the other challenges by     *)
(* their version and address alone.                                         *)
ConfirmEmail(s) ==
    LET a == sec[s].of IN
    /\ Change
    /\ sec[s].state = "live" /\ sec[s].kind \in {"verify", "change"} /\ sec[s].ready
    /\ Usable(s) /\ Signed(a) /\ Writable(a)
    /\ \/ /\ sec[s].kind = "verify"
          /\ row' = [row EXCEPT ![a].verified = TRUE]
          /\ UNCHANGED sessions
       \/ /\ sec[s].kind = "change" /\ EmailFree(sec[s].target)
          /\ Bump(a, [row[a] EXCEPT !.email = sec[s].target, !.verified = TRUE])
          /\ SignIn(a)
    /\ Settle({s}, {})
    /\ UNCHANGED <<bootstrapped, unit>>

(* consume_password_reset: it never signs the holder in *)
ResetPassword(s) ==
    LET a == sec[s].of IN
    /\ Change
    /\ sec[s].state = "live" /\ sec[s].kind = "reset" /\ sec[s].ready
    /\ Usable(s)
    /\ Bump(a, [row[a] EXCEPT !.password = TRUE])
    /\ Settle({s}, ChallengesOf(a))
    /\ UNCHANGED <<bootstrapped, sessions, unit>>

HostReset(a) ==
    /\ Change
    /\ Exists(a) /\ row[a].enabled
    /\ Bump(a, [row[a] EXCEPT !.password = TRUE])
    /\ Settle({}, ChallengesOf(a))
    /\ UNCHANGED <<bootstrapped, sessions, unit>>

(***************************************************************************)
(* Invitations                                                             *)
(***************************************************************************)
Invitation(a, e) == [state |-> "live", kind |-> "invite", of |-> a, ver |-> 0, email |-> e,
                     target |-> None, ready |-> TRUE]
InvitationsFor(e) == {s \in Secret : sec[s].state = "live" /\ sec[s].kind = "invite"
                                     /\ sec[s].email = e}

Invite(a, e, s) ==
    /\ Change
    /\ Administrator(a) /\ EmailFree(e)
    /\ Create(s, Invitation(a, e), {}, InvitationsFor(e))
    /\ UNCHANGED <<row, bootstrapped, sessions, unit>>

(* Any administrator may renew an invitation whose issuer is still one *)
Resend(a, old, s) ==
    /\ Change
    /\ Administrator(a)
    /\ sec[old].state = "live" /\ sec[old].kind = "invite" /\ Usable(old) /\ EmailFree(sec[old].email)
    /\ Create(s, Invitation(a, sec[old].email), {}, {old})
    /\ UNCHANGED <<row, bootstrapped, sessions, unit>>

RevokeInvitation(a, s) ==
    /\ Administrator(a)
    /\ sec[s].state = "live" /\ sec[s].kind = "invite"
    /\ Settle({}, {s})
    /\ UNCHANGED <<row, bootstrapped, sessions, unit, changes>>

NewAccount(a) == row[a].state = "none" /\ \A b \in Account : row[b].state = "none" => a # First

Redeem(s, a) ==
    /\ Change
    /\ sec[s].state = "live" /\ sec[s].kind = "invite" /\ Usable(s) /\ EmailFree(sec[s].email)
    /\ NewAccount(a)
    /\ row' = [row EXCEPT ![a] = [Member(sec[s].email) EXCEPT !.password = TRUE]]
    /\ SignIn(a)
    /\ Settle({s}, {})
    /\ UNCHANGED <<bootstrapped, unit>>

(* Joining by the provider: the attempt is consumed at the callback, the     *)
(* invitation in the transaction after the token exchange                    *)
StartJoin(s, i) ==
    /\ sec[i].state = "live" /\ sec[i].kind = "invite" /\ Usable(i) /\ EmailFree(sec[i].email)
    /\ \E old \in Replaced("join") :
         Create(s, [state |-> "live", kind |-> "join", of |-> sec[i].of, ver |-> 0,
                    email |-> None, target |-> i, ready |-> FALSE], {}, old)
    /\ UNCHANGED <<row, bootstrapped, sessions, unit, changes>>

ConsumeJoin(s) ==
    /\ sec[s].state = "live" /\ sec[s].kind = "join"
    /\ sec' = [sec EXCEPT ![s].state = "redeeming"]
    /\ UNCHANGED <<row, bootstrapped, sessions, unit, changes>>

RedeemByProvider(s, a) ==
    LET i == sec[s].target IN
    /\ Change
    /\ sec[s].state = "redeeming" /\ sec[s].kind = "join"
    /\ sec[i].state = "live" /\ Usable(i) /\ EmailFree(sec[i].email)
    /\ NewAccount(a)
    /\ row' = [row EXCEPT ![a] = [Member(sec[i].email) EXCEPT !.linked = TRUE]]
    /\ SignIn(a)
    /\ Settle({s, i}, {})
    /\ UNCHANGED <<bootstrapped, unit>>

(* Time, five wrong tokens, a failed or abandoned round trip *)
Expire(s) ==
    /\ sec[s].state \in {"live", "redeeming"}
    /\ Settle({}, {s})
    /\ UNCHANGED <<row, bootstrapped, sessions, unit, changes>>

(***************************************************************************)
(* The administrator.  These take one lock for all, then both rows.        *)
(***************************************************************************)
Acts(actor, target) ==
    /\ Administrator(actor) /\ actor # target /\ Exists(target)
    /\ Writable(actor) /\ Writable(target)

UsableAdministrator(a) ==
    Exists(a) /\ row[a].enabled /\ row[a].admin /\ (row[a].password \/ row[a].linked)
OtherAdministrator(target) == \E a \in Account \ {target} : UsableAdministrator(a)

(* Mutant: the invitations of a disabled issuer are left alone *)
EndedButInvitations(a) == ChallengesOf(a) \cup AttemptsOf(a)

EndedByDisable(a) == ChallengesOf(a) \cup AttemptsOf(a) \cup InvitationsBy(a)

(* Mutant: a disable keeps the version, so enabling revives the sessions *)
DisabledAtVersion(target) == [row[target] EXCEPT !.enabled = FALSE]

Disabled(target) == [row[target] EXCEPT !.enabled = FALSE, !.version = @ + 1]

Disable(actor, target, deadline) ==
    /\ Change
    /\ Acts(actor, target)
    /\ row[target].version < MaxVersion
    /\ IF row[target].enabled
       THEN /\ row[target].admin => OtherAdministrator(target)
            /\ row' = [row EXCEPT ![target] = [Disabled(target) EXCEPT !.deadline = deadline]]
            /\ Settle({}, EndedByDisable(target))
       ELSE /\ row' = [row EXCEPT ![target].deadline = deadline]
            /\ UNCHANGED sec
    /\ UNCHANGED <<bootstrapped, sessions, unit>>

(* A plain disable leaves the deadline; a deletion request needs none set *)
DisableAccount(actor, target) == row[target].enabled /\ Disable(actor, target, row[target].deadline)
RequestDeletion(actor, target) == row[target].deadline = "none" /\ Disable(actor, target, "running")

EnableAccount(actor, target) ==
    /\ Change
    /\ Acts(actor, target)
    /\ ~row[target].enabled /\ row[target].deadline = "none"
    /\ row' = [row EXCEPT ![target].enabled = TRUE]
    /\ UNCHANGED <<bootstrapped, sessions, sec, unit>>

CancelDeletion(actor, target) ==
    /\ Change
    /\ Acts(actor, target)
    /\ row[target].deadline = "running"
    /\ row' = [row EXCEPT ![target].deadline = "none", ![target].enabled = TRUE]
    /\ UNCHANGED <<bootstrapped, sessions, sec, unit>>

DeadlinePasses(a) ==
    /\ row[a].deadline = "running" /\ Exists(a)
    /\ row' = [row EXCEPT ![a].deadline = "passed"]
    /\ UNCHANGED <<bootstrapped, sessions, sec, unit, changes>>

NoLease(a) == \A u \in Unit : ~(unit[u].at \in {"leased", "sending"} /\ unit[u].of = a)

(* Everything the account owns goes with it; its id is never given again *)
Owned(a) == {s \in Secret : sec[s].of = a /\ sec[s].state \in {"live", "redeeming"}
                            /\ (sec[s].state = "live" \/ sec[s].kind = "link")}

Purge(actor, target) ==
    /\ Change
    /\ Acts(actor, target) /\ NoLease(target)
    /\ ~row[target].enabled /\ row[target].deadline = "passed" /\ OtherAdministrator(target)
    /\ row' = [row EXCEPT ![target] = [NoRow EXCEPT !.state = "gone"]]
    /\ \/ row[actor].password /\ Settle({}, Owned(target))
       \/ \E p \in AttemptsOf(actor) :
            /\ sec[p].kind = "prove_purge" /\ sec[p].target = target /\ sec[p].ready /\ Usable(p)
            /\ Settle({p}, Owned(target))
    /\ UNCHANGED <<bootstrapped, sessions, unit>>

(* The operator promotes a member in the database; the program cannot *)
MakeAdministrator(a) ==
    /\ Change
    /\ Exists(a) /\ ~row[a].admin
    /\ row' = [row EXCEPT ![a].admin = TRUE]
    /\ UNCHANGED <<bootstrapped, sessions, sec, unit>>

(***************************************************************************)
(* Work.  A request or a turn works in account transactions, which share   *)
(* the row; mail and reports also hold the account's lease while no        *)
(* transaction is open.                                                    *)
(***************************************************************************)
Idle == [at |-> "idle", of |-> None, ver |-> 0]

OpenTransaction(u, a, v) ==
    /\ unit[u].at = "idle" /\ <<a, v>> \in sessions
    /\ Active(a, v)
    /\ unit' = [unit EXCEPT ![u] = [at |-> "transaction", of |-> a, ver |-> v]]
    /\ UNCHANGED <<row, bootstrapped, sessions, sec, changes>>

(* The lease is taken by id, whatever has become of the account *)
TakeLease(u, a, v) ==
    /\ unit[u].at = "idle" /\ <<a, v>> \in sessions
    /\ unit' = [unit EXCEPT ![u] = [at |-> "leased", of |-> a, ver |-> v]]
    /\ UNCHANGED <<row, bootstrapped, sessions, sec, changes>>

(* Mutant: under the lease the account is not looked at again *)
SendUnchecked(u) ==
    /\ unit[u].at = "leased"
    /\ unit' = [unit EXCEPT ![u].at = "sending"]
    /\ UNCHANGED <<row, bootstrapped, sessions, sec, changes>>

SendUnderLease(u) ==
    /\ unit[u].at = "leased"
    /\ unit' = [unit EXCEPT ![u] = IF Active(unit[u].of, unit[u].ver)
                                   THEN [unit[u] EXCEPT !.at = "sending"] ELSE Idle]
    /\ UNCHANGED <<row, bootstrapped, sessions, sec, changes>>

EndUnit(u) ==
    /\ unit[u].at # "idle"
    /\ unit' = [unit EXCEPT ![u] = Idle]
    /\ UNCHANGED <<row, bootstrapped, sessions, sec, changes>>

Ordinary(email) == [Member(email) EXCEPT !.password = TRUE, !.linked = TRUE, !.verified = TRUE]

(* An empty installation; one with its first account; and one where a        *)
(* second, who joined by the provider, has been promoted                     *)
Addresses == CHOOSE f \in [Account -> Email] : \A a, b \in Account : f[a] = f[b] => a = b

AccountsInit ==
    /\ row \in {[a \in Account |-> IF a \in existing THEN [Ordinary(Addresses[a]) EXCEPT
                                         !.admin = TRUE, !.password = (a = First)]
                                    ELSE NoRow] :
                existing \in {S \in SUBSET Account : S = {} \/ First \in S}}
    /\ bootstrapped = Exists(First)
    /\ sessions = {}
    /\ sec = [s \in Secret |-> Unborn]
    /\ unit = [u \in Unit |-> Idle]
    /\ changes = MaxChanges

UserNext ==
    \/ \E e \in Email : Bootstrap(e)
    \/ \E a \in Account :
         LogIn(a) \/ ChangePassword(a) \/ UnlinkProvider(a) \/ SignOutEverywhere(a) \/ HostReset(a)
    \/ \E a \in Account, s \in Secret :
         \/ StartLink(a, s)
         \/ \E k \in Proofs, t \in Email \cup Account \cup {None} : StartReauth(a, k, t, s)
         \/ \E k \in {"verify", "change"}, t \in Email : IssueChallenge(a, k, t, s)
         \/ \E actor \in Account \cup {None} : IssueReset(a, s, actor)
    \/ \E s \in Secret :
         \/ ConsumeLink(s) \/ LinkProvider(s) \/ FinishReauth(s) \/ Deliver(s)
         \/ ConfirmEmail(s) \/ ResetPassword(s) \/ ConsumeJoin(s) \/ Expire(s)
         \/ \E i \in Secret : StartJoin(s, i)
         \/ \E a \in Account : Redeem(s, a) \/ RedeemByProvider(s, a)

AdminNext ==
    \/ \E a \in Account, s \in Secret :
         \/ \E e \in Email : Invite(a, e, s)
         \/ \E old \in Secret : Resend(a, old, s)
         \/ RevokeInvitation(a, s)
    \/ \E a \in Account, t \in Account :
         DisableAccount(a, t) \/ RequestDeletion(a, t) \/ EnableAccount(a, t)
         \/ CancelDeletion(a, t) \/ Purge(a, t)
    \/ \E a \in Account : DeadlinePasses(a) \/ MakeAdministrator(a)

UnitNext ==
    \E u \in Unit :
      \/ \E a \in Account, v \in 1..MaxVersion : OpenTransaction(u, a, v) \/ TakeLease(u, a, v)
      \/ SendUnderLease(u) \/ EndUnit(u)

AccountsNext == UserNext \/ AdminNext \/ UnitNext

AccountsSpec == AccountsInit /\ [][AccountsNext]_accountVars

-----------------------------------------------------------------------------
(***************************************************************************)
(* Every secret keeps the promise of OneShot, whichever way it can be      *)
(* ended: by its use, its expiry, a newer one, a new version or address of *)
(* its account, or the loss of its issuer.  No enabling, promotion or      *)
(* change of address brings one back.                                      *)
(***************************************************************************)
Life(s) == CASE sec[s].state = "unborn" -> "unborn"
             [] sec[s].state = "used" -> "used"
             [] Open(s) -> "open"
             [] OTHER -> "dead"

Promise == INSTANCE OneShot WITH life <- [s \in Secret |-> Life(s)]
SecretsAreOneShot == Promise!OneShotSpec

(***************************************************************************)
(* A session that has ended never works again: not after the account is    *)
(* enabled or its deletion cancelled, and not as another account's.        *)
(***************************************************************************)
SessionsEndForGood ==
    [][\A p \in sessions : ~Active(p[1], p[2]) => ~Active(p[1], p[2])']_accountVars

(***************************************************************************)
(* Once there is an account, somebody can still sign in and administer,    *)
(* however administrators disable, delete and purge one another and change *)
(* their own ways to sign in.                                              *)
(***************************************************************************)
AdministratorRemains == bootstrapped => \E a \in Account : UsableAdministrator(a)

(***************************************************************************)
(* Nothing is read, written or sent for an account behind the back of a    *)
(* change: a transaction runs under the version it was opened with, and a  *)
(* mail or a report that was admitted under its lease still has its        *)
(* account.                                                                *)
(***************************************************************************)
WorkHasItsAccount ==
    \A u \in Unit :
        /\ unit[u].at = "transaction" => Active(unit[u].of, unit[u].ver)
        /\ unit[u].at = "sending" => Exists(unit[u].of)
=============================================================================
