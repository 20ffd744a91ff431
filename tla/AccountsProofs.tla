---------------------------- MODULE AccountsProofs ----------------------------
(***************************************************************************)
(* Proofs about Accounts for every number of accounts, addresses, secrets  *)
(* and units of work, and any bound on versions and changes.               *)
(*                                                                         *)
(* Every handler is a Step: Evolves says what it may do to one account,    *)
(* SecretEvolves what to one secret.  The properties follow from these.    *)
(***************************************************************************)
EXTENDS Accounts, TLAPS

Row == [state : {"none", "live", "gone"}, enabled : BOOLEAN, admin : BOOLEAN,
        version : 0..MaxVersion, password : BOOLEAN, linked : BOOLEAN,
        email : Email \cup {None}, verified : BOOLEAN, deadline : {"none", "running", "passed"}]

RowsTypeOK == row \in [Account -> Row] /\ bootstrapped \in BOOLEAN /\ changes \in 0..MaxChanges

Kinds == {"invite", "join", "link"} \cup Challenges \cup Proofs

Held(s) == sec[s].state \in {"live", "redeeming"}

\* What a secret that is still held refers to.
HeldTypeOK(s) ==
    /\ sec[s].kind \in Kinds /\ sec[s].of \in Account /\ sec[s].ver \in 0..MaxVersion
    /\ sec[s].email \in Email \cup {None}
    /\ sec[s].kind = "join" => sec[s].target \in Secret
    /\ sec[s].kind = "invite" => sec[s].email \in Email
    /\ sec[s].kind = "change" => sec[s].target \in Email
    /\ sec[s].state = "redeeming" => sec[s].kind \in {"link", "join"}

\* The invitation that a joining by the provider was begun with.
JoinRefers(s) ==
    Held(s) /\ sec[s].kind = "join" =>
        LET i == sec[s].target IN
        sec[i].state # "unborn" /\ (Held(i) => sec[i].kind = "invite")

SecretsTypeOK ==
    /\ DOMAIN sec = Secret
    /\ \A s \in Secret :
         /\ sec[s] = [state |-> sec[s].state, kind |-> sec[s].kind, of |-> sec[s].of,
                      ver |-> sec[s].ver, email |-> sec[s].email, target |-> sec[s].target,
                      ready |-> sec[s].ready]
         /\ sec[s].state \in {"unborn", "live", "redeeming", "used", "dead"}
         /\ Held(s) => HeldTypeOK(s)
         /\ JoinRefers(s)

SessionsTypeOK == sessions \subseteq Account \X (0..MaxVersion)

UnitsTypeOK ==
    /\ unit \in [Unit -> [at : {"idle", "transaction", "leased", "sending"},
                          of : Account \cup {None}, ver : 0..MaxVersion]]
    /\ \A u \in Unit : unit[u].at # "idle" => unit[u].of \in Account

\* Everything is what the code can hold.
AccountsTypeOK == RowsTypeOK /\ SecretsTypeOK /\ SessionsTypeOK /\ UnitsTypeOK

\* A version that the account has passed does not come back, and the account is enabled
\* under every version somebody was given.
SessionsBelong ==
    \A p \in sessions :
        /\ row[p[1]].state # "none"
        /\ Exists(p[1]) => /\ p[2] <= row[p[1]].version
                           /\ p[2] = row[p[1]].version => row[p[1]].enabled

\* A challenge, an attempt or a proof is usable exactly while its account has the version
\* it was made under.
SecretsBelong ==
    \A s \in Secret : Held(s) /\ sec[s].kind \notin {"invite", "join"} =>
        LET a == sec[s].of IN
        /\ row[a].state # "none"
        /\ Exists(a) => /\ sec[s].ver <= row[a].version
                        /\ sec[s].ver = row[a].version => Usable(s)

\* An invitation does not outlive its issuer's standing.
InvitationsBelong ==
    \A s \in Secret : Held(s) /\ sec[s].kind = "invite" => Usable(s)

IInv == AccountsTypeOK /\ SessionsBelong /\ SecretsBelong /\ InvitationsBelong

-----------------------------------------------------------------------------
(***************************************************************************)
(* What a step may do.                                                     *)
(***************************************************************************)
Joins(a) == /\ row[a].state = "none" /\ row'[a].state = "live"
            /\ row'[a].enabled /\ row'[a].version = 1

Keeps(a) ==
    /\ Exists(a) /\ Exists(a)' /\ row'[a].version = row[a].version
    /\ row'[a].email = row[a].email
    /\ row[a].enabled => row'[a].enabled
    /\ row[a].admin => row'[a].admin
    /\ row[a].verified => row'[a].verified

Moves(a) ==
    /\ Exists(a) /\ Exists(a)' /\ row'[a].version = row[a].version + 1
    /\ Writable(a)
    /\ row[a].admin => row'[a].admin
    /\ \/ row'[a].enabled
       \/ \A s \in InvitationsBy(a) : ~Held(s)'

Goes(a) == Exists(a) /\ row'[a].state = "gone" /\ ~row[a].enabled /\ Writable(a) /\ NoLease(a)

Evolves(a) == row'[a] = row[a] \/ Joins(a) \/ Keeps(a) \/ Moves(a) \/ Goes(a)

StaysAdministered(a) ==
    UsableAdministrator(a) =>
        \/ UsableAdministrator(a)'
        \/ OtherAdministrator(a) /\ \A b \in Account \ {a} : row'[b] = row[b]

RowsStep ==
    /\ row' \in [Account -> Row] /\ bootstrapped' \in BOOLEAN /\ changes' \in 0..MaxChanges
    /\ \A a \in Account : Evolves(a) /\ StaysAdministered(a)
    /\ bootstrapped' # bootstrapped => \E a \in Account : UsableAdministrator(a)'

Begins(s) ==
    /\ sec[s] = Unborn /\ sec'[s].state = "live" /\ HeldTypeOK(s)' /\ Usable(s)' /\ JoinRefers(s)'
    /\ sec'[s] = [state |-> sec'[s].state, kind |-> sec'[s].kind, of |-> sec'[s].of,
                  ver |-> sec'[s].ver, email |-> sec'[s].email, target |-> sec'[s].target,
                  ready |-> sec'[s].ready]

GoesOn(s) ==
    /\ Held(s) /\ Held(s)'
    /\ sec'[s] = [state |-> sec'[s].state, kind |-> sec[s].kind, of |-> sec[s].of,
                  ver |-> sec[s].ver, email |-> sec[s].email, target |-> sec[s].target,
                  ready |-> sec'[s].ready]
    /\ sec'[s].state = sec[s].state \/ sec[s].kind \in {"link", "join"}

SecretEvolves(s) ==
    \/ sec'[s] = sec[s]
    \/ Begins(s)
    \/ GoesOn(s)
    \/ Held(s) /\ Usable(s) /\ sec'[s] = Ended("used")
    \/ Held(s) /\ sec'[s] = Ended("dead")

SecretsStep == DOMAIN sec' = Secret /\ \A s \in Secret : SecretEvolves(s)

SessionsStep ==
    /\ sessions \subseteq sessions'
    /\ \A p \in sessions' \ sessions :
         \E a \in Account : Exists(a)' /\ row'[a].enabled /\ p = <<a, row'[a].version>>

Step == RowsStep /\ SecretsStep /\ SessionsStep

-----------------------------------------------------------------------------
(***************************************************************************)
(* Lemmas about the model's operators.                                     *)
(***************************************************************************)

\* A transaction on the secrets ends those that it names and no other.
LEMMA SettleStep ==
    ASSUME NEW used, NEW dead, SecretsTypeOK, Settle(used, dead),
           \A s \in Secret : s \in used => Held(s) /\ Usable(s),
           \A s \in Secret : s \in dead => Held(s)
    PROVE  SecretsStep
<1>1. DOMAIN sec' = Secret
  BY DEF Settle
<1>2. ASSUME NEW s \in Secret PROVE SecretEvolves(s)
  BY DEF Settle, SecretEvolves
<1> QED
  BY <1>1, <1>2 DEF SecretsStep

\* A new secret is usable from the first.
LEMMA CreateStep ==
    ASSUME NEW new \in Secret, NEW r, NEW used, NEW dead, SecretsTypeOK,
           Create(new, r, used, dead), r.state = "live",
           r = [state |-> r.state, kind |-> r.kind, of |-> r.of, ver |-> r.ver,
                email |-> r.email, target |-> r.target, ready |-> r.ready],
           HeldTypeOK(new)', Usable(new)', JoinRefers(new)',
           \A s \in Secret : s \in used => Held(s) /\ Usable(s),
           \A s \in Secret : s \in dead => Held(s)
    PROVE  SecretsStep
<1>1. DOMAIN sec' = Secret
  BY DEF Create
<1>2. sec[new] = Unborn /\ sec'[new] = r
  BY DEF Create
<1>3. Begins(new)
  BY <1>2 DEF Begins
<1>4. ASSUME NEW s \in Secret \ {new} PROVE SecretEvolves(s)
  BY DEF Create, SecretEvolves
<1> QED
  BY <1>1, <1>3, <1>4 DEF SecretsStep, SecretEvolves

\* What is listed as an account's is held.
LEMMA ListedAreHeld ==
    ASSUME NEW a
    PROVE  /\ \A s \in ChallengesOf(a) \cup AttemptsOf(a) \cup InvitationsBy(a) \cup Owned(a) :
                s \in Secret /\ Held(s) /\ sec[s].of = a
           /\ \A k : \A s \in InItsPlace(k) : s \in Secret /\ Held(s)
           /\ \A k : \A s \in Superseded(k, a) : s \in Secret /\ Held(s)
           /\ \A e : \A s \in InvitationsFor(e) : s \in Secret /\ Held(s)
  BY DEF ChallengesOf, AttemptsOf, InvitationsBy, Owned, InItsPlace, Superseded, InvitationsFor, Held

\* A request of the account's user finds the account enabled.
LEMMA SignedIsActive ==
    ASSUME NEW a, Signed(a)
    PROVE  Exists(a) /\ row[a].enabled
  BY DEF Signed, Active

\* A new account is enabled, at its first version.
LEMMA MemberIsRow ==
    ASSUME NEW e \in Email
    PROVE  /\ Member(e) \in Row /\ Member(e).state = "live"
           /\ Member(e).enabled /\ Member(e).version = 1
<1>1. NoRow \in Row
  BY AccountsAssumption DEF NoRow, Row
<1>2. 1 \in 0..MaxVersion
  BY AccountsAssumption
<1> QED
  BY <1>1, <1>2 DEF Member, Row

\* Accounts that are not named in a step stay as they are.
LEMMA OneRow ==
    ASSUME NEW a \in Account, NEW r \in Row, RowsTypeOK, row' = [row EXCEPT ![a] = r]
    PROVE  /\ row' \in [Account -> Row] /\ row'[a] = r
           /\ \A b \in Account \ {a} : row'[b] = row[b]
           /\ \A b \in Account \ {a} : Evolves(b) /\ StaysAdministered(b)
<1>1. /\ row' \in [Account -> Row] /\ row'[a] = r
      /\ \A b \in Account \ {a} : row'[b] = row[b]
  BY DEF RowsTypeOK
<1>2. \A b \in Account \ {a} : Evolves(b)
  BY <1>1 DEF Evolves
<1>3. \A b \in Account \ {a} : StaysAdministered(b)
  BY <1>1 DEF StaysAdministered, UsableAdministrator, Exists
<1> QED
  BY <1>1, <1>2, <1>3

\* A change that keeps the session's version.
LEMMA KeepRow ==
    ASSUME NEW a \in Account, NEW r \in Row, RowsTypeOK, row' = [row EXCEPT ![a] = r],
           Exists(a), r.state = "live", r.version = row[a].version, r.email = row[a].email,
           row[a].enabled => r.enabled, row[a].admin => r.admin,
           row[a].verified => r.verified, r.password = row[a].password, r.linked = row[a].linked,
           bootstrapped' = bootstrapped, changes' \in 0..MaxChanges
    PROVE  RowsStep
<1>1. Keeps(a) /\ StaysAdministered(a)
  BY OneRow DEF Keeps, Exists, StaysAdministered, UsableAdministrator
<1> QED
  BY <1>1, OneRow DEF RowsStep, Evolves, RowsTypeOK

\* A change that ends the sessions, and leaves the account a way to sign in.
LEMMA BumpRow ==
    ASSUME NEW a \in Account, NEW next \in Row, RowsTypeOK, Bump(a, next),
           Exists(a), row[a].enabled, next.state = "live", next.version = row[a].version,
           next.enabled, row[a].admin => next.admin,
           row[a].password \/ row[a].linked => next.password \/ next.linked,
           bootstrapped' = bootstrapped, changes' \in 0..MaxChanges
    PROVE  /\ RowsStep /\ Exists(a)' /\ row'[a].enabled
           /\ row'[a].version = row[a].version + 1
<1> DEFINE r == [next EXCEPT !.version = @ + 1]
<1>1. row[a].version < MaxVersion /\ Writable(a) /\ row' = [row EXCEPT ![a] = r]
  BY DEF Bump
<1>2. row[a].version \in Nat /\ MaxVersion \in Nat
  BY AccountsAssumption DEF RowsTypeOK, Row
<1>3. /\ r.state = next.state /\ r.enabled = next.enabled /\ r.admin = next.admin
      /\ r.version = next.version + 1 /\ r.password = next.password
      /\ r.linked = next.linked /\ r.email = next.email /\ r.verified = next.verified
  BY DEF Row
<1>4. r \in Row
  BY <1>1, <1>2 DEF Row
<1>5. row'[a] = r /\ r.version = row[a].version + 1
  BY <1>1, <1>3, <1>4, OneRow
<1>6. Moves(a)
  BY <1>1, <1>3, <1>5 DEF Moves, Exists
<1>7. StaysAdministered(a)
  BY <1>3, <1>5 DEF StaysAdministered, UsableAdministrator, Exists
<1>8. RowsStep
  BY <1>1, <1>4, <1>6, <1>7, OneRow DEF RowsStep, Evolves, RowsTypeOK
<1> QED
  BY <1>3, <1>5, <1>8 DEF Exists

\* A step that touches no account.
LEMMA SameRows ==
    ASSUME RowsTypeOK, UNCHANGED <<row, bootstrapped>>, changes' \in 0..MaxChanges
    PROVE  RowsStep
  BY DEF RowsTypeOK, RowsStep, Evolves, StaysAdministered, UsableAdministrator, Exists

LEMMA SameSecrets ==
    ASSUME SecretsTypeOK, UNCHANGED sec
    PROVE  SecretsStep
  BY DEF SecretsTypeOK, SecretsStep, SecretEvolves

LEMMA ChangeCounts ==
    ASSUME RowsTypeOK, Change
    PROVE  changes' \in 0..MaxChanges
  BY AccountsAssumption DEF RowsTypeOK, Change

LEMMA SignInStep ==
    ASSUME NEW a \in Account, SignIn(a), Exists(a)', row'[a].enabled
    PROVE  SessionsStep
  BY DEF SignIn, SessionsStep

-----------------------------------------------------------------------------
(***************************************************************************)
(* Every action is a step of this kind.                                    *)
(***************************************************************************)

\* The first account.
LEMMA BootstrapStep ==
    ASSUME AccountsTypeOK, NEW e \in Email, Bootstrap(e)
    PROVE  Step
<1> USE DEF AccountsTypeOK
<1>1. PICK linked \in BOOLEAN :
        row' = [row EXCEPT ![First] =
                  [Member(e) EXCEPT !.admin = TRUE, !.password = TRUE, !.linked = linked]]
  BY DEF Bootstrap
<1> DEFINE r == [Member(e) EXCEPT !.admin = TRUE, !.password = TRUE, !.linked = linked]
<1>2. r \in Row /\ r.state = "live" /\ r.enabled /\ r.version = 1 /\ r.admin /\ r.password
  <2>1. /\ Member(e) \in Row /\ Member(e).state = "live"
        /\ Member(e).enabled /\ Member(e).version = 1
    BY MemberIsRow
  <2> QED BY <2>1 DEF Row
<1>3. First \in Account /\ row[First].state = "none" /\ bootstrapped' = TRUE
  BY AccountsAssumption DEF Bootstrap
<1> HIDE DEF r
<1>4. row'[First] = r /\ row' \in [Account -> Row]
      /\ \A b \in Account \ {First} : Evolves(b) /\ StaysAdministered(b)
  BY <1>1, <1>2, <1>3, OneRow DEF r
<1>5. Joins(First) /\ StaysAdministered(First) /\ UsableAdministrator(First)'
  BY <1>2, <1>3, <1>4 DEF Joins, StaysAdministered, UsableAdministrator, Exists
<1>6. RowsStep
  BY <1>3, <1>4, <1>5, ChangeCounts DEF RowsStep, Evolves, Bootstrap
<1>7. SessionsStep
  BY <1>2, <1>3, <1>4, SignInStep DEF Bootstrap, Exists
<1> QED
  BY <1>6, <1>7, SameSecrets DEF Step, Bootstrap

\* Signing in changes no account.
LEMMA LogInStep ==
    ASSUME AccountsTypeOK, NEW a \in Account, LogIn(a)
    PROVE  Step
<1> USE DEF AccountsTypeOK
<1>1. RowsStep /\ SecretsStep
  BY SameRows, SameSecrets DEF LogIn, RowsTypeOK
<1>2. SessionsStep
  BY SignInStep DEF LogIn, Exists
<1> QED
  BY <1>1, <1>2 DEF Step

\* A new version of an account by its user, who is signed in again or not.
LEMMA BumpStep ==
    ASSUME AccountsTypeOK, NEW a \in Account, NEW next \in Row, Change, Bump(a, next),
           Exists(a), row[a].enabled, next.state = "live", next.version = row[a].version,
           next.enabled, row[a].admin => next.admin,
           row[a].password \/ row[a].linked => next.password \/ next.linked,
           SignIn(a) \/ UNCHANGED sessions, SecretsStep, bootstrapped' = bootstrapped
    PROVE  Step
<1>1. RowsStep /\ Exists(a)' /\ row'[a].enabled
  BY BumpRow, ChangeCounts DEF AccountsTypeOK
<1>2. SessionsStep
  <2>1. CASE SignIn(a)
    BY <1>1, <2>1, SignInStep
  <2>2. CASE UNCHANGED sessions
    BY <2>2 DEF SessionsStep
  <2> QED BY <2>1, <2>2
<1> QED
  BY <1>1, <1>2 DEF Step

LEMMA ChangePasswordStep ==
    ASSUME AccountsTypeOK, NEW a \in Account, ChangePassword(a)
    PROVE  Step
<1> DEFINE next == [row[a] EXCEPT !.password = TRUE]
<1>1. Exists(a) /\ row[a].enabled
  BY SignedIsActive DEF ChangePassword
<1>2. row[a] \in Row
  BY DEF AccountsTypeOK, RowsTypeOK
<1>3. /\ next \in Row /\ next.state = row[a].state /\ next.version = row[a].version
      /\ next.enabled = row[a].enabled /\ next.admin = row[a].admin /\ next.password
  BY <1>2 DEF Row
<1>4. SecretsStep
  <2>1. CASE Settle({}, ChallengesOf(a) \cup AttemptsOf(a))
    BY <2>1, ListedAreHeld, SettleStep DEF AccountsTypeOK
  <2>2. ASSUME NEW p \in AttemptsOf(a), Usable(p),
               Settle({p}, ChallengesOf(a) \cup AttemptsOf(a))
        PROVE  SecretsStep
    BY <2>2, ListedAreHeld, SettleStep DEF AccountsTypeOK
  <2> QED BY <2>1, <2>2 DEF ChangePassword
<1>5. Change /\ Bump(a, next) /\ SignIn(a) /\ bootstrapped' = bootstrapped
  BY DEF ChangePassword
<1> HIDE DEF next
<1> QED
  BY <1>1, <1>3, <1>4, <1>5, BumpStep DEF Exists

LEMMA UnlinkProviderStep ==
    ASSUME AccountsTypeOK, NEW a \in Account, UnlinkProvider(a)
    PROVE  Step
<1> DEFINE next == [row[a] EXCEPT !.linked = FALSE]
<1>1. Exists(a) /\ row[a].enabled /\ row[a].password
  BY SignedIsActive DEF UnlinkProvider
<1>2. row[a] \in Row
  BY DEF AccountsTypeOK, RowsTypeOK
<1>3. /\ next \in Row /\ next.state = row[a].state /\ next.version = row[a].version
      /\ next.enabled = row[a].enabled /\ next.admin = row[a].admin
      /\ next.password = row[a].password
  BY <1>2 DEF Row
<1>4. SecretsStep
  BY ListedAreHeld, SettleStep DEF AccountsTypeOK, UnlinkProvider
<1>5. Change /\ Bump(a, next) /\ SignIn(a) /\ bootstrapped' = bootstrapped
  BY DEF UnlinkProvider
<1> HIDE DEF next
<1> QED
  BY <1>1, <1>3, <1>4, <1>5, BumpStep DEF Exists

LEMMA SignOutStep ==
    ASSUME AccountsTypeOK, NEW a \in Account, SignOutEverywhere(a)
    PROVE  Step
<1>1. Exists(a) /\ row[a].enabled
  BY SignedIsActive DEF SignOutEverywhere
<1>2. row[a] \in Row
  BY DEF AccountsTypeOK, RowsTypeOK
<1>3. SecretsStep
  BY ListedAreHeld, SettleStep DEF AccountsTypeOK, SignOutEverywhere
<1> QED
  BY <1>1, <1>2, <1>3, BumpStep DEF Exists, SignOutEverywhere

LEMMA HostResetStep ==
    ASSUME AccountsTypeOK, NEW a \in Account, HostReset(a)
    PROVE  Step
<1> DEFINE next == [row[a] EXCEPT !.password = TRUE]
<1>1. row[a] \in Row /\ Exists(a) /\ row[a].enabled
  BY DEF AccountsTypeOK, RowsTypeOK, HostReset
<1>2. /\ next \in Row /\ next.state = row[a].state /\ next.version = row[a].version
      /\ next.enabled = row[a].enabled /\ next.admin = row[a].admin /\ next.password
  BY <1>1 DEF Row
<1>3. SecretsStep
  BY ListedAreHeld, SettleStep DEF AccountsTypeOK, HostReset
<1>4. Change /\ Bump(a, next) /\ UNCHANGED <<sessions, bootstrapped>>
  BY DEF HostReset
<1> HIDE DEF next
<1> QED
  BY <1>1, <1>2, <1>3, <1>4, BumpStep DEF Exists

\* Everything that works on secrets alone.
LEMMA SecretsOnly ==
    ASSUME AccountsTypeOK, SecretsStep, UNCHANGED <<row, bootstrapped, sessions>>,
           changes' = changes \/ Change
    PROVE  Step
<1>1. RowsStep
  BY SameRows, ChangeCounts DEF AccountsTypeOK, RowsTypeOK
<1>2. SessionsStep
  BY DEF SessionsStep
<1> QED
  BY <1>1, <1>2 DEF Step

\* An attempt or a challenge is usable under the version it is made for.
LEMMA AttemptStep ==
    ASSUME AccountsTypeOK, NEW a \in Account, NEW s \in Secret, NEW r, NEW used, NEW dead,
           Exists(a), row[a].enabled, UNCHANGED row,
           NEW k \in Proofs \cup Challenges \cup {"link"}, NEW t,
           k = "reset" => row[a].verified, k = "change" => t \in Email,
           r = Attempt(k, a, t) \/ r = Challenge(k, a, t), Create(s, r, used, dead),
           \A x \in Secret : x \in used => Held(x) /\ Usable(x),
           \A x \in Secret : x \in dead => Held(x)
    PROVE  SecretsStep
<1>1. r = [state |-> "live", kind |-> k, of |-> a, ver |-> row[a].version,
           email |-> row[a].email, target |-> t, ready |-> FALSE]
  BY DEF Attempt, Challenge
<1>2. row[a].version \in 0..MaxVersion /\ row[a].email \in Email \cup {None}
  BY DEF AccountsTypeOK, RowsTypeOK, Row
<1>3. sec'[s] = r
  BY DEF Create
<1>4. k \in Kinds /\ k \notin {"invite", "join"}
  BY DEF Kinds, Proofs, Challenges
<1>5. HeldTypeOK(s)'
  BY <1>1, <1>2, <1>3, <1>4 DEF HeldTypeOK
<1>6. Usable(s)'
  BY <1>1, <1>3, <1>4 DEF Usable, Active, Exists
<1>7. SecretsTypeOK /\ JoinRefers(s)'
  BY <1>1, <1>3, <1>4 DEF AccountsTypeOK, JoinRefers
<1>8. /\ r.state = "live"
      /\ r = [state |-> r.state, kind |-> r.kind, of |-> r.of, ver |-> r.ver,
              email |-> r.email, target |-> r.target, ready |-> r.ready]
  BY <1>1
<1> HIDE <1>1
<1> QED
  BY <1>5, <1>6, <1>7, <1>8, CreateStep

LEMMA StartLinkStep ==
    ASSUME AccountsTypeOK, NEW a \in Account, NEW s \in Secret, StartLink(a, s)
    PROVE  Step
<1>1. Exists(a) /\ row[a].enabled
  BY SignedIsActive DEF StartLink
<1>2. PICK old \in Replaced("link") : Create(s, Attempt("link", a, None), {}, old)
  BY DEF StartLink
<1>3. \A x \in Secret : x \in old => Held(x)
  BY <1>2, ListedAreHeld DEF Replaced
<1>4. SecretsStep
  BY <1>1, <1>2, <1>3, AttemptStep DEF StartLink
<1> QED
  BY <1>4, SecretsOnly DEF StartLink

LEMMA StartReauthStep ==
    ASSUME AccountsTypeOK, NEW a \in Account, NEW k \in Proofs, NEW t, NEW s \in Secret,
           StartReauth(a, k, t, s)
    PROVE  Step
<1>1. Exists(a) /\ row[a].enabled
  BY SignedIsActive DEF StartReauth
<1>2. PICK old \in Replaced(k) : Create(s, Attempt(k, a, t), {}, old)
  BY DEF StartReauth
<1>3. \A x \in Secret : x \in old => Held(x)
  BY <1>2, ListedAreHeld DEF Replaced
<1>4. k \notin Challenges
  BY DEF Proofs, Challenges
<1>5. SecretsStep
  BY <1>1, <1>2, <1>3, <1>4, AttemptStep DEF StartReauth, Challenges
<1> QED
  BY <1>5, SecretsOnly DEF StartReauth

LEMMA IssueChallengeStep ==
    ASSUME AccountsTypeOK, NEW a \in Account, NEW k \in {"verify", "change"}, NEW t \in Email,
           NEW s \in Secret, IssueChallenge(a, k, t, s)
    PROVE  Step
<1>1. Exists(a) /\ row[a].enabled
  BY SignedIsActive DEF IssueChallenge
<1>2. k \in Challenges /\ k # "reset"
  BY DEF Challenges
<1>3. \A x \in Superseded(k, a) : Held(x)
  BY ListedAreHeld
<1>4. PICK used : /\ Create(s, Challenge(k, a, t), used, Superseded(k, a))
                  /\ \A x \in used : Held(x) /\ Usable(x)
  <2>1. CASE Create(s, Challenge(k, a, t), {}, Superseded(k, a))
    BY <2>1
  <2>2. ASSUME NEW p \in AttemptsOf(a), Usable(p),
               Create(s, Challenge(k, a, t), {p}, Superseded(k, a))
        PROVE  \E used : /\ Create(s, Challenge(k, a, t), used, Superseded(k, a))
                         /\ \A x \in used : Held(x) /\ Usable(x)
    BY <2>2, ListedAreHeld
  <2> QED BY <2>1, <2>2 DEF IssueChallenge
<1>5. SecretsStep
  BY <1>1, <1>2, <1>3, <1>4, AttemptStep DEF IssueChallenge
<1> QED
  BY <1>5, SecretsOnly DEF IssueChallenge

LEMMA IssueResetStep ==
    ASSUME AccountsTypeOK, NEW a \in Account, NEW actor, NEW s \in Secret, IssueReset(a, s, actor)
    PROVE  Step
<1> DEFINE by == IF actor = None THEN None ELSE <<actor, row[actor].version>>
<1>1. Create(s, Challenge("reset", a, by), {}, Superseded("reset", a))
  BY DEF IssueReset
<1>2. \A x \in Superseded("reset", a) : Held(x)
  BY ListedAreHeld
<1>3. "reset" \in Challenges
  BY DEF Challenges
<1> HIDE DEF by
<1>4. SecretsStep
  BY <1>1, <1>2, <1>3, AttemptStep DEF IssueReset
<1> QED
  BY <1>4, SecretsOnly DEF IssueReset

\* One secret goes on, others may end.
LEMMA GoesOnStep ==
    ASSUME NEW s \in Secret, SecretsTypeOK, Held(s), DOMAIN sec' = Secret,
           (sec'[s] = [sec[s] EXCEPT !.state = "redeeming"] /\ sec[s].kind \in {"link", "join"})
             \/ sec'[s] = [sec[s] EXCEPT !.ready = TRUE],
           \A x \in Secret \ {s} : sec'[x] = sec[x] \/ (Held(x) /\ sec'[x] = Ended("dead"))
    PROVE  SecretsStep
<1>1. sec[s] = [state |-> sec[s].state, kind |-> sec[s].kind, of |-> sec[s].of,
                ver |-> sec[s].ver, email |-> sec[s].email, target |-> sec[s].target,
                ready |-> sec[s].ready]
  BY DEF SecretsTypeOK
<1>2. \/ /\ sec[s].kind \in {"link", "join"}
         /\ sec'[s] = [state |-> "redeeming", kind |-> sec[s].kind, of |-> sec[s].of,
                       ver |-> sec[s].ver, email |-> sec[s].email, target |-> sec[s].target,
                       ready |-> sec[s].ready]
      \/ sec'[s] = [state |-> sec[s].state, kind |-> sec[s].kind, of |-> sec[s].of,
                    ver |-> sec[s].ver, email |-> sec[s].email, target |-> sec[s].target,
                    ready |-> TRUE]
  BY <1>1
<1>3. GoesOn(s)
  BY <1>2 DEF GoesOn, Held
<1> QED
  BY <1>3 DEF SecretsStep, SecretEvolves

LEMMA ConsumeStep ==
    ASSUME AccountsTypeOK, NEW s \in Secret, ConsumeLink(s) \/ ConsumeJoin(s)
    PROVE  Step
<1>1. /\ sec[s].state = "live" /\ sec[s].kind \in {"link", "join"}
      /\ sec' = [sec EXCEPT ![s].state = "redeeming"]
      /\ UNCHANGED <<row, bootstrapped, sessions, changes>>
  BY DEF ConsumeLink, ConsumeJoin
<1>2. SecretsTypeOK /\ Held(s) /\ DOMAIN sec = Secret
  BY <1>1 DEF AccountsTypeOK, SecretsTypeOK, Held
<1>3. SecretsStep
  BY <1>1, <1>2, GoesOnStep
<1> QED
  BY <1>1, <1>3, SecretsOnly

LEMMA LinkProviderStep ==
    ASSUME AccountsTypeOK, NEW s \in Secret, LinkProvider(s)
    PROVE  Step
<1> DEFINE a == sec[s].of
           next == [row[a] EXCEPT !.linked = TRUE]
<1>1. Held(s) /\ sec[s].kind = "link" /\ a \in Account
  BY DEF LinkProvider, Held, AccountsTypeOK, SecretsTypeOK, HeldTypeOK
<1>2. row[a] \in Row /\ Exists(a) /\ row[a].enabled
  BY <1>1 DEF AccountsTypeOK, RowsTypeOK, LinkProvider, Active
<1>3. /\ next \in Row /\ next.state = row[a].state /\ next.version = row[a].version
      /\ next.enabled = row[a].enabled /\ next.admin = row[a].admin /\ next.linked
  BY <1>2 DEF Row
<1>4. Usable(s)
  BY <1>1 DEF LinkProvider, Usable, Challenges
<1>5. SecretsStep
  BY <1>1, <1>4, ListedAreHeld, SettleStep DEF AccountsTypeOK, LinkProvider
<1>6. Change /\ Bump(a, next) /\ SignIn(a) /\ bootstrapped' = bootstrapped
  BY DEF LinkProvider
<1> HIDE DEF next, a
<1> QED
  BY <1>1, <1>2, <1>3, <1>5, <1>6, BumpStep DEF Exists

LEMMA FinishReauthStep ==
    ASSUME AccountsTypeOK, NEW s \in Secret, FinishReauth(s)
    PROVE  Step
<1>1. Held(s) /\ sec[s].state = "live"
  BY DEF FinishReauth, Held
<1>2. SecretsTypeOK
  BY DEF AccountsTypeOK
<1>3. CASE Settle({}, {s})
  BY <1>1, <1>2, <1>3, SettleStep, SecretsOnly DEF FinishReauth
<1>4. ASSUME NEW old \in SUBSET {p \in Secret \ {s} : sec[p].state = "live" /\ sec[p].ready
                                                      /\ sec[p].kind = sec[s].kind},
             sec' = [p \in Secret |-> IF p = s THEN [sec[s] EXCEPT !.ready = TRUE]
                                      ELSE IF p \in old THEN Ended("dead") ELSE sec[p]]
      PROVE  Step
  <2>1. \A x \in old : Held(x)
    BY DEF Held
  <2>2. SecretsStep
    BY <1>1, <1>2, <1>4, <2>1, GoesOnStep
  <2> QED BY <2>2, SecretsOnly DEF FinishReauth
<1> QED
  BY <1>3, <1>4 DEF FinishReauth

LEMMA DeliverStep ==
    ASSUME AccountsTypeOK, NEW s \in Secret, Deliver(s)
    PROVE  Step
<1>1. Held(s) /\ sec[s].state = "live"
  BY DEF Deliver, Held
<1>2. SecretsTypeOK
  BY DEF AccountsTypeOK
<1>3. CASE Settle({}, {s})
  BY <1>1, <1>2, <1>3, SettleStep, SecretsOnly DEF Deliver
<1>4. CASE sec' = [sec EXCEPT ![s].ready = TRUE]
  <2>1. DOMAIN sec = Secret
    BY <1>2 DEF SecretsTypeOK
  <2>2. SecretsStep
    BY <1>1, <1>2, <1>4, <2>1, GoesOnStep
  <2> QED BY <2>2, SecretsOnly DEF Deliver
<1> QED
  BY <1>3, <1>4 DEF Deliver

LEMMA ConfirmEmailStep ==
    ASSUME AccountsTypeOK, NEW s \in Secret, ConfirmEmail(s)
    PROVE  Step
<1> DEFINE a == sec[s].of
<1>1. Held(s) /\ a \in Account /\ Usable(s) /\ (sec[s].kind = "change" => sec[s].target \in Email)
  BY DEF ConfirmEmail, Held, AccountsTypeOK, SecretsTypeOK, HeldTypeOK
<1>2. row[a] \in Row /\ Exists(a) /\ row[a].enabled
  BY <1>1, SignedIsActive DEF AccountsTypeOK, RowsTypeOK, ConfirmEmail
<1>3. SecretsStep
  BY <1>1, SettleStep DEF AccountsTypeOK, ConfirmEmail
<1>4. Change /\ bootstrapped' = bootstrapped
  BY DEF ConfirmEmail
<1>5. ASSUME row' = [row EXCEPT ![a].verified = TRUE], UNCHANGED sessions PROVE Step
  <2> DEFINE r == [row[a] EXCEPT !.verified = TRUE]
  <2>1. /\ r \in Row /\ r.state = "live" /\ r.version = row[a].version /\ r.email = row[a].email
        /\ r.enabled = row[a].enabled /\ r.admin = row[a].admin /\ r.verified
        /\ r.password = row[a].password /\ r.linked = row[a].linked
    BY <1>2 DEF Row, Exists
  <2>2. row' = [row EXCEPT ![a] = r]
    BY <1>5
  <2> HIDE DEF r, a
  <2>3. RowsStep
    BY <1>1, <1>2, <1>4, <2>1, <2>2, KeepRow, ChangeCounts DEF AccountsTypeOK
  <2> QED BY <1>3, <1>5, <2>3 DEF Step, SessionsStep
<1>6. ASSUME sec[s].kind = "change", SignIn(a),
             Bump(a, [row[a] EXCEPT !.email = sec[s].target, !.verified = TRUE])
      PROVE  Step
  <2> DEFINE next == [row[a] EXCEPT !.email = sec[s].target, !.verified = TRUE]
  <2>1. /\ next \in Row /\ next.state = row[a].state /\ next.version = row[a].version
        /\ next.enabled = row[a].enabled /\ next.admin = row[a].admin
        /\ next.password = row[a].password /\ next.linked = row[a].linked
    BY <1>1, <1>2, <1>6 DEF Row
  <2>2. Bump(a, next)
    BY <1>6
  <2> HIDE DEF next, a
  <2> QED BY <1>1, <1>2, <1>3, <1>4, <1>6, <2>1, <2>2, BumpStep DEF Exists
<1> QED
  BY <1>5, <1>6 DEF ConfirmEmail

LEMMA ResetPasswordStep ==
    ASSUME AccountsTypeOK, NEW s \in Secret, ResetPassword(s)
    PROVE  Step
<1> DEFINE a == sec[s].of
           next == [row[a] EXCEPT !.password = TRUE]
<1>1. Held(s) /\ sec[s].kind = "reset" /\ a \in Account /\ Usable(s)
  BY DEF ResetPassword, Held, AccountsTypeOK, SecretsTypeOK, HeldTypeOK
<1>2. row[a] \in Row /\ Exists(a) /\ row[a].enabled
  BY <1>1 DEF AccountsTypeOK, RowsTypeOK, Usable, Active, Challenges
<1>3. /\ next \in Row /\ next.state = row[a].state /\ next.version = row[a].version
      /\ next.enabled = row[a].enabled /\ next.admin = row[a].admin /\ next.password
  BY <1>2 DEF Row
<1>4. SecretsStep
  BY <1>1, ListedAreHeld, SettleStep DEF AccountsTypeOK, ResetPassword
<1>5. Change /\ Bump(a, next) /\ UNCHANGED <<sessions, bootstrapped>>
  BY DEF ResetPassword
<1> HIDE DEF next, a
<1> QED
  BY <1>1, <1>2, <1>3, <1>4, <1>5, BumpStep DEF Exists

LEMMA ExpireStep ==
    ASSUME AccountsTypeOK, NEW s \in Secret, Expire(s)
    PROVE  Step
<1>1. Held(s) /\ SecretsTypeOK
  BY DEF Expire, Held, AccountsTypeOK
<1>2. SecretsStep
  BY <1>1, SettleStep DEF Expire
<1> QED
  BY <1>2, SecretsOnly DEF Expire

\* An invitation by an administrator is usable.
LEMMA InvitationStep ==
    ASSUME AccountsTypeOK, NEW a \in Account, NEW e \in Email, NEW s \in Secret, NEW dead,
           Administrator(a), UNCHANGED row, Create(s, Invitation(a, e), {}, dead),
           \A x \in Secret : x \in dead => Held(x)
    PROVE  SecretsStep
<1> DEFINE r == Invitation(a, e)
<1>1. r = [state |-> "live", kind |-> "invite", of |-> a, ver |-> 0, email |-> e,
           target |-> None, ready |-> TRUE]
  BY DEF Invitation
<1>2. sec'[s] = r
  BY DEF Create
<1> HIDE DEF r
<1>3. HeldTypeOK(s)' /\ JoinRefers(s)'
  BY <1>1, <1>2, AccountsAssumption DEF HeldTypeOK, Kinds, JoinRefers
<1>4. Usable(s)'
  <2>1. Exists(a)' /\ row'[a].enabled /\ row'[a].admin
    BY SignedIsActive DEF Administrator, Exists
  <2>2. sec'[s].kind = "invite" /\ sec'[s].of = a
    BY <1>1, <1>2
  <2> QED BY <2>1, <2>2 DEF Usable, Challenges
<1>5. /\ r.state = "live"
      /\ r = [state |-> r.state, kind |-> r.kind, of |-> r.of, ver |-> r.ver,
              email |-> r.email, target |-> r.target, ready |-> r.ready]
  BY <1>1
<1>6. SecretsTypeOK /\ Create(s, r, {}, dead)
  BY DEF AccountsTypeOK, r
<1> QED
  BY <1>3, <1>4, <1>5, <1>6, CreateStep

LEMMA InviteStep ==
    ASSUME AccountsTypeOK, NEW a \in Account, NEW e \in Email, NEW s \in Secret, Invite(a, e, s)
    PROVE  Step
<1>1. SecretsStep
  BY InvitationStep, ListedAreHeld DEF Invite
<1> QED
  BY <1>1, SecretsOnly DEF Invite

LEMMA ResendStep ==
    ASSUME AccountsTypeOK, NEW a \in Account, NEW old \in Secret, NEW s \in Secret,
           Resend(a, old, s)
    PROVE  Step
<1>1. Held(old) /\ sec[old].email \in Email
  BY DEF Resend, Held, AccountsTypeOK, SecretsTypeOK, HeldTypeOK
<1>2. SecretsStep
  BY <1>1, InvitationStep DEF Resend
<1> QED
  BY <1>2, SecretsOnly DEF Resend

LEMMA RevokeInvitationStep ==
    ASSUME AccountsTypeOK, NEW a \in Account, NEW s \in Secret, RevokeInvitation(a, s)
    PROVE  Step
<1>1. Held(s) /\ SecretsTypeOK
  BY DEF RevokeInvitation, Held, AccountsTypeOK
<1>2. SecretsStep
  BY <1>1, SettleStep DEF RevokeInvitation
<1> QED
  BY <1>2, SecretsOnly DEF RevokeInvitation

LEMMA StartJoinStep ==
    ASSUME AccountsTypeOK, NEW s \in Secret, NEW i \in Secret, StartJoin(s, i)
    PROVE  Step
<1> DEFINE r == [state |-> "live", kind |-> "join", of |-> sec[i].of, ver |-> 0, email |-> None,
                 target |-> i, ready |-> FALSE]
<1>1. PICK old \in Replaced("join") : Create(s, r, {}, old)
  BY DEF StartJoin
<1>2. /\ r.state = "live" /\ r.kind = "join" /\ r.of = sec[i].of /\ r.ver = 0
      /\ r.email = None /\ r.target = i
  OBVIOUS
<1>3. sec'[s] = r
  BY <1>1 DEF Create
<1>4. sec[i].of \in Account
  BY DEF StartJoin, Held, AccountsTypeOK, SecretsTypeOK, HeldTypeOK
<1>5. HeldTypeOK(s)'
  BY <1>2, <1>3, <1>4, AccountsAssumption DEF HeldTypeOK, Kinds
<1>6. Usable(s)' /\ JoinRefers(s)'
  <2>1. sec'[s].kind = "join" /\ sec'[s].target = i
    BY <1>2, <1>3
  <2>2. sec[i].state = "live" /\ sec[i].kind = "invite" /\ i # s /\ i \notin old
    BY <1>1 DEF StartJoin, Create, Unborn, Replaced, InItsPlace, Proofs
  <2>3. sec'[i] = sec[i]
    BY <1>1, <2>2 DEF Create
  <2> QED BY <2>1, <2>2, <2>3 DEF Usable, Challenges, JoinRefers, Held
<1>7. /\ r.state = "live"
      /\ r = [state |-> r.state, kind |-> r.kind, of |-> r.of, ver |-> r.ver,
              email |-> r.email, target |-> r.target, ready |-> r.ready]
  BY <1>2
<1>8. SecretsTypeOK /\ \A x \in Secret : x \in old => Held(x)
  BY <1>1, ListedAreHeld DEF Replaced, AccountsTypeOK
<1> HIDE DEF r
<1>9. SecretsStep
  BY <1>1, <1>5, <1>6, <1>7, <1>8, CreateStep
<1> QED
  BY <1>9, SecretsOnly DEF StartJoin

\* An account is born to the holder of an invitation.
LEMMA RedeemedStep ==
    ASSUME AccountsTypeOK, NEW a \in Account, NEW r \in Row, NewAccount(a), Change,
           r.state = "live", r.enabled, r.version = 1, row' = [row EXCEPT ![a] = r],
           SignIn(a), SecretsStep, bootstrapped' = bootstrapped
    PROVE  Step
<1>1. RowsTypeOK /\ row[a].state = "none"
  BY DEF AccountsTypeOK, NewAccount
<1>2. Joins(a) /\ StaysAdministered(a)
  BY <1>1, OneRow DEF Joins, StaysAdministered, UsableAdministrator, Exists
<1>3. RowsStep
  BY <1>1, <1>2, OneRow, ChangeCounts DEF RowsStep, Evolves, RowsTypeOK
<1>4. SessionsStep
  BY <1>1, OneRow, SignInStep DEF Exists
<1> QED
  BY <1>3, <1>4 DEF Step

LEMMA RedeemStep ==
    ASSUME AccountsTypeOK, NEW s \in Secret, NEW a \in Account, Redeem(s, a)
    PROVE  Step
<1>1. Held(s) /\ Usable(s) /\ sec[s].email \in Email
  BY DEF Redeem, Held, AccountsTypeOK, SecretsTypeOK, HeldTypeOK
<1> DEFINE m == Member(sec[s].email)
           r == [m EXCEPT !.password = TRUE]
<1>2. m \in Row /\ m.state = "live" /\ m.enabled /\ m.version = 1
  BY <1>1, MemberIsRow
<1> HIDE DEF m
<1>3. r \in Row /\ r.state = "live" /\ r.enabled /\ r.version = 1
  BY <1>2 DEF Row
<1>4. SecretsStep
  BY <1>1, SettleStep DEF AccountsTypeOK, Redeem
<1>5. row' = [row EXCEPT ![a] = r]
  BY DEF m, Redeem
<1> HIDE DEF r
<1> QED
  BY <1>3, <1>4, <1>5, RedeemedStep DEF Redeem

LEMMA RedeemByProviderStep ==
    ASSUME AccountsTypeOK, NEW s \in Secret, NEW a \in Account, RedeemByProvider(s, a)
    PROVE  Step
<1> DEFINE i == sec[s].target
<1>1. Held(s) /\ Usable(s) /\ i \in Secret
  BY DEF RedeemByProvider, Held, Usable, Challenges, AccountsTypeOK, SecretsTypeOK, HeldTypeOK
<1>2. Held(i) /\ Usable(i) /\ HeldTypeOK(i)
  BY <1>1 DEF RedeemByProvider, Held, AccountsTypeOK, SecretsTypeOK
<1>3. sec[i].email \in Email
  BY <1>1, <1>2 DEF RedeemByProvider, HeldTypeOK, JoinRefers, AccountsTypeOK, SecretsTypeOK
<1> DEFINE m == Member(sec[i].email)
           r == [m EXCEPT !.linked = TRUE]
<1>4. m \in Row /\ m.state = "live" /\ m.enabled /\ m.version = 1
  BY <1>3, MemberIsRow
<1> HIDE DEF m
<1>5. r \in Row /\ r.state = "live" /\ r.enabled /\ r.version = 1
  BY <1>4 DEF Row
<1>6. SecretsStep
  BY <1>1, <1>2, SettleStep DEF AccountsTypeOK, RedeemByProvider
<1>7. row' = [row EXCEPT ![a] = r]
  BY DEF m, RedeemByProvider
<1> HIDE DEF r
<1> QED
  BY <1>5, <1>6, <1>7, RedeemedStep DEF RedeemByProvider

\* What two administrators' rows allow.
LEMMA ActsOnAnother ==
    ASSUME AccountsTypeOK, NEW actor \in Account, NEW target \in Account, Acts(actor, target)
    PROVE  /\ row[target] \in Row /\ Exists(target) /\ Writable(target)
           /\ Exists(actor) /\ row[actor].enabled /\ actor # target
  BY SignedIsActive DEF Acts, Administrator, AccountsTypeOK, RowsTypeOK

LEMMA DisableStep ==
    ASSUME AccountsTypeOK, NEW actor \in Account, NEW target \in Account,
           NEW d \in {"none", "running", "passed"}, Disable(actor, target, d)
    PROVE  Step
<1>1. /\ row[target] \in Row /\ Exists(target) /\ Writable(target)
      /\ UNCHANGED <<sessions, bootstrapped>> /\ changes' \in 0..MaxChanges
  BY ActsOnAnother, ChangeCounts DEF Disable, AccountsTypeOK
<1>2. SessionsStep
  BY <1>1 DEF SessionsStep
<1>3. CASE ~row[target].enabled
  <2> DEFINE r == [row[target] EXCEPT !.deadline = d]
  <2>1. /\ r \in Row /\ r.state = row[target].state /\ r.version = row[target].version
        /\ r.enabled = row[target].enabled /\ r.admin = row[target].admin
        /\ r.email = row[target].email /\ r.verified = row[target].verified
        /\ r.password = row[target].password /\ r.linked = row[target].linked
    BY <1>1 DEF Row
  <2>2. row' = [row EXCEPT ![target] = r] /\ UNCHANGED sec
    BY <1>3 DEF Disable
  <2> HIDE DEF r
  <2>3. RowsStep
    BY <1>1, <2>1, <2>2, KeepRow DEF AccountsTypeOK, Exists
  <2> QED BY <1>2, <2>2, <2>3, SameSecrets DEF Step, AccountsTypeOK
<1>4. CASE row[target].enabled
  <2> DEFINE r == [Disabled(target) EXCEPT !.deadline = d]
  <2>1. row[target].version < MaxVersion /\ row[target].version \in Nat /\ MaxVersion \in Nat
    BY <1>1, AccountsAssumption DEF Disable, Row
  <2>2. /\ Disabled(target) \in Row /\ Disabled(target).state = row[target].state
        /\ Disabled(target).version = row[target].version + 1
        /\ Disabled(target).admin = row[target].admin
    <3> DEFINE v == row[target].version
    <3>1. v + 1 \in 0..MaxVersion
      BY <2>1
    <3>2. Disabled(target) = [row[target] EXCEPT !.enabled = FALSE, !.version = v + 1]
      BY <1>1 DEF Disabled, Row
    <3> HIDE DEF v
    <3>3. [row[target] EXCEPT !.enabled = FALSE, !.version = v + 1] \in Row
      BY <1>1, <3>1 DEF Row
    <3> QED BY <1>1, <3>2, <3>3 DEF Row, v
  <2>3. /\ r \in Row /\ r.state = row[target].state /\ r.version = row[target].version + 1
        /\ r.admin = row[target].admin
    BY <2>2 DEF Row
  <2>4. /\ row' = [row EXCEPT ![target] = r] /\ Settle({}, EndedByDisable(target))
        /\ row[target].admin => OtherAdministrator(target)
    BY <1>4 DEF Disable
  <2> HIDE DEF r
  <2>5. SecretsStep
    BY <2>4, ListedAreHeld, SettleStep DEF EndedByDisable, AccountsTypeOK
  <2>6. \A s \in InvitationsBy(target) : ~Held(s)'
    BY <2>4 DEF InvitationsBy, EndedByDisable, Settle, Ended, Unborn, Held
  <2>7. row'[target] = r /\ \A b \in Account \ {target} : row'[b] = row[b]
    BY <2>3, <2>4, OneRow DEF AccountsTypeOK
  <2>8. Moves(target)
    BY <1>1, <2>3, <2>6, <2>7 DEF Moves, Exists
  <2>9. StaysAdministered(target)
    BY <2>4, <2>7 DEF StaysAdministered, UsableAdministrator
  <2>10. RowsStep
    BY <1>1, <2>3, <2>4, <2>8, <2>9, OneRow DEF RowsStep, Evolves, AccountsTypeOK, RowsTypeOK
  <2> QED BY <1>2, <2>5, <2>10 DEF Step
<1> QED
  BY <1>3, <1>4

\* An account that is switched on again keeps the version it was switched off with.
LEMMA EnableStep ==
    ASSUME AccountsTypeOK, NEW actor \in Account, NEW target \in Account,
           EnableAccount(actor, target) \/ CancelDeletion(actor, target)
    PROVE  Step
<1>1. /\ row[target] \in Row /\ Exists(target)
      /\ UNCHANGED <<sessions, bootstrapped, sec>> /\ changes' \in 0..MaxChanges
  BY ActsOnAnother, ChangeCounts DEF EnableAccount, CancelDeletion, AccountsTypeOK
<1>2. PICK r \in Row :
        /\ row' = [row EXCEPT ![target] = r]
        /\ r.state = row[target].state /\ r.version = row[target].version
        /\ r.enabled /\ r.admin = row[target].admin
        /\ r.email = row[target].email /\ r.verified = row[target].verified
        /\ r.password = row[target].password /\ r.linked = row[target].linked
  <2>1. CASE EnableAccount(actor, target)
    <3> DEFINE r == [row[target] EXCEPT !.enabled = TRUE]
    <3>1. row' = [row EXCEPT ![target] = r]
      BY <2>1 DEF EnableAccount
    <3>2. /\ r \in Row /\ r.state = row[target].state /\ r.version = row[target].version
          /\ r.enabled /\ r.admin = row[target].admin
          /\ r.email = row[target].email /\ r.verified = row[target].verified
          /\ r.password = row[target].password /\ r.linked = row[target].linked
      BY <1>1 DEF Row
    <3> QED BY <3>1, <3>2
  <2>2. CASE CancelDeletion(actor, target)
    <3> DEFINE r == [row[target] EXCEPT !.deadline = "none", !.enabled = TRUE]
    <3>1. row' = [row EXCEPT ![target] = r]
      BY <2>2 DEF CancelDeletion, AccountsTypeOK, RowsTypeOK
    <3>2. /\ r \in Row /\ r.state = row[target].state /\ r.version = row[target].version
          /\ r.enabled /\ r.admin = row[target].admin
          /\ r.email = row[target].email /\ r.verified = row[target].verified
          /\ r.password = row[target].password /\ r.linked = row[target].linked
      BY <1>1 DEF Row
    <3> QED BY <3>1, <3>2
  <2> QED BY <2>1, <2>2
<1>3. RowsStep
  BY <1>1, <1>2, KeepRow DEF AccountsTypeOK, Exists
<1> QED
  BY <1>1, <1>3, SameSecrets DEF Step, SessionsStep, AccountsTypeOK

LEMMA DeadlinePassesStep ==
    ASSUME AccountsTypeOK, NEW a \in Account, DeadlinePasses(a)
    PROVE  Step
<1> DEFINE r == [row[a] EXCEPT !.deadline = "passed"]
<1>1. /\ row[a] \in Row /\ Exists(a) /\ row' = [row EXCEPT ![a] = r]
      /\ UNCHANGED <<sessions, bootstrapped, sec>> /\ changes' \in 0..MaxChanges
  BY DEF DeadlinePasses, AccountsTypeOK, RowsTypeOK
<1>2. /\ r \in Row /\ r.state = row[a].state /\ r.version = row[a].version
      /\ r.enabled = row[a].enabled /\ r.admin = row[a].admin
      /\ r.email = row[a].email /\ r.verified = row[a].verified
      /\ r.password = row[a].password /\ r.linked = row[a].linked
  BY <1>1 DEF Row
<1> HIDE DEF r
<1>3. RowsStep
  BY <1>1, <1>2, KeepRow DEF AccountsTypeOK, Exists
<1> QED
  BY <1>1, <1>3, SameSecrets DEF Step, SessionsStep, AccountsTypeOK

LEMMA MakeAdministratorStep ==
    ASSUME AccountsTypeOK, NEW a \in Account, MakeAdministrator(a)
    PROVE  Step
<1> DEFINE r == [row[a] EXCEPT !.admin = TRUE]
<1>1. /\ row[a] \in Row /\ Exists(a) /\ row' = [row EXCEPT ![a] = r]
      /\ UNCHANGED <<sessions, bootstrapped, sec>> /\ changes' \in 0..MaxChanges
  BY ChangeCounts DEF MakeAdministrator, AccountsTypeOK, RowsTypeOK
<1>2. /\ r \in Row /\ r.state = row[a].state /\ r.version = row[a].version
      /\ r.enabled = row[a].enabled /\ r.admin
      /\ r.email = row[a].email /\ r.verified = row[a].verified
      /\ r.password = row[a].password /\ r.linked = row[a].linked
  BY <1>1 DEF Row
<1> HIDE DEF r
<1>3. RowsStep
  BY <1>1, <1>2, KeepRow DEF AccountsTypeOK, Exists
<1> QED
  BY <1>1, <1>3, SameSecrets DEF Step, SessionsStep, AccountsTypeOK

LEMMA PurgeStep ==
    ASSUME AccountsTypeOK, NEW actor \in Account, NEW target \in Account, Purge(actor, target)
    PROVE  Step
<1> DEFINE r == [NoRow EXCEPT !.state = "gone"]
<1>1. /\ Exists(target) /\ Writable(target) /\ NoLease(target) /\ ~row[target].enabled
      /\ UNCHANGED <<sessions, bootstrapped>> /\ changes' \in 0..MaxChanges
      /\ row' = [row EXCEPT ![target] = r] /\ OtherAdministrator(target)
  BY ActsOnAnother, ChangeCounts DEF Purge, AccountsTypeOK
<1>2. r \in Row /\ r.state = "gone"
  <2>1. NoRow \in Row
    BY AccountsAssumption DEF NoRow, Row
  <2> QED BY <2>1 DEF Row
<1> HIDE DEF r
<1>3. /\ row' \in [Account -> Row] /\ row'[target] = r
      /\ \A b \in Account \ {target} : row'[b] = row[b] /\ Evolves(b) /\ StaysAdministered(b)
  BY <1>1, <1>2, OneRow DEF AccountsTypeOK
<1>4. Goes(target) /\ StaysAdministered(target)
  BY <1>1, <1>2, <1>3 DEF Goes, StaysAdministered
<1>5. RowsStep
  BY <1>1, <1>3, <1>4 DEF RowsStep, Evolves, AccountsTypeOK, RowsTypeOK
<1>6. SecretsStep
  <2>1. CASE Settle({}, Owned(target))
    BY <2>1, ListedAreHeld, SettleStep DEF AccountsTypeOK
  <2>2. ASSUME NEW p \in AttemptsOf(actor), Usable(p), Settle({p}, Owned(target))
        PROVE  SecretsStep
    BY <2>2, ListedAreHeld, SettleStep DEF AccountsTypeOK
  <2> QED BY <2>1, <2>2 DEF Purge
<1> QED
  BY <1>1, <1>5, <1>6 DEF Step, SessionsStep

\* No other action changes the accounts, and work in progress changes none of them.
LEMMA NextStep ==
    ASSUME AccountsTypeOK, AccountsNext
    PROVE  Step
<1>1. CASE UserNext
  <2>1. ASSUME NEW a \in Account, \/ LogIn(a) \/ ChangePassword(a) \/ UnlinkProvider(a)
                                  \/ SignOutEverywhere(a) \/ HostReset(a)
        PROVE  Step
    BY <2>1, LogInStep, ChangePasswordStep, UnlinkProviderStep, SignOutStep, HostResetStep
  <2>2. ASSUME NEW a \in Account, NEW s \in Secret,
               \/ StartLink(a, s)
               \/ \E k \in Proofs, t \in Email \cup Account \cup {None} : StartReauth(a, k, t, s)
               \/ \E k \in {"verify", "change"}, t \in Email : IssueChallenge(a, k, t, s)
               \/ \E actor \in Account \cup {None} : IssueReset(a, s, actor)
        PROVE  Step
    BY <2>2, StartLinkStep, StartReauthStep, IssueChallengeStep, IssueResetStep
  <2>3. ASSUME NEW s \in Secret,
               \/ ConsumeLink(s) \/ LinkProvider(s) \/ FinishReauth(s) \/ Deliver(s)
               \/ ConfirmEmail(s) \/ ResetPassword(s) \/ ConsumeJoin(s) \/ Expire(s)
        PROVE  Step
    BY <2>3, ConsumeStep, LinkProviderStep, FinishReauthStep, DeliverStep, ConfirmEmailStep,
       ResetPasswordStep, ExpireStep
  <2>4. ASSUME NEW s \in Secret,
               \/ \E i \in Secret : StartJoin(s, i)
               \/ \E a \in Account : Redeem(s, a) \/ RedeemByProvider(s, a)
        PROVE  Step
    BY <2>4, StartJoinStep, RedeemStep, RedeemByProviderStep
  <2> QED BY <1>1, <2>1, <2>2, <2>3, <2>4, BootstrapStep DEF UserNext
<1>2. CASE AdminNext
  <2>1. ASSUME NEW a \in Account, NEW t \in Account, DisableAccount(a, t) \/ RequestDeletion(a, t)
        PROVE  Step
    <3>1. row[t].deadline \in {"none", "running", "passed"}
      BY DEF AccountsTypeOK, RowsTypeOK, Row
    <3> QED BY <2>1, <3>1, DisableStep DEF DisableAccount, RequestDeletion
  <2>2. ASSUME NEW a \in Account, NEW s \in Secret,
               \/ \E e \in Email : Invite(a, e, s)
               \/ \E old \in Secret : Resend(a, old, s)
               \/ RevokeInvitation(a, s)
        PROVE  Step
    BY <2>2, InviteStep, ResendStep, RevokeInvitationStep
  <2>3. ASSUME NEW a \in Account, DeadlinePasses(a) \/ MakeAdministrator(a)
        PROVE  Step
    BY <2>3, DeadlinePassesStep, MakeAdministratorStep
  <2> QED BY <1>2, <2>1, <2>2, <2>3, EnableStep, PurgeStep DEF AdminNext
<1>3. CASE UnitNext
  <2>1. UNCHANGED <<row, bootstrapped, sessions, sec, changes>>
    BY <1>3 DEF UnitNext, OpenTransaction, TakeLease, SendUnderLease, EndUnit
  <2>2. SecretsStep
    BY <2>1, SameSecrets DEF AccountsTypeOK
  <2> QED BY <2>1, <2>2, SecretsOnly
<1> QED
  BY <1>1, <1>2, <1>3 DEF AccountsNext

\* Users and administrators wait for work in progress and do not touch it.
LEMMA OthersLeaveUnits ==
    ASSUME UserNext \/ AdminNext
    PROVE  UNCHANGED unit
<1>1. CASE UserNext
  <2>1. ASSUME NEW a \in Account, \/ LogIn(a) \/ ChangePassword(a) \/ UnlinkProvider(a)
                                  \/ SignOutEverywhere(a) \/ HostReset(a)
        PROVE  UNCHANGED unit
    BY <2>1 DEF LogIn, ChangePassword, UnlinkProvider, SignOutEverywhere, HostReset
  <2>2. ASSUME NEW a \in Account, NEW s \in Secret,
               \/ StartLink(a, s)
               \/ \E k \in Proofs, t \in Email \cup Account \cup {None} : StartReauth(a, k, t, s)
               \/ \E k \in {"verify", "change"}, t \in Email : IssueChallenge(a, k, t, s)
               \/ \E actor \in Account \cup {None} : IssueReset(a, s, actor)
        PROVE  UNCHANGED unit
    BY <2>2 DEF StartLink, StartReauth, IssueChallenge, IssueReset
  <2>3. ASSUME NEW s \in Secret,
               \/ ConsumeLink(s) \/ LinkProvider(s) \/ FinishReauth(s) \/ Deliver(s)
               \/ ConfirmEmail(s) \/ ResetPassword(s) \/ ConsumeJoin(s) \/ Expire(s)
        PROVE  UNCHANGED unit
    BY <2>3 DEF ConsumeLink, LinkProvider, FinishReauth, Deliver, ConfirmEmail, ResetPassword,
       ConsumeJoin, Expire
  <2>4. ASSUME NEW s \in Secret,
               \/ \E i \in Secret : StartJoin(s, i)
               \/ \E a \in Account : Redeem(s, a) \/ RedeemByProvider(s, a)
        PROVE  UNCHANGED unit
    BY <2>4 DEF StartJoin, Redeem, RedeemByProvider
  <2>5. ASSUME NEW e \in Email, Bootstrap(e) PROVE UNCHANGED unit
    BY <2>5 DEF Bootstrap
  <2> QED BY <1>1, <2>1, <2>2, <2>3, <2>4, <2>5 DEF UserNext
<1>2. CASE AdminNext
  BY <1>2 DEF AdminNext, Invite, Resend, RevokeInvitation, DisableAccount, RequestDeletion,
     Disable, EnableAccount, CancelDeletion, Purge, DeadlinePasses, MakeAdministrator
<1> QED
  BY <1>1, <1>2

-----------------------------------------------------------------------------
(***************************************************************************)
(* The inductive invariant.                                                *)
(***************************************************************************)

\* The installations that are begun with.
LEMMA InitIInv == AccountsInit => IInv
<1> SUFFICES ASSUME AccountsInit PROVE IInv
  OBVIOUS
<1>1. Addresses \in [Account -> Email]
  BY AccountsAssumption DEF Addresses
<1>2. \A a \in Account : row[a] = NoRow \/
          row[a] = [Ordinary(Addresses[a]) EXCEPT !.admin = TRUE, !.password = (a = First)]
  BY DEF AccountsInit
<1>3. NoRow \in Row
  BY AccountsAssumption DEF NoRow, Row
<1>4. ASSUME NEW a \in Account
      PROVE  [Ordinary(Addresses[a]) EXCEPT !.admin = TRUE, !.password = (a = First)] \in Row
  <2>1. Member(Addresses[a]) \in Row
    BY <1>1, MemberIsRow
  <2>2. Ordinary(Addresses[a]) \in Row
    BY <2>1 DEF Ordinary, Row
  <2> QED BY <2>2 DEF Row
<1>5. row \in [Account -> Row]
  <2>1. DOMAIN row = Account /\ row = [a \in Account |-> row[a]]
    BY DEF AccountsInit
  <2>2. \A a \in Account : row[a] \in Row
    BY <1>2, <1>3, <1>4
  <2> QED BY <2>1, <2>2
<1>6. RowsTypeOK
  <2>1. bootstrapped \in BOOLEAN
    BY DEF AccountsInit, Exists
  <2>2. changes \in 0..MaxChanges
    <3>1. changes = MaxChanges /\ MaxChanges \in Nat
      BY AccountsAssumption, Zenon DEF AccountsInit
    <3> QED BY <3>1
  <2> QED BY <1>5, <2>1, <2>2 DEF RowsTypeOK
<1>7. \A s \in Secret : sec[s] = Unborn /\ ~Held(s)
  BY DEF AccountsInit, Unborn, Held
<1>8. SecretsTypeOK
  BY <1>7 DEF SecretsTypeOK, AccountsInit, Unborn, JoinRefers
<1>9. SessionsTypeOK /\ SessionsBelong
  BY DEF AccountsInit, SessionsTypeOK, SessionsBelong
<1>10. UnitsTypeOK
  <2>1. 0 \in 0..MaxVersion
    BY AccountsAssumption
  <2> QED BY <2>1 DEF AccountsInit, UnitsTypeOK, Idle
<1>11. SecretsBelong /\ InvitationsBelong
  BY <1>7 DEF SecretsBelong, InvitationsBelong
<1> QED
  BY <1>6, <1>8, <1>9, <1>10, <1>11 DEF IInv, AccountsTypeOK

\* The secrets stay what the code can hold.
LEMMA SecretsTyped ==
    ASSUME SecretsTypeOK, SecretsStep
    PROVE  SecretsTypeOK'
<1>1. ASSUME NEW s \in Secret
      PROVE  /\ sec'[s] = [state |-> sec'[s].state, kind |-> sec'[s].kind, of |-> sec'[s].of,
                           ver |-> sec'[s].ver, email |-> sec'[s].email,
                           target |-> sec'[s].target, ready |-> sec'[s].ready]
             /\ sec'[s].state \in {"unborn", "live", "redeeming", "used", "dead"}
             /\ (Held(s) => HeldTypeOK(s))'
             /\ JoinRefers(s)'
  <2>1. SecretEvolves(s)
    BY DEF SecretsStep
  <2>2. CASE sec'[s] = sec[s] \/ GoesOn(s)
    <3>1. /\ sec'[s] = [state |-> sec'[s].state, kind |-> sec'[s].kind, of |-> sec'[s].of,
                        ver |-> sec'[s].ver, email |-> sec'[s].email,
                        target |-> sec'[s].target, ready |-> sec'[s].ready]
          /\ sec'[s].kind = sec[s].kind /\ sec'[s].of = sec[s].of /\ sec'[s].ver = sec[s].ver
          /\ sec'[s].email = sec[s].email /\ sec'[s].target = sec[s].target
          /\ Held(s)' <=> Held(s)
          /\ sec'[s].state \in {"unborn", "live", "redeeming", "used", "dead"}
          /\ sec'[s].state = sec[s].state \/ sec[s].kind \in {"link", "join"}
      BY <2>2 DEF GoesOn, SecretsTypeOK, Held
    <3>2. (Held(s) => HeldTypeOK(s))'
      BY <3>1 DEF SecretsTypeOK, HeldTypeOK
    <3>3. JoinRefers(s)'
      <4> DEFINE i == sec[s].target
      <4> SUFFICES ASSUME Held(s)', sec'[s].kind = "join"
                   PROVE  /\ sec'[i].state # "unborn"
                          /\ sec'[i].state \in {"live", "redeeming"} => sec'[i].kind = "invite"
        BY <3>1 DEF JoinRefers, Held
      <4>1. i \in Secret /\ sec[i].state # "unborn" /\ (Held(i) => sec[i].kind = "invite")
        BY <3>1 DEF SecretsTypeOK, HeldTypeOK, JoinRefers
      <4> HIDE DEF i
      <4>2. SecretEvolves(i) /\ ~Begins(i)
        BY <4>1 DEF SecretsStep, Begins, Unborn
      <4>3. CASE sec'[i] = sec[i]
        BY <4>1, <4>3 DEF Held
      <4>4. CASE GoesOn(i)
        BY <4>1, <4>4 DEF GoesOn, Held
      <4>5. CASE sec'[i] = Ended("used") \/ sec'[i] = Ended("dead")
        BY <4>5 DEF Ended, Unborn
      <4> QED BY <4>2, <4>3, <4>4, <4>5 DEF SecretEvolves
    <3> QED BY <3>1, <3>2, <3>3
  <2>3. CASE Begins(s)
    BY <2>3 DEF Begins
  <2>4. CASE sec'[s] = Ended("used") \/ sec'[s] = Ended("dead")
    BY <2>4 DEF Ended, Unborn, Held, JoinRefers
  <2> QED BY <2>1, <2>2, <2>3, <2>4 DEF SecretEvolves
<1> QED
  BY <1>1 DEF SecretsStep, SecretsTypeOK

\* Everything keeps its type.
LEMMA TypeStep ==
    ASSUME AccountsTypeOK, AccountsNext
    PROVE  AccountsTypeOK'
<1>1. Step
  BY NextStep
<1>2. RowsTypeOK'
  BY <1>1 DEF Step, RowsStep, RowsTypeOK
<1>3. SecretsTypeOK'
  BY <1>1, SecretsTyped DEF Step, AccountsTypeOK
<1>4. SessionsTypeOK'
  <2>1. ASSUME NEW p \in sessions' PROVE p \in Account \X (0..MaxVersion)
    <3>1. CASE p \in sessions
      BY <3>1 DEF AccountsTypeOK, SessionsTypeOK
    <3>2. ASSUME NEW a, Exists(a)', p = <<a, row'[a].version>>, a \in Account
          PROVE  p \in Account \X (0..MaxVersion)
      BY <1>2, <3>2 DEF RowsTypeOK, Row
    <3> QED BY <1>1, <3>1, <3>2 DEF Step, SessionsStep
  <2> QED BY <2>1 DEF SessionsTypeOK
<1>5. UnitsTypeOK'
  <2>1. CASE UNCHANGED unit
    BY <2>1 DEF AccountsTypeOK, UnitsTypeOK
  <2>2. CASE UnitNext
    <3>1. UnitsTypeOK /\ SessionsTypeOK
      BY DEF AccountsTypeOK
    <3>2. ASSUME NEW u \in Unit, NEW a \in Account, NEW v \in 1..MaxVersion,
                 OpenTransaction(u, a, v) \/ TakeLease(u, a, v)
          PROVE  UnitsTypeOK'
      <4>1. v \in 0..MaxVersion
        BY AccountsAssumption
      <4> QED BY <3>1, <3>2, <4>1 DEF UnitsTypeOK, OpenTransaction, TakeLease
    <3>3. ASSUME NEW u \in Unit, SendUnderLease(u) \/ EndUnit(u)
          PROVE  UnitsTypeOK'
      <4>1. 0 \in 0..MaxVersion
        BY AccountsAssumption
      <4> QED BY <3>1, <3>3, <4>1 DEF UnitsTypeOK, SendUnderLease, EndUnit, Idle
    <3> QED BY <2>2, <3>2, <3>3 DEF UnitNext
  <2> QED BY <2>1, <2>2, OthersLeaveUnits DEF AccountsNext
<1> QED
  BY <1>2, <1>3, <1>4, <1>5 DEF AccountsTypeOK

\* Versions only grow, so what has ended stays so.
LEMMA SessionsBelongStep ==
    ASSUME IInv, AccountsNext
    PROVE  SessionsBelong'
<1>1. Step /\ AccountsTypeOK /\ SessionsBelong
  BY NextStep DEF IInv
<1>2. ASSUME NEW p \in sessions' \ sessions
      PROVE  (row[p[1]].state # "none" /\ (Exists(p[1]) =>
                /\ p[2] <= row[p[1]].version
                /\ p[2] = row[p[1]].version => row[p[1]].enabled))'
  <2>1. PICK a \in Account : Exists(a)' /\ row'[a].enabled /\ p = <<a, row'[a].version>>
    BY <1>1 DEF Step, SessionsStep
  <2>2. row'[a].version \in 0..MaxVersion
    BY <1>1 DEF Step, RowsStep, Row
  <2> QED BY <2>1, <2>2 DEF Exists
<1>3. ASSUME NEW p \in sessions
      PROVE  (row[p[1]].state # "none" /\ (Exists(p[1]) =>
                /\ p[2] <= row[p[1]].version
                /\ p[2] = row[p[1]].version => row[p[1]].enabled))'
  <2> DEFINE a == p[1]
             v == p[2]
  <2>1. a \in Account /\ v \in 0..MaxVersion
    BY <1>1 DEF AccountsTypeOK, SessionsTypeOK
  <2>2. row[a].state # "none" /\ (Exists(a) => v <= row[a].version
                                    /\ (v = row[a].version => row[a].enabled))
    BY <1>1 DEF SessionsBelong
  <2>3. row[a].version \in 0..MaxVersion /\ Evolves(a)
    BY <1>1, <2>1 DEF Step, RowsStep, AccountsTypeOK, RowsTypeOK, Row
  <2> HIDE DEF a, v
  <2>4. (row[a].state # "none" /\ (Exists(a) => v <= row[a].version
                                    /\ (v = row[a].version => row[a].enabled)))'
    BY <2>1, <2>2, <2>3 DEF Evolves, Joins, Keeps, Moves, Goes, Exists
  <2> QED BY <2>4 DEF a, v, Exists
<1> QED
  BY <1>1, <1>2, <1>3 DEF SessionsBelong, Exists

\* What has become of a secret that is still held.
LEMMA HeldBefore ==
    ASSUME NEW s \in Secret, SecretsStep, SecretsTypeOK, Held(s)', ~Begins(s)
    PROVE  /\ Held(s) /\ HeldTypeOK(s)
           /\ sec'[s].kind = sec[s].kind /\ sec'[s].of = sec[s].of /\ sec'[s].ver = sec[s].ver
           /\ sec'[s].email = sec[s].email
<1>1. SecretEvolves(s)
  BY DEF SecretsStep
<1>2. sec'[s] = sec[s] \/ GoesOn(s)
  BY <1>1 DEF SecretEvolves, Ended, Unborn, Held
<1> QED
  BY <1>2 DEF GoesOn, Held, SecretsTypeOK

LEMMA SecretsBelongStep ==
    ASSUME IInv, AccountsNext
    PROVE  SecretsBelong'
<1>1. Step /\ AccountsTypeOK /\ SecretsTypeOK /\ SecretsBelong
  BY NextStep DEF IInv, AccountsTypeOK
<1> SUFFICES ASSUME NEW s \in Secret, Held(s)', sec'[s].kind \notin {"invite", "join"}
             PROVE  /\ row'[sec'[s].of].state # "none"
                    /\ row'[sec'[s].of].state = "live" =>
                         /\ sec'[s].ver <= row'[sec'[s].of].version
                         /\ sec'[s].ver = row'[sec'[s].of].version => Usable(s)'
  BY DEF SecretsBelong, Exists, Held
<1>2. CASE Begins(s)
  <2>1. PICK a \in Account : a = sec'[s].of
    BY <1>2 DEF Begins, HeldTypeOK
  <2>2. Usable(s)' /\ row'[a].state = "live" /\ row'[a].version = sec'[s].ver
    BY <1>2, <2>1 DEF Begins, Usable, Active, Exists, Challenges
  <2>3. row'[a].version \in 0..MaxVersion
    BY <1>1, <2>1 DEF Step, RowsStep, Row
  <2> QED BY <2>1, <2>2, <2>3
<1>3. CASE ~Begins(s)
  <2>a. PICK a \in Account : a = sec[s].of
    BY <1>1, <1>3, HeldBefore DEF Step, HeldTypeOK
  <2>1. /\ Held(s) /\ sec[s].of = a /\ sec'[s].kind = sec[s].kind /\ sec'[s].of = a /\ sec'[s].ver = sec[s].ver
        /\ sec'[s].email = sec[s].email /\ a \in Account /\ sec[s].ver \in 0..MaxVersion
    BY <1>1, <1>3, <2>a, HeldBefore DEF Step, HeldTypeOK
  <2>2. row[a].state # "none" /\ (Exists(a) => sec[s].ver <= row[a].version
                                    /\ (sec[s].ver = row[a].version => Usable(s)))
    BY <1>1, <2>1 DEF SecretsBelong
  <2>3. row[a].version \in 0..MaxVersion /\ Evolves(a)
    BY <1>1, <2>1 DEF Step, RowsStep, AccountsTypeOK, RowsTypeOK, Row
  <2>4. CASE row'[a] = row[a]
    <3>1. Usable(s) => Usable(s)'
      BY <2>1, <2>4 DEF Usable, Active, Exists
    <3> QED BY <2>1, <2>2, <2>4, <3>1 DEF Exists
  <2>5. CASE Keeps(a)
    <3>1. Usable(s) => Usable(s)'
      BY <2>1, <2>5 DEF Usable, Active, Exists, Keeps
    <3> QED BY <2>1, <2>2, <2>5, <3>1 DEF Exists, Keeps
  <2>6. CASE Joins(a) \/ Moves(a) \/ Goes(a)
    BY <2>1, <2>2, <2>3, <2>6 DEF Joins, Moves, Goes, Exists
  <2> QED BY <2>3, <2>4, <2>5, <2>6 DEF Evolves
<1> QED
  BY <1>2, <1>3

LEMMA InvitationsBelongStep ==
    ASSUME IInv, AccountsNext
    PROVE  InvitationsBelong'
<1>1. Step /\ AccountsTypeOK /\ SecretsTypeOK /\ InvitationsBelong
  BY NextStep DEF IInv, AccountsTypeOK
<1> SUFFICES ASSUME NEW s \in Secret, Held(s)', sec'[s].kind = "invite"
             PROVE  Usable(s)'
  BY DEF InvitationsBelong, Held
<1>2. CASE Begins(s)
  BY <1>2 DEF Begins
<1>3. CASE ~Begins(s)
  <2>a. PICK a \in Account : a = sec[s].of
    BY <1>1, <1>3, HeldBefore DEF Step, HeldTypeOK
  <2>1. /\ Held(s) /\ sec[s].kind = "invite" /\ sec[s].of = a /\ sec'[s].of = a
        /\ s \in InvitationsBy(a)
    BY <1>1, <1>3, <2>a, HeldBefore DEF Step, HeldTypeOK, InvitationsBy, Held
  <2>2. Exists(a) /\ row[a].enabled /\ row[a].admin
    BY <1>1, <2>1 DEF InvitationsBelong, Usable, Challenges
  <2>3. Evolves(a)
    BY <1>1, <2>1 DEF Step, RowsStep
  <2>4. Exists(a)' /\ row'[a].enabled /\ row'[a].admin
    BY <2>1, <2>2, <2>3 DEF Evolves, Joins, Keeps, Moves, Goes, Exists
  <2> QED BY <2>1, <2>4 DEF Usable, Challenges, Exists
<1> QED
  BY <1>2, <1>3

\* What cannot be used now is never usable again: the account has left the version, or
\* is gone.
LEMMA UnusableForGood ==
    ASSUME IInv, AccountsNext, NEW s \in Secret, Held(s), Held(s)', ~Usable(s)
    PROVE  ~Usable(s)'
<1>1. SecretsStep /\ RowsStep /\ SecretsTypeOK
  BY NextStep DEF IInv, AccountsTypeOK, Step
<1>2. ~Begins(s)
  BY DEF Begins, Unborn, Held
<1>3. PICK a \in Account : a = sec[s].of
  BY <1>1 DEF SecretsTypeOK, HeldTypeOK
<1>4. sec[s].kind \notin {"invite", "join"}
  BY DEF IInv, InvitationsBelong, Usable, Challenges
<1>5. /\ sec'[s].kind = sec[s].kind /\ sec'[s].of = a /\ sec'[s].ver = sec[s].ver
      /\ sec[s].ver \in 0..MaxVersion
  BY <1>1, <1>2, <1>3, HeldBefore DEF HeldTypeOK
<1>6. row[a].state # "none" /\ (Exists(a) => sec[s].ver < row[a].version)
      /\ row[a].version \in 0..MaxVersion
  BY <1>3, <1>4, <1>5 DEF IInv, SecretsBelong, AccountsTypeOK, RowsTypeOK, Row
<1>7. Evolves(a)
  BY <1>1 DEF RowsStep
<1>8. row'[a].state = "live" => row'[a].version # sec[s].ver
  BY <1>5, <1>6, <1>7 DEF Evolves, Joins, Keeps, Moves, Goes, Exists
<1> QED
  BY <1>4, <1>5, <1>8 DEF Usable, Active, Exists, Challenges

\* Every step keeps the invariant.
LEMMA NextIInv == IInv /\ [AccountsNext]_accountVars => IInv'
<1> SUFFICES ASSUME IInv, [AccountsNext]_accountVars PROVE IInv'
  OBVIOUS
<1>1. CASE AccountsNext
  BY <1>1, TypeStep, SessionsBelongStep, SecretsBelongStep, InvitationsBelongStep DEF IInv
<1>2. CASE UNCHANGED accountVars
  BY <1>2 DEF IInv, accountVars, AccountsTypeOK, RowsTypeOK, SecretsTypeOK, SessionsTypeOK,
     UnitsTypeOK, SessionsBelong, SecretsBelong, InvitationsBelong, Held, HeldTypeOK, JoinRefers,
     Exists, Usable, Active
<1> QED
  BY <1>1, <1>2

-----------------------------------------------------------------------------
(***************************************************************************)
(* The theorems.                                                           *)
(***************************************************************************)

\* Accounts, secrets, sessions and work in progress are always what the code can hold,
\* and no secret or session is ahead of its account's version.
THEOREM AccountsInvariant == AccountsSpec => []IInv
  BY InitIInv, NextIInv, PTL DEF AccountsSpec

\* A session whose account was disabled, purged or given a new version never works again
\* (session versions of app/auth.py, checked by every request).
THEOREM SessionsStayEnded == AccountsSpec => SessionsEndForGood
<1>1. IInv /\ [AccountsNext]_accountVars
        => [\A p \in sessions : ~Active(p[1], p[2]) => ~Active(p[1], p[2])']_accountVars
  <2> SUFFICES ASSUME IInv, AccountsNext, NEW p \in sessions, ~Active(p[1], p[2])
               PROVE  ~Active(p[1], p[2])'
    OBVIOUS
  <2>1. PICK a \in Account : a = p[1]
    BY DEF IInv, AccountsTypeOK, SessionsTypeOK
  <2>2. PICK v \in 0..MaxVersion : v = p[2]
    BY DEF IInv, AccountsTypeOK, SessionsTypeOK
  <2>3. row[a].state # "none" /\ (Exists(a) => v <= row[a].version
                                    /\ (v = row[a].version => row[a].enabled))
    BY <2>1, <2>2 DEF IInv, SessionsBelong
  <2>4. row[a].version \in 0..MaxVersion /\ Evolves(a)
    BY NextStep DEF IInv, AccountsTypeOK, RowsTypeOK, Row, Step, RowsStep
  <2>5. ~Active(a, v)
    BY <2>1, <2>2
  <2>6. ~Active(a, v)'
    BY <2>3, <2>4, <2>5 DEF Active, Exists, Evolves, Joins, Keeps, Moves, Goes
  <2> QED BY <2>1, <2>2, <2>6
<1> QED
  BY <1>1, AccountsInvariant, PTL DEF AccountsSpec, SessionsEndForGood

\* Once the installation has been set up, an enabled administrator with a way to sign in
\* remains (the checks of app/admin.py and of the unlinking in app/auth.py).
THEOREM AnAdministratorRemains == AccountsSpec => []AdministratorRemains
<1>1. AccountsInit => AdministratorRemains
  <2> SUFFICES ASSUME AccountsInit, bootstrapped PROVE UsableAdministrator(First)
    BY AccountsAssumption DEF AdministratorRemains
  <2>1. First \in Account /\ row[First].state = "live"
    BY AccountsAssumption DEF AccountsInit, Exists
  <2>2. row[First] = [Ordinary(Addresses[First]) EXCEPT !.admin = TRUE, !.password = (First = First)]
    <3>1. \A a \in Account : row[a] = NoRow \/
              row[a] = [Ordinary(Addresses[a]) EXCEPT !.admin = TRUE, !.password = (a = First)]
      BY DEF AccountsInit
    <3>2. row[First] # NoRow
      BY <2>1 DEF NoRow
    <3> QED BY <2>1, <3>1, <3>2
  <2>3. Addresses \in [Account -> Email]
    BY AccountsAssumption DEF Addresses
  <2>4. Member(Addresses[First]) \in Row /\ Member(Addresses[First]).enabled
    BY <2>1, <2>3, MemberIsRow
  <2>5. Ordinary(Addresses[First]) \in Row /\ Ordinary(Addresses[First]).enabled
    BY <2>4 DEF Ordinary, Row
  <2> QED BY <2>1, <2>2, <2>5 DEF UsableAdministrator, Exists, Row
<1>2. IInv /\ AdministratorRemains /\ [AccountsNext]_accountVars => AdministratorRemains'
  <2> SUFFICES ASSUME IInv, AdministratorRemains, AccountsNext, bootstrapped'
               PROVE  \E a \in Account : UsableAdministrator(a)'
    BY DEF AdministratorRemains, accountVars, UsableAdministrator, Exists
  <2>1. RowsStep
    BY NextStep DEF IInv, Step
  <2>2. CASE bootstrapped
    <3>1. PICK a \in Account : UsableAdministrator(a)
      BY <2>2 DEF AdministratorRemains
    <3>2. CASE OtherAdministrator(a) /\ \A b \in Account \ {a} : row'[b] = row[b]
      BY <3>2 DEF OtherAdministrator, UsableAdministrator, Exists
    <3> QED BY <2>1, <3>1, <3>2 DEF RowsStep, StaysAdministered
  <2>3. CASE ~bootstrapped
    BY <2>1, <2>3 DEF RowsStep
  <2> QED BY <2>2, <2>3
<1> QED
  BY <1>1, <1>2, AccountsInvariant, PTL DEF AccountsSpec

\* An open account transaction has the version it was opened with, and what is sent under
\* the account's lease has its account (share locks of app/db.py, leases and purges).
THEOREM WorkKeepsItsAccount == AccountsSpec => []WorkHasItsAccount
<1>1. AccountsInit => WorkHasItsAccount
  <2> SUFFICES ASSUME AccountsInit PROVE WorkHasItsAccount
    OBVIOUS
  <2>1. unit = [u \in Unit |-> Idle]
    BY DEF AccountsInit
  <2> QED BY <2>1 DEF WorkHasItsAccount, Idle
<1>2. IInv /\ WorkHasItsAccount /\ [AccountsNext]_accountVars => WorkHasItsAccount'
  <2> SUFFICES ASSUME IInv, WorkHasItsAccount, [AccountsNext]_accountVars PROVE WorkHasItsAccount'
    OBVIOUS
  <2>1. CASE UNCHANGED unit /\ AccountsNext
    <3> SUFFICES ASSUME NEW u \in Unit
                 PROVE  /\ unit[u].at = "transaction" => Active(unit[u].of, unit[u].ver)'
                        /\ unit[u].at = "sending" => Exists(unit[u].of)'
      BY <2>1 DEF WorkHasItsAccount
    <3>1. CASE unit[u].at = "idle"
      BY <3>1
    <3>2. CASE unit[u].at # "idle"
      <4>1. PICK a \in Account : a = unit[u].of
        BY <3>2 DEF IInv, AccountsTypeOK, UnitsTypeOK
      <4>2. PICK v : v = unit[u].ver
        OBVIOUS
      <4>3. Evolves(a) /\ row[a].version \in 0..MaxVersion
        BY <2>1, NextStep DEF IInv, Step, RowsStep, AccountsTypeOK, RowsTypeOK, Row
      <4>4. /\ unit[u].at = "transaction" => Active(a, v) /\ ~Writable(a)
            /\ unit[u].at = "sending" => Exists(a) /\ ~NoLease(a)
        BY <4>1, <4>2 DEF WorkHasItsAccount, Writable, NoLease
      <4>5. /\ unit[u].at = "transaction" => Active(a, v)'
            /\ unit[u].at = "sending" => Exists(a)'
        BY <4>3, <4>4 DEF Evolves, Joins, Keeps, Moves, Goes, Active, Exists
      <4> QED BY <2>1, <4>1, <4>2, <4>5
    <3> QED BY <3>1, <3>2
  <2>2. CASE UnitNext
    <3>1. UNCHANGED row /\ UnitsTypeOK
      BY <2>2 DEF UnitNext, OpenTransaction, TakeLease, SendUnderLease, EndUnit, IInv,
         AccountsTypeOK
    <3>2. ASSUME NEW u \in Unit, NEW a \in Account, NEW v \in 1..MaxVersion,
                 OpenTransaction(u, a, v) \/ TakeLease(u, a, v)
          PROVE  WorkHasItsAccount'
      BY <3>1, <3>2 DEF UnitsTypeOK, OpenTransaction, TakeLease, WorkHasItsAccount, Active, Exists
    <3>3. ASSUME NEW u \in Unit, SendUnderLease(u) \/ EndUnit(u)
          PROVE  WorkHasItsAccount'
      BY <3>1, <3>3 DEF UnitsTypeOK, SendUnderLease, EndUnit, Idle, WorkHasItsAccount, Active,
         Exists
    <3> QED BY <2>2, <3>2, <3>3 DEF UnitNext
  <2>3. CASE UNCHANGED accountVars
    BY <2>3 DEF accountVars, WorkHasItsAccount, Active, Exists
  <2> QED BY <2>1, <2>2, <2>3, OthersLeaveUnits DEF AccountsNext
<1> QED
  BY <1>1, <1>2, AccountsInvariant, PTL DEF AccountsSpec

\* Invitations, challenges, resets, provider attempts and proofs keep the promise of
\* OneShot: nothing that was used, or could not be used any more, is ever used.
THEOREM SecretsKeepThePromise == AccountsSpec => SecretsAreOneShot
<1>1. AccountsInit => Promise!OneShotInit
  <2> SUFFICES ASSUME AccountsInit PROVE [s \in Secret |-> Life(s)] = [s \in Secret |-> "unborn"]
    BY DEF Promise!OneShotInit
  <2>1. \A s \in Secret : sec[s].state = "unborn"
    BY DEF AccountsInit, Unborn
  <2>2. \A s \in Secret : Life(s) = "unborn"
    BY <2>1 DEF Life, Open
  <2> QED BY <2>2
<1>2. IInv /\ [AccountsNext]_accountVars => [Promise!OneShotNext]_([s \in Secret |-> Life(s)])
  <2> SUFFICES ASSUME IInv, [AccountsNext]_accountVars
               PROVE  Promise!OneShotNext \/ [s \in Secret |-> Life(s)]' = [s \in Secret |-> Life(s)]
    OBVIOUS
  <2>1. CASE AccountsNext
    <3>1. SecretsStep /\ RowsStep /\ IInv'
      BY <2>1, NextStep, NextIInv DEF IInv, Step
    <3>2. ASSUME NEW s \in Secret
          PROVE  Life(s)' \in Promise!After(Life(s))
                   /\ Life(s)' \in {"unborn", "open", "used", "dead"}
      <4>1. SecretEvolves(s)
        BY <3>1 DEF SecretsStep
      <4>2. Open(s) => Held(s)
        BY DEF Open, Held
      <4>3. CASE Begins(s)
        BY <4>3 DEF Begins, Life, Open, Unborn, Promise!After
      <4>4. CASE Held(s) /\ Usable(s) /\ sec'[s] = Ended("used")
        BY <4>4 DEF Life, Open, Held, Ended, Unborn, Promise!After
      <4>5. CASE Held(s) /\ sec'[s] = Ended("dead")
        BY <4>5 DEF Life, Open, Held, Ended, Unborn, Promise!After
      <4>6. CASE ~Held(s) /\ sec'[s] = sec[s]
        BY <4>6 DEF Life, Open, Held, Promise!After, IInv, AccountsTypeOK, SecretsTypeOK
      <4>7. CASE Held(s) /\ Held(s)'
        <5>1. ~Usable(s) => ~Usable(s)'
          BY <2>1, <4>7, UnusableForGood
        <5> QED BY <4>7, <5>1 DEF Life, Open, Held, Promise!After
      <4> QED BY <4>1, <4>3, <4>4, <4>5, <4>6, <4>7 DEF SecretEvolves, GoesOn, Held
    <3> QED BY <3>2 DEF Promise!OneShotNext
  <2>2. CASE UNCHANGED accountVars
    BY <2>2 DEF accountVars, Life, Open, Usable, Active, Exists
  <2> QED BY <2>1, <2>2
<1> QED
  BY <1>1, <1>2, AccountsInvariant, PTL DEF AccountsSpec, SecretsAreOneShot, Promise!OneShotSpec

=============================================================================
