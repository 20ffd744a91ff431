------------------------------- MODULE Grants -------------------------------
(***************************************************************************)
(* How an app signs in and stays signed in: a browser's pending request,   *)
(* its approval, the one-time code, the grant it is exchanged for, and the *)
(* refreshes that rotate the grant's tokens (app/mobile_authorization.py,  *)
(* app/mobile_routes.py, app/api_grants.py, app/api_v1.py, migrations 048  *)
(* and 049).  One account; each statement that decides is under the row    *)
(* lock it names, and a step here.  A pair is an access and a refresh      *)
(* token issued together.                                                  *)
(***************************************************************************)
EXTENDS Integers, FiniteSets

CONSTANTS
    Browser, App,
    Req, Code, Grant,  \* rows that may be created
    Nobody,            \* no row
    PendingCap, Limit, \* 1000 requests and 10 grants in the code
    MaxPairs, MaxAccountEnds  \* bounds: pairs issued; versions and switches of the account

ASSUME GrantsAssumption ==
    /\ Limit \in Nat \ {0} /\ PendingCap \in Nat \ {0}
    /\ MaxPairs \in Nat /\ MaxAccountEnds \in Nat /\ Nobody \notin Grant

VARIABLES
    account,  \* its auth_version, whether it is enabled, and the changes left
    req,      \* mobile_authorization_requests
    cookie,   \* each browser's request and the request its form shows
    code,     \* mobile_authorization_codes
    grant,    \* api_grants
    client,   \* what each app holds, and the answer on its way to it
    looked,   \* bearer checks that have read a row and not locked it yet
    pairs     \* pairs issued so far

grantVars == <<account, req, cookie, code, grant, client, looked, pairs>>

Serves(v) == account.enabled /\ account.version = v

Live(g) == grant[g].state = "live" /\ Serves(grant[g].ver)
ActiveGrants == {g \in Grant : Live(g)}
Honored(old) == {g \in ActiveGrants : g = old}
AtLimit(old) == Cardinality(ActiveGrants \ Honored(old)) >= Limit

(* Rows are taken in a fixed order *)
Fresh(rows, table) == CHOOSE x \in rows : table[x].state = "unborn"
Free(rows, table) == \E x \in rows : table[x].state = "unborn"

Pending == {r \in Req : req[r].state = "pending"}

(***************************************************************************)
(* The browser.  The cookie's old request goes, even when the cap then     *)
(* refuses the new one.                                                    *)
(***************************************************************************)
EndedCode == [state |-> "ended", app |-> Nobody, ver |-> 0, replaces |-> Nobody]
NoCookie == [holds |-> Nobody, shown |-> Nobody, ver |-> 0]
Started(h) == [state |-> "pending", app |-> h, replaces |-> client[h].grant]
EndedRequest == [state |-> "ended", app |-> Nobody, replaces |-> Nobody]

Start(b, h) ==
    /\ Free(Req, req)
    /\ LET r == Fresh(Req, req)
           old == cookie[b].holds
           kept == IF old = Nobody THEN req ELSE [req EXCEPT ![old] = EndedRequest]
       IN IF Cardinality(Pending \ {old}) >= PendingCap
          THEN req' = kept /\ UNCHANGED cookie
          ELSE /\ req' = [kept EXCEPT ![r] = Started(h)]
               /\ cookie' = [cookie EXCEPT ![b].holds = r]
    /\ UNCHANGED <<account, code, grant, client, looked, pairs>>

(* The confirm page carries the request it shows *)
ReviewRequest(b) ==
    /\ cookie[b].holds \in Pending /\ account.enabled
    /\ cookie' = [cookie EXCEPT ![b].shown = cookie[b].holds, ![b].ver = account.version]
    /\ UNCHANGED <<account, req, code, grant, client, looked, pairs>>

(* The decision ends the request whatever comes of it; it is made for the   *)
(* version that signed its request, which the account may have left since   *)
Decide(b, approved) ==
    /\ cookie[b].holds # Nobody /\ cookie[b].holds = cookie[b].shown
    /\ LET r == cookie[b].holds IN
         /\ req' = [req EXCEPT ![r] = EndedRequest]
         /\ cookie' = [cookie EXCEPT ![b] = NoCookie]
         /\ \/ UNCHANGED code
            \/ /\ approved /\ r \in Pending /\ Serves(cookie[b].ver) /\ ~AtLimit(req[r].replaces)
               /\ Free(Code, code)
               /\ code' = [code EXCEPT ![Fresh(Code, code)] =
                    [state |-> "open", app |-> req[r].app, ver |-> cookie[b].ver,
                     replaces |-> IF Honored(req[r].replaces) # {} THEN req[r].replaces ELSE Nobody]]
    /\ UNCHANGED <<account, grant, client, looked, pairs>>

ExpireRequest(r) ==
    /\ r \in Pending
    /\ req' = [req EXCEPT ![r] = EndedRequest]
    /\ UNCHANGED <<account, cookie, code, grant, client, looked, pairs>>

ExpireCode(c) ==
    /\ code[c].state = "open"
    /\ code' = [code EXCEPT ![c] = EndedCode]
    /\ UNCHANGED <<account, req, cookie, grant, client, looked, pairs>>

(***************************************************************************)
(* The exchange, by whichever app the code has reached                     *)
(***************************************************************************)
NewPair == pairs < MaxPairs /\ pairs' = pairs + 1

(* Grants that cannot authenticate again are removed when one is created *)
Created(g, c) ==
    [o \in Grant |->
        IF o = g THEN [state |-> "live", ver |-> code[c].ver, cur |-> pairs', prev |-> 0,
                       seen |-> FALSE, fresh |-> FALSE, copied |-> FALSE]
        ELSE IF grant[o].state = "live" /\ (grant[o].ver # account.version \/ o = code[c].replaces)
        THEN [grant[o] EXCEPT !.state = "revoked"] ELSE grant[o]]

(* Mutant: the limit that the approval saw is trusted *)
LimitSeenAtApproval(c) == code[c].state = "ended"

LimitReached(c) == AtLimit(code[c].replaces)

(* At the limit the transaction rolls back; otherwise the code is used up  *)
(* even by a wrong verifier or for an account that has moved on             *)
Exchange(h, c) ==
    /\ code[c].state = "open" /\ client[h].answer = 0
    /\ LET owned == code[c].app = h /\ Serves(code[c].ver) IN
         /\ owned => ~LimitReached(c)
         /\ code' = [code EXCEPT ![c] = EndedCode]
         /\ IF owned
            THEN /\ Free(Grant, grant) /\ NewPair
                 /\ grant' = Created(Fresh(Grant, grant), c)
                 /\ client' = [client EXCEPT ![h].answer = pairs', ![h].of = Fresh(Grant, grant)]
            ELSE UNCHANGED <<grant, client, pairs>>
    /\ UNCHANGED <<account, req, cookie, looked>>

(***************************************************************************)
(* Refreshing.  An app sends one refresh at a time.                        *)
(***************************************************************************)
(* Mutant: a retry rotates once more *)
RetryRotates(g) ==
    grant' = [grant EXCEPT ![g].prev = grant[g].cur, ![g].cur = pairs', ![g].seen = FALSE]

(* The previous pair and its moment stay, so retries extend nothing *)
Retry(g) == grant' = [grant EXCEPT ![g].cur = pairs']

Rotate(g) ==
    grant' = [grant EXCEPT ![g].prev = grant[g].cur, ![g].cur = pairs',
                           ![g].seen = FALSE, ![g].fresh = TRUE]

Renew(h) ==
    LET g == client[h].grant IN
    /\ g # Nobody /\ client[h].answer = 0 /\ Live(g)
    /\ NewPair
    /\ \/ client[h].pair = grant[g].cur /\ Rotate(g)
       \/ client[h].pair = grant[g].prev /\ ~grant[g].seen /\ grant[g].fresh /\ Retry(g)
    /\ client' = [client EXCEPT ![h].answer = pairs', ![h].of = g]
    /\ UNCHANGED <<account, req, cookie, code, looked>>

(* Two parties have held the grant *)
ReuseDetected(h) ==
    LET g == client[h].grant IN
    /\ g # Nobody /\ client[h].answer = 0 /\ Live(g)
    /\ client[h].pair = grant[g].prev /\ grant[g].seen
    /\ grant' = [grant EXCEPT ![g].state = "reused"]
    /\ UNCHANGED <<account, req, cookie, code, client, looked, pairs>>

(* Sixty seconds after the rotation *)
RetryWindowEnds(g) ==
    /\ grant[g].state = "live" /\ grant[g].fresh
    /\ grant' = [grant EXCEPT ![g].fresh = FALSE]
    /\ UNCHANGED <<account, req, cookie, code, client, looked, pairs>>

(***************************************************************************)
(* The bearer check.  It locks the row only to write, and then decides     *)
(* again, for a refresh may have rotated it.                               *)
(***************************************************************************)
Look(h) ==
    LET g == client[h].grant IN
    /\ g # Nobody /\ Live(g)
    /\ client[h].pair = grant[g].cur /\ ~grant[g].seen
    /\ looked' = looked \cup {<<g, client[h].pair>>}
    /\ UNCHANGED <<account, req, cookie, code, grant, client, pairs>>

(* Mutant: the row that was read decides *)
SeenAsRead(g, pair) == pair \in 1..MaxPairs

SeenAsLocked(g, pair) == pair = grant[g].cur

Mark(g, pair) ==
    /\ <<g, pair>> \in looked
    /\ looked' = looked \ {<<g, pair>>}
    /\ \/ /\ Live(g) /\ SeenAsLocked(g, pair)
          /\ grant' = [grant EXCEPT ![g].seen = TRUE]
       \/ UNCHANGED grant
    /\ UNCHANGED <<account, req, cookie, code, client, pairs>>

(* Its owner, or the app itself, ends a grant; or sixty unused days do *)
Revoke(g) ==
    /\ grant[g].state = "live"
    /\ grant' = [grant EXCEPT ![g].state = "revoked"]
    /\ UNCHANGED <<account, req, cookie, code, client, looked, pairs>>

(***************************************************************************)
(* Outside: the answer arrives or is lost, an app's storage is restored    *)
(* onto another device, and the account gets a new version or is switched  *)
(* off and on (Accounts)                                                   *)
(***************************************************************************)
Hear(h) ==
    /\ client[h].answer # 0
    /\ client' = [client EXCEPT ![h] =
                    [grant |-> client[h].of, pair |-> client[h].answer, answer |-> 0, of |-> Nobody,
                     renewed |-> client[h].grant = client[h].of]]
    /\ UNCHANGED <<account, req, cookie, code, grant, looked, pairs>>

Lose(h) ==
    /\ client[h].answer # 0
    /\ client' = [client EXCEPT ![h].answer = 0, ![h].of = Nobody]
    /\ UNCHANGED <<account, req, cookie, code, grant, looked, pairs>>

CopyApp(h, other) ==
    LET g == client[h].grant IN
    /\ h # other /\ g # Nobody /\ client[other].answer = 0
    /\ client' = [client EXCEPT ![h].renewed = FALSE,
                                ![other] = [client[h] EXCEPT !.answer = 0, !.of = Nobody,
                                                             !.renewed = FALSE]]
    /\ grant' = [grant EXCEPT ![g].copied = TRUE]
    /\ UNCHANGED <<account, req, cookie, code, looked, pairs>>

EndVersion ==
    /\ account.left > 0
    /\ \/ account' = [account EXCEPT !.version = @ + 1, !.left = @ - 1]
       \/ account' = [account EXCEPT !.enabled = ~@, !.left = @ - 1,
                                     !.version = IF account.enabled THEN @ + 1 ELSE @]
    /\ UNCHANGED <<req, cookie, code, grant, client, looked, pairs>>

GrantsInit ==
    /\ account = [version |-> 1, enabled |-> TRUE, left |-> MaxAccountEnds]
    /\ req = [r \in Req |-> [state |-> "unborn", app |-> Nobody, replaces |-> Nobody]]
    /\ cookie = [b \in Browser |-> NoCookie]
    /\ code = [c \in Code |-> [state |-> "unborn", app |-> Nobody, ver |-> 0, replaces |-> Nobody]]
    /\ grant = [g \in Grant |-> [state |-> "unborn", ver |-> 0, cur |-> 0, prev |-> 0,
                                 seen |-> FALSE, fresh |-> FALSE, copied |-> FALSE]]
    /\ client = [h \in App |-> [grant |-> Nobody, pair |-> 0, answer |-> 0, of |-> Nobody,
                                renewed |-> FALSE]]
    /\ looked = {}
    /\ pairs = 0

GrantsNext ==
    \/ \E b \in Browser : \/ \E h \in App : Start(b, h)
                          \/ ReviewRequest(b)
                          \/ \E approved \in BOOLEAN : Decide(b, approved)
    \/ \E r \in Req : ExpireRequest(r)
    \/ \E c \in Code : ExpireCode(c) \/ \E h \in App : Exchange(h, c)
    \/ \E h \in App : \/ Renew(h) \/ ReuseDetected(h) \/ Look(h) \/ Hear(h) \/ Lose(h)
                      \/ \E other \in App : CopyApp(h, other)
    \/ \E g \in Grant : \/ RetryWindowEnds(g) \/ Revoke(g)
                        \/ \E pair \in 1..MaxPairs : Mark(g, pair)
    \/ EndVersion

GrantsSpec == GrantsInit /\ [][GrantsNext]_grantVars

-----------------------------------------------------------------------------
(***************************************************************************)
(* However many answers are lost, and whatever requests with its older     *)
(* tokens are still under way, an app that holds its grant alone is never  *)
(* taken for two: its pair is the current one, or the one before it that   *)
(* may still be retried.                                                   *)
(***************************************************************************)
AloneNeverLockedOut ==
    \A h \in App :
        LET g == client[h].grant IN
        g # Nobody /\ ~grant[g].copied =>
            /\ grant[g].state # "reused"
            /\ grant[g].state = "live" =>
                 \/ client[h].pair = grant[g].cur
                 \/ client[h].pair = grant[g].prev /\ ~grant[g].seen

(***************************************************************************)
(* Two copies of an app that have both renewed since they were one cannot  *)
(* both go on: at most one holds a pair the server would renew again.      *)
(***************************************************************************)
Renewable(h) ==
    LET g == client[h].grant IN
    /\ g # Nobody /\ Live(g)
    /\ \/ client[h].pair = grant[g].cur
       \/ client[h].pair = grant[g].prev /\ ~grant[g].seen /\ grant[g].fresh

CopiesPart ==
    \A h, o \in App :
        h # o /\ client[h].grant = client[o].grant /\ client[h].renewed /\ client[o].renewed
            => ~(Renewable(h) /\ Renewable(o))

(***************************************************************************)
(* Reuse detection ends a grant that two hold, and no other.               *)
(***************************************************************************)
ReuseMeansTwoHolders == AloneNeverLockedOut /\ CopiesPart

(***************************************************************************)
(* No interleaving of approvals, exchanges, revocations and new versions   *)
(* leaves the account with more active grants than its limit.              *)
(***************************************************************************)
WithinGrantLimit == Cardinality(ActiveGrants) <= Limit

\* Grants are neither shared for long, nor more than their account may have.
GrantsContained == ReuseMeansTwoHolders /\ WithinGrantLimit
=============================================================================
