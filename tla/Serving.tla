------------------------------ MODULE Serving ------------------------------
(***************************************************************************)
(* One data-plane process, from its start to its exit: the HTTP server and *)
(* its shutdown (serving.Serve, command.serve), the authentication of each *)
(* request by a chain of OIDC authenticators that discover their issuers   *)
(* lazily, the policy that decides what it may do, and the readiness       *)
(* probe.  What a surface then does with the bucket is one step here.      *)
(*                                                                         *)
(* net/http and go-oidc are modelled as this code uses them: Shutdown      *)
(* closes the listener at once, then waits for connections to become idle; *)
(* Close closes all; a request's context is a child of BaseContext's.      *)
(* A verifier's keys are fetched when a token needs them, for all requests *)
(* that wait at once, and no request's cancellation ends such a fetch.     *)
(***************************************************************************)
EXTENDS Naturals, Sequences, Policy

CONSTANTS
    Connections,   \* each with one request at a time
    Issuers,       \* AuthnOIDCIssuers, in the order of the chain
    Unstable,      \* those that have outages
    Tokens,        \* what requests present: records of claims, and whether genuine
    NoToken,       \* no usable credential
    Policies,      \* the policies the namespace may have
    Traffic,       \* the mixes of requests: for packages, probes, or both
    Nobody,        \* nobody holds the mutex
    ReadyTTL,      \* readyCacheTTL, in ticks
    ReadyTimeout   \* readyTimeout, in ticks

Operations == {"read", "write"}
Children == 1..Len(Issuers)

ASSUME ChainAssumption == Len(Issuers) \in Nat /\ Unstable \subseteq Children
ASSUME TokenAssumption == NoToken \notin Tokens
ASSUME NobodyAssumption == Nobody \notin Connections
ASSUME TrafficAssumption == Traffic \subseteq SUBSET {"packages", "probes"}
ASSUME PolicyAssumption == \A p \in Policies : ValidPolicy(p)
ASSUME ProbeAssumption == ReadyTTL \in Nat \ {0} /\ ReadyTimeout \in Nat

VARIABLES
    disabled,   \* --disable-authn
    policy,     \* the namespace's policy
    traffic,    \* what clients send
    main,       \* where command.serve is
    server,     \* the http.Server: up, draining (in Shutdown), closed
    signalled,  \* the process context is cancelled: SIGINT or SIGTERM
    overdue,    \* the drain window ran out and connections were closed
    verifier,   \* what each authenticator has: nothing, a verifier, its keys too
    holder,     \* the request that holds each authenticator's mutex
    keyFetch,   \* each one's key fetch: none, running, or doomed: it met an outage
    issuer,     \* whether each issuer is up; a call to one that is not fails, late maybe
    backend,    \* whether the bucket can be reached
    fresh,      \* ticks for which the last successful ping is still believed
    down,       \* ticks since the bucket could last be reached, up to Horizon
    pc,         \* where each request is
    token,      \* what it presented
    op,         \* what it wants to do
    gone,       \* whether its client has left or its connection is closed
    waited,     \* ticks its ping has taken
    disturbed   \* history: an outage, a timeout or a cancellation met it as it waited

processVars == <<main, server, signalled, overdue>>
authVars == <<verifier, holder, keyFetch>>
configVars == <<disabled, policy, traffic>>
probeVars == <<fresh, down>>
connectionVars == <<pc, token, op, gone, waited, disturbed>>
servingVars == <<disabled, policy, traffic, main, server, signalled, overdue, verifier, holder,
                 keyFetch, issuer, backend, fresh, down, pc, token, op, gone, waited, disturbed>>

Horizon == ReadyTTL + ReadyTimeout + 1
Authenticating == {"lock", "discover", "verify", "keys"}
Pinging == {"ping", "pong"}
Waiting == Authenticating \cup Pinging
Working == Waiting \cup {"authorize", "run"}
Answers == {"refused", "cut", "ready", "unready"}

ServingTypeOK ==
    /\ disabled \in BOOLEAN /\ policy \in Policies /\ traffic \in Traffic
    /\ main \in {"serve", "await", "returned", "broken", "exiting", "exited"}
    /\ server \in {"up", "draining", "closed"}
    /\ signalled \in BOOLEAN /\ overdue \in BOOLEAN
    /\ verifier \in [Children -> {"none", "built", "keyed"}]
    /\ holder \in [Children -> Connections \cup {Nobody}]
    /\ keyFetch \in [Children -> {"none", "running", "doomed"}]
    /\ issuer \in [Children -> BOOLEAN]
    /\ backend \in BOOLEAN
    /\ fresh \in 0..ReadyTTL /\ down \in 0..Horizon
    /\ pc \in [Connections -> {"off", "idle"} \cup Working \cup Answers]
    /\ token \in [Connections -> Tokens \cup {NoToken}]
    /\ op \in [Connections -> Operations]
    /\ gone \in [Connections -> BOOLEAN]
    /\ waited \in [Connections -> 0..ReadyTimeout]
    /\ disturbed \in [Connections -> BOOLEAN]

ServingInit ==
    /\ main = "serve" /\ server = "up" /\ signalled = FALSE /\ overdue = FALSE
    /\ verifier = [c \in Children |-> "none"]
    /\ holder = [c \in Children |-> Nobody]
    /\ keyFetch = [c \in Children |-> "none"]
    /\ fresh = 0
    /\ disabled \in BOOLEAN /\ policy \in Policies /\ traffic \in Traffic
    /\ issuer = [c \in Children |-> TRUE]
    /\ backend = TRUE
    /\ down = 0
    /\ pc = [r \in Connections |-> "off"]
    /\ token = [r \in Connections |-> NoToken]
    /\ op = [r \in Connections |-> "read"]
    /\ gone = [r \in Connections |-> FALSE]
    /\ waited = [r \in Connections |-> 0]
    /\ disturbed = [r \in Connections |-> FALSE]
-----------------------------------------------------------------------------
Goto(r, where) == pc' = [pc EXCEPT ![r] = where]

\* Requests that are over, answered or not, and their connections.
Over(rs, where) ==
    /\ pc' = [r \in Connections |-> IF r \in rs THEN where ELSE pc[r]]
    /\ token' = [r \in Connections |-> IF r \in rs THEN NoToken ELSE token[r]]
    /\ op' = [r \in Connections |-> IF r \in rs THEN "read" ELSE op[r]]
    /\ gone' = [r \in Connections |-> r \notin rs /\ gone[r]]
    /\ waited' = [r \in Connections |-> IF r \in rs THEN 0 ELSE waited[r]]
    /\ disturbed' = [r \in Connections |-> r \notin rs /\ disturbed[r]]

\* BaseContext: requests end with the process context, and with their client.
Cancelled(r) == signalled \/ gone[r]

\* The authenticator that does not pass a token on: the first of the chain whose
\* issuer is the token's, by the unverified claim.
Claimed(t) == {c \in Children : t # NoToken /\ Issuers[c] = t.iss}
Responsible(t) == CHOOSE c \in Claimed(t) : \A d \in Claimed(t) : c <= d
Child(r) == Responsible(token[r])

IdentityAsClaimed(t) ==
    [kind |-> "oidc", issuer |-> t.iss, id |-> t.sub, claims |-> t.claims, email |-> t.email]

\* The AuthContext made of a verified token; an unverified email is left out.
Identity(t) ==
    [kind |-> "oidc", issuer |-> t.iss, id |-> t.sub, claims |-> t.claims,
     email |-> IF t.verified THEN t.email ELSE Unset]

\* AlwaysAnonymous.
Anonymous ==
    [kind |-> "anonymous", issuer |-> "anonymous", id |-> "anonymous",
     claims |-> <<>>, email |-> Unset]

Subject(r) == IF disabled THEN Anonymous ELSE Identity(token[r])
-----------------------------------------------------------------------------
(* Connections.                                                             *)

Connect(r) ==
    /\ main = "serve" /\ server = "up"
    /\ pc[r] = "off"
    /\ Goto(r, "idle")
    /\ UNCHANGED <<configVars, processVars, authVars, issuer, backend, probeVars,
                   token, op, gone, waited, disturbed>>

\* An answer is sent.  The connection is kept unless the server shuts down.
Answer(r) ==
    \/ Over({r}, "off")
    \/ server = "up" /\ ~gone[r] /\ Over({r}, "idle")

Answered(r) ==
    /\ pc[r] \in Answers
    /\ Answer(r)
    /\ UNCHANGED <<configVars, processVars, authVars, issuer, backend, probeVars>>

\* An idle connection ends: its client closes it, or Shutdown does.
Disconnect(r) ==
    /\ pc[r] = "idle"
    /\ Over({r}, "off")
    /\ UNCHANGED <<configVars, processVars, authVars, issuer, backend, probeVars>>

\* The client of a request leaves, which cancels the request's context.
Leave(r) ==
    /\ pc[r] \in Working /\ ~gone[r]
    /\ gone' = [gone EXCEPT ![r] = TRUE]
    /\ disturbed' = [disturbed EXCEPT ![r] = @ \/ pc[r] \in Waiting]
    /\ UNCHANGED <<configVars, processVars, authVars, issuer, backend, probeVars,
                   pc, token, op, waited>>
-----------------------------------------------------------------------------
(* Requests for packages: auth.Middleware, chain, oidc.Authenticator.       *)

\* A request arrives; no network is needed to find its authenticator.
Receive(r) ==
    /\ "packages" \in traffic
    /\ pc[r] = "idle"
    /\ \E t \in IF disabled THEN {NoToken} ELSE Tokens \cup {NoToken} :
          /\ token' = [token EXCEPT ![r] = t]
          /\ Goto(r, IF disabled THEN "authorize"
                     ELSE IF Claimed(t) = {} THEN "refused" ELSE "lock")
          /\ disturbed' = [disturbed EXCEPT ![r] =
                 signalled \/ \E c \in Claimed(t) : ~issuer[c]]
    /\ UNCHANGED <<configVars, processVars, authVars, issuer, backend, probeVars,
                   op, gone, waited>>

\* getVerifier: who finds no verifier discovers the issuer and keeps the mutex.
Lock(r) ==
    /\ pc[r] = "lock"
    /\ holder[Child(r)] = Nobody
    /\ IF verifier[Child(r)] # "none"
       THEN Goto(r, "verify") /\ UNCHANGED holder
       ELSE Goto(r, "discover") /\ holder' = [holder EXCEPT ![Child(r)] = r]
    /\ UNCHANGED <<configVars, processVars, verifier, keyFetch, issuer, backend, probeVars,
                   token, op, gone, waited, disturbed>>

Discovered(r) ==
    /\ pc[r] = "discover"
    /\ issuer[Child(r)]
    /\ verifier' = [verifier EXCEPT ![Child(r)] = "built"]
    /\ holder' = [holder EXCEPT ![Child(r)] = Nobody]
    /\ Goto(r, "verify")
    /\ UNCHANGED <<configVars, processVars, keyFetch, issuer, backend, probeVars,
                   token, op, gone, waited, disturbed>>

DiscoveryFailsForAll(r) ==
    /\ pc[r] = "discover"
    /\ ~issuer[Child(r)] \/ Cancelled(r)
    /\ holder' = [holder EXCEPT ![Child(r)] = Nobody]
    /\ pc' = [q \in Connections |->
                IF q = r \/ (pc[q] = "lock" /\ Child(q) = Child(r)) THEN "refused" ELSE pc[q]]
    /\ UNCHANGED <<configVars, processVars, verifier, keyFetch, issuer, backend, probeVars,
                   token, op, gone, waited, disturbed>>

DiscoveryFailsHolding(r) ==
    /\ pc[r] = "discover"
    /\ ~issuer[Child(r)] \/ Cancelled(r)
    /\ Goto(r, "refused")
    /\ UNCHANGED <<configVars, processVars, authVars, issuer, backend, probeVars,
                   token, op, gone, waited, disturbed>>

\* A failed discovery answers the request it was made for, and is not kept.
DiscoveryFails(r) ==
    /\ pc[r] = "discover"
    /\ ~issuer[Child(r)] \/ Cancelled(r)
    /\ holder' = [holder EXCEPT ![Child(r)] = Nobody]
    /\ Goto(r, "refused")
    /\ UNCHANGED <<configVars, processVars, verifier, keyFetch, issuer, backend, probeVars,
                   token, op, gone, waited, disturbed>>

\* The token verifies by keys this authenticator has.
Verified(r) ==
    /\ pc[r] = "verify"
    /\ token[r].genuine /\ verifier[Child(r)] = "keyed"
    /\ Goto(r, "authorize")
    /\ disturbed' = [disturbed EXCEPT ![r] = FALSE]
    /\ UNCHANGED <<configVars, processVars, authVars, issuer, backend, probeVars,
                   token, op, gone, waited>>

\* It does not: the request joins the key fetch that is running, or begins one.
AwaitKeys(r) ==
    /\ pc[r] = "verify"
    /\ ~(token[r].genuine /\ verifier[Child(r)] = "keyed")
    /\ keyFetch' = [keyFetch EXCEPT ![Child(r)] =
           IF @ # "none" THEN @ ELSE IF issuer[Child(r)] THEN "running" ELSE "doomed"]
    /\ disturbed' = [disturbed EXCEPT ![r] = @ \/ keyFetch[Child(r)] = "doomed"]
    /\ Goto(r, "keys")
    /\ UNCHANGED <<configVars, processVars, verifier, holder, issuer, backend, probeVars,
                   token, op, gone, waited>>

\* A request that is cancelled waits no longer; the fetch goes on.
KeysAbandoned(r) ==
    /\ pc[r] = "keys"
    /\ Cancelled(r)
    /\ Goto(r, "refused")
    /\ UNCHANGED <<configVars, processVars, authVars, issuer, backend, probeVars,
                   token, op, gone, waited, disturbed>>

\* The surface asks for an operation: the guarded store, or AuthorizedProxyStore,
\* consults the compiled policy.
Authorize(r) ==
    /\ pc[r] = "authorize"
    /\ \E o \in Operations :
          /\ Authorizes(policy, Subject(r), o)
          /\ op' = [op EXCEPT ![r] = o]
    /\ Goto(r, "run")
    /\ UNCHANGED <<configVars, processVars, authVars, issuer, backend, probeVars,
                   token, gone, waited, disturbed>>

Forbid(r) ==
    /\ pc[r] = "authorize"
    /\ \E o \in Operations : ~Authorizes(policy, Subject(r), o)
    /\ Answer(r)
    /\ UNCHANGED <<configVars, processVars, authVars, issuer, backend, probeVars>>

\* The surface's calls succeed, or one fails; the bucket may be closed already.
Finish(r) ==
    /\ pc[r] \in {"authorize", "run"}
    /\ Answer(r)
    /\ UNCHANGED <<configVars, processVars, authVars, issuer, backend, probeVars>>

\* One of them is given up because the request's context is cancelled.
CallCut(r) ==
    /\ pc[r] \in {"authorize", "run"}
    /\ Cancelled(r)
    /\ Goto(r, "cut")
    /\ UNCHANGED <<configVars, processVars, authVars, issuer, backend, probeVars,
                   token, op, gone, waited, disturbed>>
-----------------------------------------------------------------------------
(* Readiness: prober.probe.                                                 *)

\* The last success is still believed.
Cached == fresh > 0

Probe(r) ==
    /\ "probes" \in traffic
    /\ pc[r] = "idle"
    /\ Goto(r, IF Cached THEN "ready" ELSE "ping")
    /\ disturbed' = [disturbed EXCEPT ![r] = signalled \/ ~backend \/ main = "exiting"]
    /\ UNCHANGED <<configVars, processVars, authVars, issuer, backend, probeVars,
                   token, op, gone, waited>>

\* The ping reaches the bucket; its answer is on the way.
PingReaches(r) ==
    /\ pc[r] = "ping"
    /\ backend /\ main # "exiting"
    /\ Goto(r, "pong")
    /\ UNCHANGED <<configVars, processVars, authVars, issuer, backend, probeVars,
                   token, op, gone, waited, disturbed>>

BelievedLonger(r) ==
    /\ pc[r] = "pong"
    /\ fresh' = fresh + ReadyTTL
    /\ Goto(r, "ready")
    /\ UNCHANGED <<configVars, processVars, authVars, issuer, backend, down,
                   token, op, gone, waited, disturbed>>

\* It arrives: success is believed for a ReadyTTL from now.
PingAnswered(r) ==
    /\ pc[r] = "pong"
    /\ fresh' = ReadyTTL
    /\ Goto(r, "ready")
    /\ UNCHANGED <<configVars, processVars, authVars, issuer, backend, down,
                   token, op, gone, waited, disturbed>>

FailsOpen(r) ==
    /\ pc[r] \in Pinging
    /\ ~backend \/ waited[r] = ReadyTimeout \/ Cancelled(r) \/ main = "exiting"
    /\ Goto(r, "ready")
    /\ UNCHANGED <<configVars, processVars, authVars, issuer, backend, probeVars,
                   token, op, gone, waited, disturbed>>

\* No success within readyTimeout: not ready, and nothing is remembered.
PingFails(r) ==
    /\ pc[r] \in Pinging
    /\ ~backend \/ waited[r] = ReadyTimeout \/ Cancelled(r) \/ main = "exiting"
    /\ Goto(r, "unready")
    /\ disturbed' = [disturbed EXCEPT ![r] = @ \/ waited[r] = ReadyTimeout]
    /\ UNCHANGED <<configVars, processVars, authVars, issuer, backend, probeVars,
                   token, op, gone, waited>>

\* Time passes; a ping is given up after ReadyTimeout.  Only probes look at the time.
Elapse ==
    /\ "probes" \in traffic
    /\ \A r \in Connections : pc[r] \in Pinging => waited[r] < ReadyTimeout
    /\ waited' = [r \in Connections |-> IF pc[r] \in Pinging THEN waited[r] + 1 ELSE waited[r]]
    /\ fresh' = IF fresh > 0 THEN fresh - 1 ELSE 0
    /\ down' = IF backend \/ down = Horizon THEN down ELSE down + 1
    /\ UNCHANGED <<configVars, processVars, authVars, issuer, backend,
                   pc, token, op, gone, disturbed>>
-----------------------------------------------------------------------------
(* The process: command.Execute, command.serve, serving.Serve.              *)

\* SIGINT or SIGTERM cancels the process context, and with it every request's.
Signal ==
    /\ ~signalled /\ main \notin {"exiting", "exited"}
    /\ signalled' = TRUE
    /\ disturbed' = [r \in Connections |-> disturbed[r] \/ pc[r] \in Waiting]
    /\ UNCHANGED <<configVars, main, server, overdue, authVars, issuer, backend, probeVars,
                   pc, token, op, gone, waited>>

\* Shutdown closes the listener, and srv.Serve returns ErrServerClosed.
Shutdown ==
    /\ signalled /\ server = "up" /\ main # "exited"
    /\ server' = "draining"
    /\ main' = IF main = "serve" THEN "await" ELSE main
    /\ UNCHANGED <<configVars, signalled, overdue, authVars, issuer, backend, probeVars,
                   connectionVars>>

\* Shutdown returns once every connection is closed.
Drained ==
    /\ server = "draining" /\ main # "exited"
    /\ \A r \in Connections : pc[r] = "off"
    /\ server' = "closed"
    /\ UNCHANGED <<configVars, main, signalled, overdue, authVars, issuer, backend, probeVars,
                   connectionVars>>

NeverExpires == FALSE /\ UNCHANGED servingVars

\* shutdownTimeout runs out: Shutdown fails, and Close closes every connection.
\* Their handlers run on.
WindowExpires ==
    /\ server = "draining" /\ main # "exited"
    /\ server' = "closed"
    /\ overdue' = TRUE
    /\ pc' = [r \in Connections |-> IF pc[r] = "idle" THEN "off" ELSE pc[r]]
    /\ gone' = [r \in Connections |-> gone[r] \/ pc[r] \in Working \cup Answers]
    /\ UNCHANGED <<configVars, main, signalled, authVars, issuer, backend, probeVars,
                   token, op, waited, disturbed>>

ReturnsAtOnce ==
    /\ main = "await"
    /\ main' = "returned"
    /\ UNCHANGED <<configVars, server, signalled, overdue, authVars, issuer, backend, probeVars,
                   connectionVars>>

\* Serve has waited for idleClosed.
Return ==
    /\ main = "await" /\ server = "closed"
    /\ main' = "returned"
    /\ UNCHANGED <<configVars, server, signalled, overdue, authVars, issuer, backend, probeVars,
                   connectionVars>>

\* The listener fails: Serve returns its error without a shutdown.
AcceptFails ==
    /\ main = "serve" /\ server = "up"
    /\ main' = "broken"
    /\ UNCHANGED <<configVars, server, signalled, overdue, authVars, issuer, backend, probeVars,
                   connectionVars>>

\* command.serve returns through its deferred cleanup, which closes the bucket.
CloseBucket ==
    /\ main \in {"returned", "broken"}
    /\ main' = "exiting"
    /\ disturbed' = [r \in Connections |-> disturbed[r] \/ pc[r] \in Pinging]
    /\ UNCHANGED <<configVars, server, signalled, overdue, authVars, issuer, backend, probeVars,
                   pc, token, op, gone, waited>>

\* The process is gone, with whatever still ran in it.
Exit ==
    /\ main = "exiting"
    /\ main' = "exited"
    /\ Over(Connections, "off")
    /\ holder' = [c \in Children |-> Nobody]
    /\ keyFetch' = [c \in Children |-> "none"]
    /\ UNCHANGED <<configVars, server, signalled, overdue, verifier, issuer, backend, probeVars>>

\* A new process starts with nothing of what the last one knew.
StartAgain ==
    /\ main = "exited"
    /\ main' = "serve" /\ server' = "up" /\ signalled' = FALSE /\ overdue' = FALSE
    /\ verifier' = [c \in Children |-> "none"]
    /\ fresh' = 0
    /\ UNCHANGED <<configVars, holder, keyFetch, issuer, backend, down, connectionVars>>
-----------------------------------------------------------------------------
(* The issuers and the bucket.                                              *)

\* Only requests for packages look at an issuer.  A fetch that meets the outage may
\* fail long after it.
Trouble(c) ==
    /\ "packages" \in traffic
    /\ c \in Unstable /\ issuer[c]
    /\ issuer' = [issuer EXCEPT ![c] = FALSE]
    /\ keyFetch' = [keyFetch EXCEPT ![c] = IF @ = "none" THEN @ ELSE "doomed"]
    /\ disturbed' = [r \in Connections |->
           disturbed[r] \/ (pc[r] \in Authenticating /\ Child(r) = c)]
    /\ UNCHANGED <<configVars, processVars, verifier, holder, backend, probeVars,
                   pc, token, op, gone, waited>>

Recover(c) ==
    /\ ~issuer[c]
    /\ issuer' = [issuer EXCEPT ![c] = TRUE]
    /\ UNCHANGED <<configVars, processVars, authVars, backend, probeVars, connectionVars>>

AwaitsKeys(r, c) == pc[r] = "keys" /\ Child(r) = c

\* The keys are kept, and every request that waits for them verifies its token.
KeysArrive(c) ==
    /\ keyFetch[c] # "none" /\ issuer[c]
    /\ keyFetch' = [keyFetch EXCEPT ![c] = "none"]
    /\ verifier' = [verifier EXCEPT ![c] = "keyed"]
    /\ pc' = [r \in Connections |->
                IF ~AwaitsKeys(r, c) THEN pc[r]
                ELSE IF token[r].genuine THEN "authorize" ELSE "refused"]
    /\ disturbed' = [r \in Connections |->
                       disturbed[r] /\ ~(AwaitsKeys(r, c) /\ token[r].genuine)]
    /\ UNCHANGED <<configVars, processVars, holder, issuer, backend, probeVars,
                   token, op, gone, waited>>

\* The fetch fails, for whoever joined it, and is not kept.
KeysFail(c) ==
    /\ keyFetch[c] = "doomed"
    /\ keyFetch' = [keyFetch EXCEPT ![c] = "none"]
    /\ pc' = [r \in Connections |-> IF AwaitsKeys(r, c) THEN "refused" ELSE pc[r]]
    /\ UNCHANGED <<configVars, processVars, verifier, holder, issuer, backend, probeVars,
                   token, op, gone, waited, disturbed>>

\* That the bucket is down matters to probes; calls for packages may fail anyway.
BucketFails ==
    /\ "probes" \in traffic
    /\ backend
    /\ backend' = FALSE
    /\ disturbed' = [r \in Connections |-> disturbed[r] \/ pc[r] \in Pinging]
    /\ UNCHANGED <<configVars, processVars, authVars, issuer, probeVars,
                   pc, token, op, gone, waited>>

BucketRecovers ==
    /\ ~backend
    /\ backend' = TRUE
    /\ down' = 0
    /\ UNCHANGED <<configVars, processVars, authVars, issuer, fresh, connectionVars>>
-----------------------------------------------------------------------------
Authenticate(r) ==
    \/ Lock(r) \/ Discovered(r) \/ DiscoveryFails(r)
    \/ Verified(r) \/ AwaitKeys(r) \/ KeysAbandoned(r)

Handle(r) ==
    \/ Connect(r) \/ Receive(r) \/ Authenticate(r) \/ Authorize(r)
    \/ Forbid(r) \/ Finish(r) \/ CallCut(r)
    \/ Probe(r) \/ PingReaches(r) \/ PingAnswered(r) \/ PingFails(r)
    \/ Answered(r) \/ Disconnect(r) \/ Leave(r)

Lifecycle == Shutdown \/ Drained \/ WindowExpires \/ Return \/ CloseBucket \/ Exit

ServingNext ==
    \/ \E r \in Connections : Handle(r)
    \/ \E c \in Children : Trouble(c) \/ Recover(c) \/ KeysArrive(c) \/ KeysFail(c)
    \/ Lifecycle \/ Signal \/ AcceptFails \/ StartAgain
    \/ BucketFails \/ BucketRecovers \/ Elapse

\* The goroutines run, sync.Mutex starves nobody, and a call to an issuer is
\* answered or fails in the end.
Fairness ==
    /\ WF_servingVars(Lifecycle)
    /\ \A r \in Connections : /\ WF_servingVars(Discovered(r) \/ DiscoveryFails(r))
                              /\ SF_servingVars(Lock(r))

ServingSpec == ServingInit /\ [][ServingNext]_servingVars /\ Fairness
-----------------------------------------------------------------------------
\* What a policy says of a token's own claims, said without an AuthContext.
Entitles(m, t) ==
    /\ m.kind # "anonymous"
    /\ m.issuer # Unset => t.iss = m.issuer
    /\ m.sub # Unset => t.sub \in m.sub
    /\ m.email # Unset => t.verified /\ t.email = m.email
    /\ \A key \in DOMAIN m.claims :
          key \in DOMAIN t.claims /\ t.claims[key] \in m.claims[key]

\* Only who is entitled gets to the bucket: a token that verified, with claims the
\* role of the operation asks for, from oidc.Authenticate to compiledPolicy.Authorize;
\* with authentication off, only what is granted to anonymous subjects.
OnlyEntitledAct ==
    \A r \in Connections : pc[r] = "run" =>
        \E m \in Role(policy, op[r]) :
            IF disabled THEN m.kind = "anonymous"
            ELSE token[r].genuine /\ Claimed(token[r]) # {} /\ Entitles(m, token[r])

\* Outages leave no trace: a genuine token is refused, and a probe fails, only if an
\* outage of its own issuer or of the bucket, a timeout, a cancellation or the end of
\* the process meets the request itself, or an outage the fetch of keys it waits for,
\* whatever discoveries, fetches and pings of other requests have failed.
OutagesAreForgotten ==
    \A r \in Connections :
        \/ pc[r] = "refused" /\ Claimed(token[r]) # {} /\ token[r].genuine
        \/ pc[r] = "unready"
        => disturbed[r]

\* Who is told the process is ready is told of a bucket that was reached within
\* readyCacheTTL and readyTimeout, however pings, outages and cache interleave.
ReadyIsRecent ==
    [][\A r \in Connections :
         pc[r] # "ready" /\ pc'[r] = "ready" => down <= ReadyTTL + ReadyTimeout]_servingVars

\* No handler loses the bucket to a shutdown that is in time: command.serve closes
\* it when serving.Serve has waited for the last request, unless the window ran
\* out or the listener failed.
BucketOutlivesRequests ==
    [][main # "exiting" /\ main' = "exiting" =>
         main = "broken" \/ overdue \/ \A r \in Connections : pc[r] = "off"]_servingVars

\* A signal ends the process, whatever its requests, clients and issuers do.
ShutdownEnds == signalled ~> main = "exited"

\* Nobody waits for ever for another's discovery, whose mutex getVerifier holds
\* through the call to the issuer, where every such call ends.
LocksAreReleased ==
    \A r \in Connections : pc[r] \in {"lock", "discover"} ~> pc[r] \notin {"lock", "discover"}

\* docs/operations.md promises it: requests in flight when the shutdown begins are
\* drained, so within the window none is given up whose client still waits.
DrainsInFlight ==
    \A r \in Connections : pc[r] = "cut" => gone[r] \/ overdue
=============================================================================
