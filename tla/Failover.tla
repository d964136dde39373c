----------------------------- MODULE Failover -----------------------------
(***************************************************************************)
(* The gateway's streaming route, chat_completions_stream                  *)
(* (gateway/src/router.rs), and its twin that does not stream: the chain   *)
(* of routes a request is walked along, the two circuits each is admitted  *)
(* by, the stop that cuts it, the messages it hands over, and what is said *)
(* of a reply that another model answered.                                 *)
(*                                                                         *)
(* A circuit is what Breaker keeps, seen from here: closed, open until a   *)
(* probe is due, due, or leased to a call that has the probe. Failures may *)
(* open it at any count; the statements of one observation are one step.   *)
(***************************************************************************)
EXTENDS Naturals, Sequences, FiniteSets

CONSTANTS
    Requests,    \* calls of the runtime, each writing a reply of its own
    Chain,       \* the routes of a traffic type, in the order to try them
    Endpoint,    \* where each route goes
    Model,       \* which model it asks for, whichever door it is reached through
    MaxChanges,  \* a bound on what happens to the world
    Nowhere      \* no route

Routes == {Chain[i] : i \in 1..Len(Chain)}
Endpoints == {Endpoint[r] : r \in Routes}

ChainAssumption ==
    /\ Len(Chain) > 0 /\ \A i, j \in 1..Len(Chain) : Chain[i] = Chain[j] => i = j
    /\ Nowhere \notin Routes /\ MaxChanges \in Nat

VARIABLES
    endpoint,  \* the circuit of each endpoint
    model,     \* the circuit of each route's model at its endpoint
    fares,     \* how each endpoint fares: up, down, or losing its answers
    gone,      \* the routes whose model is no longer offered
    shut,      \* the routes turned away before they are tried
    changes,
    stop,      \* who would stop the turn: nobody, a person, or a hold
    req,       \* what each request is doing
    fallback   \* reply_fallbacks

vars == <<endpoint, model, fares, gone, shut, stop, changes, req, fallback>>
world == <<fares, gone, shut, stop, changes>>

Circuit == {"closed", "open", "due", "leased"}
Stops == {"none", "person", "hold"}
Reasons == {"rested", "gone", "lost", "unavailable"}
Ended == {"answered", "stopped", "failed"}

Idle == [pc |-> "idle", at |-> 0, first |-> Nowhere, why |-> "none",
         pending |-> FALSE, told |-> FALSE, seen |-> "none", served |-> Nowhere,
         worked |-> {}, moved |-> "none"]

Init ==
    /\ endpoint = [e \in Endpoints |-> "closed"]
    /\ model = [r \in Routes |-> "closed"]
    /\ fares = [e \in Endpoints |-> "up"] /\ gone = {} /\ shut = {} /\ stop = "none" /\ changes = 0
    /\ req = [q \in Requests |-> Idle]
    /\ fallback = [q \in Requests |-> "none"]

At(q, pc) == req[q].pc = pc
Route(q) == Chain[req[q].at]
Put(q, r) == req' = [req EXCEPT ![q] = r]

-----------------------------------------------------------------------------
(* Beginning, and walking the chain. *)

\* Passed::because: the first reason is kept. moved is its history.
Because(r, why) ==
    [r EXCEPT !.why = IF @ = "none" THEN why ELSE @,
              !.moved = IF @ = "none" THEN why ELSE @]

\* attempts: the routes that are not turned away, in the chain's order; past
\* the last of them the walk is over.
Later(n) == {i \in (n + 1)..Len(Chain) : Chain[i] \notin shut}
Onward(r) ==
    IF Later(r.at) = {} THEN [r EXCEPT !.pc = "failed"]
    ELSE LET i == CHOOSE n \in Later(r.at) : \A m \in Later(r.at) : n <= m
         IN  [r EXCEPT !.pc = "admitting", !.at = i,
                       !.first = IF @ = Nowhere THEN Chain[i] ELSE @]

\* take_pending is before everything else; whether anything waited is the
\* conversation's. A request is for a reply, which it writes once.
Begin(q) ==
    /\ At(q, "idle")
    /\ \E waiting \in BOOLEAN : Put(q, Onward([Idle EXCEPT !.pending = waiting]))
    /\ fallback' = [fallback EXCEPT ![q] = "none"]
    /\ UNCHANGED <<endpoint, model, world>>

\* breaker::check on one circuit: what it becomes.
Admits(c) == c \in {"closed", "due"}
Checked(c) == IF c = "due" THEN "leased" ELSE c

\* admits, its first half: the endpoint's circuit, whose probe is claimed.
AdmitEndpoint(q) ==
    LET e == Endpoint[Route(q)] IN
    /\ At(q, "admitting")
    /\ endpoint' = [endpoint EXCEPT ![e] = Checked(@)]
    /\ Put(q, IF Admits(endpoint[e]) THEN [req[q] EXCEPT !.pc = "asking"]
              ELSE Onward(Because(req[q], "rested")))
    /\ UNCHANGED <<model, fallback, world>>

\* Its second half: the model's. The endpoint's probe stays claimed whatever
\* this says.
AdmitModel(q) ==
    LET r == Route(q) IN
    /\ At(q, "asking")
    /\ model' = [model EXCEPT ![r] = Checked(@)]
    /\ Put(q, IF Admits(model[r]) THEN [req[q] EXCEPT !.pc = "calling"]
              ELSE Onward(Because(req[q], "rested")))
    /\ UNCHANGED <<endpoint, fallback, world>>

-----------------------------------------------------------------------------
(* The call. *)

\* Observe: a failure that counts may open a closed circuit, and always ends
\* a probe; one that is not evidence leaves it as it is.
Failed(c) == IF c = "closed" THEN {"closed", "open"} ELSE {"open"}

\* Passed::record: said once of a reply, if another model served it.
Said(q, r) ==
    IF Model[req[q].first] = Model[r] \/ fallback[q] # "none" THEN fallback
    ELSE [fallback EXCEPT ![q] = IF req[q].why = "none" THEN "unavailable" ELSE req[q].why]

\* The provider accepts and begins to stream: both circuits close.
Accepted(q) ==
    LET r == Route(q) IN
    /\ At(q, "calling") /\ fares[Endpoint[r]] = "up" /\ r \notin gone
    /\ endpoint' = [endpoint EXCEPT ![Endpoint[r]] = "closed"]
    /\ model' = [model EXCEPT ![r] = "closed"]
    /\ fallback' = Said(q, r)
    /\ Put(q, [req[q] EXCEPT !.pc = "streaming", !.served = r, !.worked = @ \cup {r}])
    /\ UNCHANGED world

\* is_model_gone: the model's circuit opens, the endpoint's learns nothing,
\* and the next route is tried.
ModelGone(q) ==
    LET r == Route(q) IN
    /\ At(q, "calling") /\ fares[Endpoint[r]] = "up" /\ r \in gone
    /\ model' = [model EXCEPT ![r] = "open"]
    /\ Put(q, Onward(Because(req[q], "gone")))
    /\ UNCHANGED <<endpoint, fallback, world>>

\* A refusal to connect, an answered failure, or a rate limit, which is not
\* evidence: the provider did not do the work.
Refused(q) ==
    LET r == Route(q) IN
    /\ At(q, "calling") /\ fares[Endpoint[r]] = "down"
    /\ \E c \in Failed(endpoint[Endpoint[r]]) \cup {endpoint[Endpoint[r]]} :
           endpoint' = [endpoint EXCEPT ![Endpoint[r]] = c]
    /\ Put(q, Onward(Because(req[q], "unavailable")))
    /\ UNCHANGED <<model, fallback, world>>

\* Mutant: a lost answer is a failure like any other.
AfterLostNext(r) == Onward(r)
\* fatal || taken: the walk ends here.
AfterLost(r) == [r EXCEPT !.pc = "failed"]

\* may_have_been_taken: sent, and the answer lost.
Lost(q) ==
    LET r == Route(q)
        n == Because(req[q], "lost") IN
    /\ At(q, "calling") /\ fares[Endpoint[r]] = "losing"
    /\ \E c \in Failed(endpoint[Endpoint[r]]) \cup {endpoint[Endpoint[r]]} :
           endpoint' = [endpoint EXCEPT ![Endpoint[r]] = c]
    /\ Put(q, AfterLost([n EXCEPT !.worked = @ \cup {r}]))
    /\ UNCHANGED <<model, fallback, world>>

\* is_client_error: the request is at fault, and every route would refuse it.
Fatal(q) ==
    /\ At(q, "calling") /\ fares[Endpoint[Route(q)]] = "up" /\ Route(q) \notin gone
    /\ Put(q, [Because(req[q], "unavailable") EXCEPT !.pc = "failed"])
    /\ UNCHANGED <<endpoint, model, fallback, world>>

\* The trailer, which every response that is not a failure ends with.
Handed(q) == req[q].told \/ req[q].pending

\* The stream runs out: its trailer hands over what was pending.
Finish(q) ==
    /\ At(q, "streaming")
    /\ Put(q, [req[q] EXCEPT !.pc = "answered", !.told = Handed(q)])
    /\ UNCHANGED <<endpoint, model, fallback, world>>

\* cancel_requested and held_for, each of which fails open.
CancelRequested == stop = "person"
HeldFor == stop = "hold"
\* The task that asks on a tick, for as long as the request lives, and carries
\* which of the two it was.
Poll(q) ==
    /\ req[q].pc \notin Ended \cup {"idle"} /\ req[q].seen = "none"
    /\ CancelRequested \/ HeldFor
    /\ Put(q, [req[q] EXCEPT !.seen = stop])
    /\ UNCHANGED <<endpoint, model, fallback, world>>

\* A stop is seen while the provider is silent, before its first byte too.
Cuttable(q) == At(q, "calling") \/ At(q, "streaming")
Cut(q) ==
    /\ Cuttable(q) /\ req[q].seen # "none"
    /\ Put(q, [req[q] EXCEPT !.pc = "stopped", !.told = Handed(q),
                             !.worked = @ \cup {Route(q)}])
    /\ UNCHANGED <<endpoint, model, fallback, world>>

\* The runtime calls again, for another reply.
Again(q) ==
    /\ req[q].pc \in Ended
    /\ Put(q, Idle)
    /\ UNCHANGED <<endpoint, model, fallback, world>>

-----------------------------------------------------------------------------
(* Time, and the world. *)

\* A backoff or a lease runs out, on either kind of circuit. It takes a minute
\* at the least, and a walk between two calls takes a few reads.
Reading == \E q \in Requests : req[q].pc \in {"admitting", "asking"}
ComeDue ==
    /\ ~Reading
    /\ \/ \E e \in Endpoints : /\ endpoint[e] \in {"open", "leased"}
                               /\ endpoint' = [endpoint EXCEPT ![e] = "due"]
                               /\ UNCHANGED model
       \/ \E r \in Routes : /\ model[r] \in {"open", "leased"}
                            /\ model' = [model EXCEPT ![r] = "due"]
                            /\ UNCHANGED endpoint
    /\ UNCHANGED <<req, fallback, world>>

Toggle(S, x) == IF x \in S THEN S \ {x} ELSE S \cup {x}
\* An endpoint goes down, comes back, or answers no more what it takes.
Fare ==
    \E e \in Endpoints, f \in {"up", "down", "losing"} :
        /\ fares[e] # f /\ fares' = [fares EXCEPT ![e] = f]
        /\ UNCHANGED <<gone, shut, stop>>
\* is_model_gone, as the provider says it: retired, renamed, or back.
Retire == \E r \in Routes : gone' = Toggle(gone, r) /\ UNCHANGED <<fares, shut, stop>>
\* route_turned_away: a host inside the network is opened, or is no longer.
TurnAway == \E r \in Routes : shut' = Toggle(shut, r) /\ UNCHANGED <<fares, gone, stop>>
\* ProviderCache::get: an account's key is revoked or sealed for others, and no
\* provider is built without one.
KeyUnusable == \E r \in Routes \ shut : shut' = shut \cup {r} /\ UNCHANGED <<fares, gone, stop>>
Stop ==
    \E s \in Stops : s # stop /\ stop' = s /\ UNCHANGED <<fares, gone, shut>>
World ==
    /\ changes < MaxChanges /\ changes' = changes + 1
    /\ Fare \/ Retire \/ TurnAway \/ KeyUnusable \/ Stop
    /\ UNCHANGED <<endpoint, model, req, fallback>>

Provider(q) == Accepted(q) \/ ModelGone(q) \/ Refused(q) \/ Lost(q) \/ Fatal(q) \/ Finish(q)
Next ==
    \/ \E q \in Requests :
           \/ Begin(q) \/ AdmitEndpoint(q) \/ AdmitModel(q) \/ Poll(q) \/ Cut(q)
           \/ Provider(q) \/ Again(q)
    \/ ComeDue \/ World
Spec == Init /\ [][Next]_vars

\* The gateway's own steps are taken and time passes; nothing is asked of a
\* provider, which may be silent for ever.
GatewayFairness ==
    /\ \A q \in Requests : WF_vars(AdmitEndpoint(q)) /\ WF_vars(AdmitModel(q))
                           /\ WF_vars(Poll(q)) /\ WF_vars(Cut(q))
    /\ WF_vars(ComeDue)

-----------------------------------------------------------------------------
(* Properties. *)

TypeOK ==
    /\ endpoint \in [Endpoints -> Circuit] /\ model \in [Routes -> Circuit]
    /\ fares \in [Endpoints -> {"up", "down", "losing"}]
    /\ gone \subseteq Routes /\ shut \subseteq Routes
    /\ stop \in Stops /\ changes \in 0..MaxChanges
    /\ req \in [Requests -> [pc : {"idle", "admitting", "asking", "calling", "streaming"} \cup Ended,
                             at : 0..Len(Chain), first : Routes \cup {Nowhere},
                             why : Reasons \cup {"none"}, pending : BOOLEAN, told : BOOLEAN,
                             seen : Stops, served : Routes \cup {Nowhere},
                             worked : SUBSET Routes, moved : Reasons \cup {"none"}]]
    /\ fallback \in [Requests -> Reasons \cup {"none"}]

\* At most one provider has done the work of a request: one that was sent it and
\* may have taken it ends the walk of chat_completions_stream.
BilledOnce == \A q \in Requests : Cardinality(req[q].worked) <= 1

\* A reply that another model than the first one tried is answering says so,
\* and says what moved the request off the first; one that the same model
\* answers through another door says nothing (Passed).
FallbackSaid ==
    \A q \in Requests : req[q].pc \in {"streaming", "answered"} =>
        fallback[q] = IF Model[req[q].served] = Model[req[q].first]
                          THEN "none" ELSE req[q].moved

\* What was taken from the conversation before the call is handed over by every
\* response that is not a failure, the one a stop cut short too.
HandedOver ==
    \A q \in Requests : req[q].pc \in {"answered", "stopped"} => req[q].told = req[q].pending
=============================================================================
