---------------------------- MODULE ClientTokens ----------------------------
(***************************************************************************)
(* Access tokens a gateway replica buys for one egress rule                *)
(* (gateway/egress/client.rs): a slot per key, kept in a map, each slot    *)
(* with a lock that is held across the exchange at the token endpoint, so  *)
(* that everyone else waits and reads what the first one got.  A 401 from  *)
(* the rule's host drops the rule's slots from the map; a request that had *)
(* taken a slot before keeps its handle on it.  The rule is one rule of    *)
(* one workspace, so a key is what the sealed key's fingerprint is (None   *)
(* for a client pair, which has none).  Times are in steps of the clock.   *)
(* A slot is named for the request that made it, a token for the one that  *)
(* bought it: each makes at most one.                                      *)
(***************************************************************************)
EXTENDS Integers, FiniteSets, FiniteSetsExt

CONSTANTS Requests, Prints, Configs, Answers,
          RefreshMargin, Share, UnstatedLifetime, FailureMemory,
          ExchangeTimeout, Trip, MaxTime, Budget, None

TimesAssumption ==
    /\ {RefreshMargin, UnstatedLifetime, FailureMemory} \subseteq Nat
    /\ {ExchangeTimeout, Trip, MaxTime} \subseteq Nat /\ Share \in Nat \ {0}

VARIABLES clock,
          slots,     \* the map: each key's slot, None where there is none
          held,      \* what each slot holds
          locked,    \* the request that holds each slot's lock
          reqs,      \* each request through the gateway
          print,     \* the fingerprint of the key sealed for the rule now
          revoked,   \* the tokens the provider no longer honours
          refused,   \* history: the tokens a 401 came back for
          failed,    \* history: when a key was last refused at the endpoint
          left       \* faults still to come

vars == <<clock, slots, held, locked, reqs, print, revoked, refused, failed, left>>

Nothing == [kind |-> "none"]
NoToken == [by |-> None, print |-> None, expires |-> 0]
Idle == [pc |-> "idle", print |-> None, slot |-> None, since |-> 0,
         token |-> NoToken, config |-> None, seen |-> {}, status |-> None]

Init ==
    /\ clock = 0 /\ revoked = {} /\ refused = {} /\ left = Budget
    /\ slots = [p \in Prints |-> None]
    /\ held = [r \in Requests |-> Nothing]
    /\ locked = [r \in Requests |-> None]
    /\ reqs = [r \in Requests |-> Idle]
    /\ print \in Prints
    /\ failed = [p \in Prints |-> None]

Spend(f) == left[f] > 0 /\ left' = [left EXCEPT ![f] = @ - 1]
At(r, pc) == reqs[r].pc = pc
To(r, pc) == reqs' = [reqs EXCEPT ![r].pc = pc]

(* ------------------------------ the exchange ------------------------------ *)

\* A refusal asking again cannot change, as against the world not cooperating.
is_configuration(e) ==
    e \in {"unconfigured", "unnamable", "refused", "rejected", "unsignable"}

\* The secret a client pair is read from, or the assertion a sealed key signs: what is
\* wrong with it before anything is sent.
exchange(c) ==
    IF ~c.sealed THEN CASE c.variable = "outside" -> "unnamable"
                        [] c.variable = "unset"   -> "unconfigured"
                        [] OTHER                  -> "ok"
    ELSE IF c.key = "pem" THEN "ok" ELSE "unsignable"

\* post: whether the token endpoint is one this tier sends a secret to.  `opened` is an
\* operator having named the host.
may_post(c) ==
    /\ c.url \in {"https", "http"}
    /\ c.url = "http" => c.opened
    /\ c.address = "public" \/ (c.opened /\ c.address = "private")

\* What the endpoint's answer is read as: an error, or a token and its lifetime.
read_response(a) ==
    CASE a.transport = "malformed" \/ a.truncated            -> [error |-> "unusable", life |-> 0]
      [] a.transport # "ok" \/ a.status = 500                -> [error |-> "unavailable", life |-> 0]
      [] a.status = 400                                      -> [error |-> "rejected", life |-> 0]
      [] ~a.bearer                                           -> [error |-> "unusable", life |-> 0]
      [] a.expires_in = None                                 -> [error |-> None, life |-> UnstatedLifetime]
      [] OTHER                                               -> [error |-> None, life |-> a.expires_in]

margin(life) == Max({RefreshMargin, life \div Share})

(* ------------------------------- the requests ----------------------------- *)

\* The slot of the key the request opened, made where there is none.
slot(r) == IF slots[print] = None THEN r ELSE slots[print]

\* bearer, service_account: the request has been allowed in every other way.
Ask(r, c) ==
    /\ At(r, "idle")
    /\ reqs' = [reqs EXCEPT ![r] = [Idle EXCEPT !.pc = "waiting", !.print = print,
                   !.config = c, !.slot = slot(r), !.seen = refused]]
    /\ slots' = [slots EXCEPT ![print] = slot(r)]
    /\ UNCHANGED <<clock, held, locked, print, revoked, refused, failed, left>>

Lock(r) == At(r, "waiting") /\ locked[reqs[r].slot] = None

\* What the slot holds is still good.
Held(r) ==
    LET h == held[reqs[r].slot] IN
    /\ Lock(r)
    /\ \/ /\ h.kind = "token" /\ clock < h.until
          /\ reqs' = [reqs EXCEPT ![r].pc = "sending", ![r].token = h.token, ![r].since = clock]
       \/ /\ h.kind = "failed" /\ clock < h.until
          /\ To(r, "done")
    /\ UNCHANGED <<clock, slots, held, locked, print, revoked, refused, failed, left>>

Spent(h) == h.kind # "none" => clock >= h.until

\* Nothing good is held: this request buys it, with the lock kept.
Exchange(r) ==
    /\ Lock(r) /\ Spent(held[reqs[r].slot])
    /\ locked' = [locked EXCEPT ![reqs[r].slot] = r]
    /\ reqs' = [reqs EXCEPT ![r].pc = "exchanging", ![r].since = clock]
    /\ UNCHANGED <<clock, slots, held, print, revoked, refused, failed, left>>

Unlock(r) == locked' = [locked EXCEPT ![reqs[r].slot] = None]
Keep(r, h) == held' = [held EXCEPT ![reqs[r].slot] = h]

\* A failure: remembered while it is somebody's configuration, else forgotten.
Failed(r, e) ==
    /\ To(r, "done") /\ Unlock(r)
    /\ Keep(r, IF is_configuration(e) THEN [kind |-> "failed", until |-> clock + FailureMemory]
               ELSE Nothing)
    /\ failed' = IF is_configuration(e) /\ slots[reqs[r].print] = reqs[r].slot
                 THEN [failed EXCEPT ![reqs[r].print] = clock] ELSE failed
    /\ UNCHANGED <<clock, slots, print, revoked, refused, left>>

Unbought(r) ==
    /\ At(r, "exchanging")
    /\ LET e == exchange(reqs[r].config) IN
       \/ e # "ok" /\ Failed(r, e)
       \/ e = "ok" /\ ~may_post(reqs[r].config) /\ Failed(r, "refused")

\* Mutant: refreshed only when it has lapsed.
refresh_at_lapse(life) == clock + life
refresh_at(life) == clock + Max({0, life - margin(life)})

\* The endpoint answered.  The lifetime counts from when it issued the token, somewhere
\* on the way; the replica counts it from now.
Bought(r, a) ==
    LET read == read_response(a) IN
    /\ At(r, "exchanging") /\ exchange(reqs[r].config) = "ok" /\ may_post(reqs[r].config)
    /\ \/ read.error # None /\ Failed(r, read.error)
       \/ /\ read.error = None /\ Unlock(r)
          /\ \E issued \in reqs[r].since..clock :
               LET t == [by |-> r, print |-> reqs[r].print, expires |-> issued + read.life] IN
               /\ Keep(r, [kind |-> "token", token |-> t, until |-> refresh_at(read.life)])
               /\ reqs' = [reqs EXCEPT ![r].pc = "sending", ![r].token = t, ![r].since = clock]
          /\ failed' = IF slots[reqs[r].print] = reqs[r].slot
                       THEN [failed EXCEPT ![reqs[r].print] = None] ELSE failed
          /\ UNCHANGED <<clock, slots, print, revoked, refused, left>>

\* External: the rule's host judges the request when it gets there.
Arrive(r) ==
    /\ At(r, "sending")
    /\ reqs' = [reqs EXCEPT ![r].pc = "judged", ![r].status =
                   IF reqs[r].token \in revoked \/ clock > reqs[r].token.expires THEN 401 ELSE 200]
    /\ UNCHANGED <<clock, slots, held, locked, print, revoked, refused, failed, left>>

\* Every slot of the rule leaves the map, whichever key it is for.
evict == slots' = [p \in Prints |-> None]

\* The answer comes back; a 401 makes the replica forget the rule's tokens.
Answer(r) ==
    /\ At(r, "judged") /\ To(r, "done")
    /\ \/ reqs[r].status = 200 /\ UNCHANGED <<slots, refused, failed>>
       \/ /\ reqs[r].status = 401 /\ evict
          /\ refused' = refused \cup {reqs[r].token}
          /\ failed' = [p \in Prints |-> None]
    /\ UNCHANGED <<clock, held, locked, print, revoked, left>>

\* The runtime hung up: the handler is dropped where it is, and its lock with it.
Drop(r) ==
    /\ reqs[r].pc \in {"waiting", "exchanging", "sending", "judged"} /\ Spend("drop")
    /\ To(r, "done")
    /\ locked' = [s \in Requests |-> IF locked[s] = r THEN None ELSE locked[s]]
    /\ UNCHANGED <<clock, slots, held, print, revoked, refused, failed>>

\* External: the provider revokes a token it issued.
Revoke(t) ==
    /\ Spend("revoke") /\ revoked' = revoked \cup {t}
    /\ UNCHANGED <<clock, slots, held, locked, reqs, print, refused, failed>>

\* The key sealed for the rule is replaced under the same id.
Rotate(p) ==
    /\ p # print /\ Spend("rotate") /\ print' = p
    /\ UNCHANGED <<clock, slots, held, locked, reqs, revoked, refused, failed>>

\* Time passes, no further than an exchange's or a request's own limit.
Tick ==
    /\ clock < MaxTime /\ clock' = clock + 1
    /\ \A r \in Requests :
          /\ At(r, "exchanging") => clock < reqs[r].since + ExchangeTimeout
          /\ At(r, "sending") => clock < reqs[r].since + Trip
    /\ UNCHANGED <<slots, held, locked, reqs, print, revoked, refused, failed, left>>

Step(r) == \/ Held(r) \/ Exchange(r) \/ Unbought(r)
           \/ \E a \in Answers : Bought(r, a)
           \/ Arrive(r) \/ Answer(r)

Next == \/ \E r \in Requests : Step(r) \/ Drop(r) \/ \E c \in Configs : Ask(r, c)
        \/ \E r \in Requests : held[r].kind = "token" /\ Revoke(held[r].token)
        \/ \E p \in Prints : Rotate(p)
        \/ Tick

Spec == Init /\ [][Next]_vars
\* Every await of a request ends: the exchange and the fetch have timeouts, and the lock
\* is handed on in turn.
FairSpec == Spec /\ \A r \in Requests : WF_vars(Step(r))

(* ------------------------------- properties ------------------------------- *)

Tokens == [by : Requests, print : Prints, expires : 0..(MaxTime + 20)]

TypeOK ==
    /\ clock \in 0..MaxTime /\ print \in Prints
    /\ slots \in [Prints -> Requests \cup {None}]
    /\ locked \in [Requests -> Requests \cup {None}]
    /\ revoked \subseteq Tokens /\ refused \subseteq Tokens
    /\ \A r \in Requests : held[r].kind \in {"none", "token", "failed"}
    /\ \A r \in Requests : reqs[r].pc \in
          {"idle", "waiting", "exchanging", "sending", "judged", "done"}

\* A request is sent with a token bought by the very key it opened: a key replaced under
\* the same id never rides on what the old one bought.
BoughtByKey == \A r \in Requests : At(r, "sending") => reqs[r].token.print = reqs[r].print

\* "the agent's next call exchanges afresh" (egress/mod.rs): a request that asks after a
\* 401 was answered is never sent with the token that got it, whoever else holds the slot
\* it was in.
ForgottenIsGone == \A r \in Requests : At(r, "sending") => reqs[r].token \notin reqs[r].seen

\* A refusal asking again cannot change is not asked again while it is remembered,
\* however many requests are waiting.
RefusalRemembered ==
    \A r \in Requests : At(r, "exchanging") /\ slots[reqs[r].print] = reqs[r].slot
        => LET f == failed[reqs[r].print] IN f # None => reqs[r].since >= f + FailureMemory

\* "a request is never sent with a token that lapses on the way": whatever is on its way
\* to the host is still good, though the replica counts a token's life from when it heard.
NeverLapses == \A r \in Requests : At(r, "sending") => clock <= reqs[r].token.expires

\* "one exchange per rule in flight however many requests are waiting on it".
OneExchange == Cardinality({r \in Requests : At(r, "exchanging")}) <= 1
=============================================================================
