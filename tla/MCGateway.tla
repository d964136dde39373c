------------------------------ MODULE MCGateway ------------------------------
(*****************************************************************************)
(* Breaker, and instances of Failover, ClientTokens, Connections, Documents  *)
(* and PieceUploads, for one run: a behaviour is one component moving under  *)
(* one set of bounds, named by `part`.                                       *)
(*****************************************************************************)
EXTENDS Breaker, Sequences, TLC

CONSTANTS None, Nowhere, x1, x2, y1, y2, failover_e1, failover_e2, failover_m1, failover_m2,
          failover_q1, failover_r1, failover_r2, failover_r3, tokens_k1, tokens_k2, conn_c1,
          conn_c2, conn_m1, conn_p1, conn_t1, docs_d1, docs_d2

VARIABLES part, endpoint, model, fares, gone, shut, stop, changes, req, fallback, clock, slots, held,
          locked, reqs, print, revoked, refused, failed, left, rule, keys, members, machine,
          calls, turns, lis, heard, notes, cache, obj, text, rows, made, jobs, work, count,
          conv, sweep, lost, upload, tags, store, file, callers, landings, sweeper, writer, raced, behind

all == <<part, row, sightings, call, up, crashes, voices, grounds, lease, endpoint, model, fares,
         gone, shut, stop, changes, req, fallback, clock, slots, held, locked, reqs, print,
         revoked, refused, failed, left, rule, keys, members, machine, calls, turns, lis,
         heard, notes, cache, obj, text, rows, made, jobs, work, count, conv, sweep, lost,
         upload, tags, store, file, callers, landings, sweeper, writer, raced, behind>>
On(p) == part = p

(* -------------------- Breaker -------------------- *)
BreakerTwoCalls == {x1, x2}
BreakerCallersDef == {y1, y2}

\* Two calls at once, or two callers one call after another.
BreakerFew == Cardinality(voices) <= 1 \/ Cardinality({c \in Calls : ~At(c, "idle")}) <= 1

(* -------------------- Failover -------------------- *)
FailoverRequests1 == {failover_q1}
FailoverThreeRoutes == <<failover_r1, failover_r2, failover_r3>>
FailoverThreeEndpoints == failover_r1 :> failover_e1 @@ failover_r2 :> failover_e2 @@ failover_r3 :> failover_e1
FailoverThreeModels == failover_r1 :> failover_m1 @@ failover_r2 :> failover_m1 @@ failover_r3 :> failover_m2

\* Three routes, two of them at one endpoint and two of them the same model.
Failover_walk == INSTANCE Failover WITH
    Requests <- FailoverRequests1, Chain <- FailoverThreeRoutes,
    Endpoint <- FailoverThreeEndpoints, Model <- FailoverThreeModels, MaxChanges <- 2

(* -------------------- ClientTokens -------------------- *)
TokensZero == [drop |-> 0, revoke |-> 0, rotate |-> 0]
TokensRevoking == [TokensZero EXCEPT !.revoke = 1]
TokensRotating == [drop |-> 0, revoke |-> 1, rotate |-> 1]
TokensPair == [sealed |-> FALSE, variable |-> "set", key |-> "none", url |-> "https",
         opened |-> FALSE, address |-> "public"]
TokensAccount == [TokensPair EXCEPT !.sealed = TRUE, !.key = "pem"]
TokensOnePair == {TokensPair}
TokensOneAccount == {TokensAccount}
\* Every way a rule's exchange may be set up wrong, and the operator's exceptions.
TokensAllConfigs == {TokensPair, TokensAccount, [TokensPair EXCEPT !.variable = "outside"], [TokensPair EXCEPT !.variable = "unset"],
    [TokensAccount EXCEPT !.key = "other"], [TokensPair EXCEPT !.url = "http"], [TokensPair EXCEPT !.url = "bad"],
    [TokensPair EXCEPT !.url = "http", !.opened = TRUE], [TokensPair EXCEPT !.address = "private"],
    [TokensPair EXCEPT !.address = "private", !.opened = TRUE], [TokensPair EXCEPT !.address = "none", !.opened = TRUE]}
TokensGiven(life) == [transport |-> "ok", truncated |-> FALSE, status |-> 200, bearer |-> TRUE,
                expires_in |-> life]
TokensUnstated == TokensGiven(None)
TokensAllAnswers == {TokensGiven(8), TokensUnstated, [TokensUnstated EXCEPT !.transport = "malformed"],
    [TokensUnstated EXCEPT !.transport = "lost"], [TokensUnstated EXCEPT !.truncated = TRUE],
    [TokensUnstated EXCEPT !.status = 500], [TokensUnstated EXCEPT !.status = 400], [TokensUnstated EXCEPT !.bearer = FALSE]}
TokensLong == {TokensGiven(8), TokensUnstated}
TokensPlain == {TokensUnstated}

Tokens_keys == INSTANCE ClientTokens WITH
    Requests <- {x1, x2}, Prints <- {tokens_k1, tokens_k2}, Configs <- TokensOneAccount,
    Answers <- TokensPlain, RefreshMargin <- 2, Share <- 2, UnstatedLifetime <- 5,
    FailureMemory <- 2, ExchangeTimeout <- 1, Trip <- 1, MaxTime <- 3, Budget <- TokensRotating
Tokens_times == INSTANCE ClientTokens WITH
    Requests <- {x1, x2}, Prints <- {tokens_k1}, Configs <- TokensOnePair,
    Answers <- TokensLong, RefreshMargin <- 2, Share <- 2, UnstatedLifetime <- 4,
    FailureMemory <- 2, ExchangeTimeout <- 1, Trip <- 1, MaxTime <- 5, Budget <- TokensRevoking
Tokens_fails == INSTANCE ClientTokens WITH
    Requests <- {x1, x2}, Prints <- {tokens_k1}, Configs <- TokensAllConfigs,
    Answers <- TokensAllAnswers, RefreshMargin <- 2, Share <- 2, UnstatedLifetime <- 5,
    FailureMemory <- 2, ExchangeTimeout <- 1, Trip <- 1, MaxTime <- 3, Budget <- TokensZero

(* -------------------- Connections -------------------- *)
ConnZero == [calls |-> 0, seals |-> 0, revokes |-> 0, leave |-> 0, move |-> 0, lose |-> 0]
ConnR(owner, header, cred, env) == [there |-> TRUE, owner |-> owner, header |-> header, cred |-> cred,
                                env |-> env, obo |-> FALSE]
ConnAskers == {ConnR("asker", "h1", None, FALSE)}
ConnBoth == {ConnR("asker", "h1", None, FALSE), ConnR("agent", None, None, FALSE), ConnR("agent", "h1", 1, FALSE),
         ConnR("agent", "h1", None, TRUE)}
ConnSending == [ConnZero EXCEPT !.calls = 3, !.seals = 1, !.revokes = 1, !.move = 1]
ConnCaching == [ConnZero EXCEPT !.calls = 2, !.seals = 2, !.revokes = 1, !.lose = 2]
ConnCrossing == [ConnZero EXCEPT !.calls = 4, !.leave = 1]
ConnEditing == [ConnZero EXCEPT !.calls = 3, !.seals = 1, !.revokes = 1, !.leave = 1]

Conn_sends == INSTANCE Connections WITH
    People <- {conn_p1}, Machines <- {conn_m1}, Keys <- {1, 2}, Headers <- {"h1", "h2"},
    Turns <- {conn_t1}, Requests <- {x1}, Calls <- {conn_c1}, Creates <- ConnBoth,
    Budget <- ConnSending
Conn_cache == INSTANCE Connections WITH
    People <- {conn_p1}, Machines <- {}, Keys <- {1}, Headers <- {"h1"}, Turns <- {conn_t1},
    Requests <- {x1, x2}, Calls <- {conn_c1}, Creates <- ConnAskers,
    Budget <- ConnCaching
Conn_edits == INSTANCE Connections WITH
    People <- {conn_p1}, Machines <- {conn_m1}, Keys <- {1, 2, 3}, Headers <- {"h1", "h2"},
    Turns <- {}, Requests <- {}, Calls <- {conn_c1, conn_c2}, Creates <- ConnBoth,
    Budget <- ConnEditing
Conn_crossed == INSTANCE Connections WITH
    People <- {conn_p1}, Machines <- {}, Keys <- {1, 2}, Headers <- {"h1", "h2"},
    Turns <- {}, Requests <- {}, Calls <- {conn_c1, conn_c2}, Creates <- ConnAskers,
    Budget <- ConnCrossing

(* -------------------- Documents -------------------- *)
DocsGrowing(n) == [v \in 1..n |-> v]
DocsShrinking(n) == [v \in 1..n |-> n + 1 - v]
DocsZero == [photo |-> 0, pod |-> 0, store |-> 0, enqueue |-> 0, listing |-> 0, tika |-> 0,
         lapse |-> 0, recount |-> 0, turn |-> 0]
DocsReading == [DocsZero EXCEPT !.tika = 1, !.listing = 1, !.enqueue = 1]
DocsLapsing == [DocsZero EXCEPT !.lapse = 1]
DocsCounting == [DocsZero EXCEPT !.recount = 1, !.turn = 1, !.pod = 1]
DocsSweeping == [DocsZero EXCEPT !.recount = 1, !.turn = 1]
DocsFilling == [DocsZero EXCEPT !.recount = 1, !.photo = 1, !.store = 1]
DocsHalving == [DocsZero EXCEPT !.photo = 2, !.store = 2, !.pod = 1]

Docs_read == INSTANCE Documents WITH
    Docs <- {docs_d1}, MaxVersion <- 2, Size <- DocsGrowing(2), Quota <- 0, Tika <- TRUE,
    Requests <- {x1, x2}, Workers <- {y1, y2}, JobIds <- {1, 2}, MaxAttempts <- 2,
    Kinds <- {"upload", "delete"}, Overlap <- {"docs", "sweep"}, Budget <- DocsReading
Docs_lapse == INSTANCE Documents WITH
    Docs <- {docs_d1}, MaxVersion <- 2, Size <- DocsGrowing(2), Quota <- 0, Tika <- TRUE,
    Requests <- {x1}, Workers <- {y1, y2}, JobIds <- {1, 2}, MaxAttempts <- 2,
    Kinds <- {"upload", "sweep"}, Overlap <- {"docs", "sweep"}, Budget <- DocsLapsing
Docs_count == INSTANCE Documents WITH
    Docs <- {docs_d1}, MaxVersion <- 2, Size <- DocsGrowing(2), Quota <- 0,
    Tika <- FALSE, Requests <- {x1, x2}, Workers <- {}, JobIds <- {1, 2}, MaxAttempts <- 2,
    Kinds <- {"upload", "guest"}, Overlap <- {"docs"}, Budget <- DocsCounting
Docs_swept == INSTANCE Documents WITH
    Docs <- {docs_d1}, MaxVersion <- 2, Size <- DocsGrowing(2), Quota <- 0,
    Tika <- FALSE, Requests <- {x1, x2}, Workers <- {}, JobIds <- {1, 2}, MaxAttempts <- 2,
    Kinds <- {"upload", "sweep"}, Overlap <- {"docs", "sweep"}, Budget <- DocsSweeping
Docs_quota == INSTANCE Documents WITH
    Docs <- {docs_d1, docs_d2}, MaxVersion <- 3, Size <- DocsShrinking(3), Quota <- 4,
    Tika <- FALSE, Requests <- {x1}, Workers <- {}, JobIds <- {1, 2, 3}, MaxAttempts <- 2,
    Kinds <- {"upload", "delete"}, Overlap <- {}, Budget <- DocsFilling
Docs_photo == INSTANCE Documents WITH
    Docs <- {docs_d1, docs_d2}, MaxVersion <- 2, Size <- DocsGrowing(2), Quota <- 0,
    Tika <- FALSE, Requests <- {x1, x2}, Workers <- {}, JobIds <- {1, 2}, MaxAttempts <- 2,
    Kinds <- {"upload", "delete"}, Overlap <- {}, Budget <- DocsHalving

(* -------------------- PieceUploads -------------------- *)
PiecesFaulty == [tag |-> 1, join |-> 1, heic |-> 1, abandon |-> 1, expire |-> 1]

Pieces_lands == INSTANCE PieceUploads WITH
    FileSize <- 4, PIECE_BYTES <- 2, Lens <- {0, 1, 2, 5}, MaxTags <- 3, MaxWritten <- 0,
    Callers <- {x1, x2}, Budget <- PiecesFaulty
Pieces_writer == INSTANCE PieceUploads WITH
    FileSize <- 3, PIECE_BYTES <- 2, Lens <- {0, 1, 2, 5}, MaxTags <- 2, MaxWritten <- 6,
    Callers <- {x1}, Budget <- PiecesFaulty

ASSUME InstancesAssumption ==
    /\ Failover_walk!ChainAssumption /\ Tokens_keys!TimesAssumption
    /\ Tokens_times!TimesAssumption /\ Tokens_fails!TimesAssumption
    /\ Docs_read!DocumentsAssumption /\ Docs_count!DocumentsAssumption
    /\ Docs_quota!DocumentsAssumption /\ Docs_lapse!DocumentsAssumption
    /\ Docs_swept!DocumentsAssumption /\ Docs_photo!DocumentsAssumption /\ Pieces_lands!PieceAssumption
    /\ Pieces_writer!PieceAssumption

(* The parts: one component moves, and the variables of the others are None, or as Breaker begins. *)
BreakerAlone ==
    /\ endpoint = None /\ model = None /\ fares = None /\ gone = None /\ shut = None
    /\ stop = None /\ changes = None /\ req = None /\ fallback = None /\ clock = None
    /\ slots = None /\ held = None /\ locked = None /\ reqs = None /\ print = None
    /\ revoked = None /\ refused = None /\ failed = None /\ left = None /\ rule = None
    /\ keys = None /\ members = None /\ machine = None /\ calls = None /\ turns = None
    /\ lis = None /\ heard = None /\ notes = None /\ cache = None /\ obj = None /\ text = None
    /\ rows = None /\ made = None /\ jobs = None /\ work = None /\ count = None /\ conv = None
    /\ sweep = None /\ lost = None /\ upload = None /\ tags = None /\ store = None
    /\ file = None /\ callers = None /\ landings = None /\ sweeper = None /\ writer = None /\ raced = None /\ behind = None
BreakerKept ==
    UNCHANGED <<part, endpoint, model, fares, gone, shut, stop, changes, req, fallback, clock,
                slots, held, locked, reqs, print, revoked, refused, failed, left, rule, keys,
                members, machine, calls, turns, lis, heard, notes, cache, obj, text, rows, made,
                jobs, work, count, conv, sweep, lost, upload, tags, store, file, callers,
                landings, sweeper, writer, raced, behind>>
FailoverAlone ==
    /\ Init /\ clock = None /\ slots = None /\ held = None /\ locked = None /\ reqs = None
    /\ print = None /\ revoked = None /\ refused = None /\ failed = None /\ left = None
    /\ rule = None /\ keys = None /\ members = None /\ machine = None /\ calls = None
    /\ turns = None /\ lis = None /\ heard = None /\ notes = None /\ cache = None /\ obj = None
    /\ text = None /\ rows = None /\ made = None /\ jobs = None /\ work = None /\ count = None
    /\ conv = None /\ sweep = None /\ lost = None /\ upload = None /\ tags = None
    /\ store = None /\ file = None /\ callers = None /\ landings = None /\ sweeper = None
    /\ writer = None /\ raced = None /\ behind = None
FailoverKept ==
    UNCHANGED <<part, row, sightings, call, up, crashes, voices, grounds, lease, clock, slots,
                held, locked, reqs, print, revoked, refused, failed, left, rule, keys, members,
                machine, calls, turns, lis, heard, notes, cache, obj, text, rows, made, jobs,
                work, count, conv, sweep, lost, upload, tags, store, file, callers, landings,
                sweeper, writer, raced, behind>>
TokensAlone ==
    /\ Init /\ endpoint = None /\ model = None /\ fares = None /\ gone = None /\ shut = None
    /\ stop = None /\ changes = None /\ req = None /\ fallback = None /\ rule = None
    /\ keys = None /\ members = None /\ machine = None /\ calls = None /\ turns = None
    /\ lis = None /\ heard = None /\ notes = None /\ cache = None /\ obj = None /\ text = None
    /\ rows = None /\ made = None /\ jobs = None /\ work = None /\ count = None /\ conv = None
    /\ sweep = None /\ lost = None /\ upload = None /\ tags = None /\ store = None
    /\ file = None /\ callers = None /\ landings = None /\ sweeper = None /\ writer = None /\ raced = None /\ behind = None
TokensKept ==
    UNCHANGED <<part, row, sightings, call, up, crashes, voices, grounds, lease, endpoint, model,
                fares, gone, shut, stop, changes, req, fallback, rule, keys, members, machine,
                calls, turns, lis, heard, notes, cache, obj, text, rows, made, jobs, work, count,
                conv, sweep, lost, upload, tags, store, file, callers, landings, sweeper, writer, raced, behind>>
ConnAlone ==
    /\ Init /\ endpoint = None /\ model = None /\ fares = None /\ gone = None /\ shut = None
    /\ stop = None /\ changes = None /\ req = None /\ fallback = None /\ clock = None
    /\ slots = None /\ held = None /\ locked = None /\ print = None /\ revoked = None
    /\ refused = None /\ failed = None /\ obj = None /\ text = None /\ rows = None
    /\ made = None /\ jobs = None /\ work = None /\ count = None /\ conv = None /\ sweep = None
    /\ lost = None /\ upload = None /\ tags = None /\ store = None /\ file = None
    /\ callers = None /\ landings = None /\ sweeper = None /\ writer = None /\ behind = None
ConnKept ==
    UNCHANGED <<part, row, sightings, call, up, crashes, voices, grounds, lease, endpoint, model,
                fares, gone, shut, stop, changes, req, fallback, clock, slots, held, locked,
                print, revoked, refused, failed, obj, text, rows, made, jobs, work, count, conv,
                sweep, lost, upload, tags, store, file, callers, landings, sweeper, writer, behind>>
DocsAlone ==
    /\ Init /\ endpoint = None /\ model = None /\ fares = None /\ gone = None /\ shut = None
    /\ stop = None /\ changes = None /\ req = None /\ fallback = None /\ clock = None
    /\ slots = None /\ held = None /\ locked = None /\ print = None /\ revoked = None
    /\ refused = None /\ rule = None /\ keys = None /\ members = None /\ machine = None
    /\ calls = None /\ turns = None /\ lis = None /\ heard = None /\ notes = None
    /\ cache = None /\ upload = None /\ tags = None /\ store = None /\ file = None
    /\ callers = None /\ landings = None /\ sweeper = None /\ writer = None /\ raced = None
DocsKept ==
    UNCHANGED <<part, row, sightings, call, up, crashes, voices, grounds, lease, endpoint, model,
                fares, gone, shut, stop, changes, req, fallback, clock, slots, held, locked,
                print, revoked, refused, rule, keys, members, machine, calls, turns, lis, heard,
                notes, cache, upload, tags, store, file, callers, landings, sweeper, writer, raced>>
PiecesAlone ==
    /\ Init /\ endpoint = None /\ model = None /\ fares = None /\ gone = None /\ shut = None
    /\ stop = None /\ changes = None /\ req = None /\ fallback = None /\ clock = None
    /\ slots = None /\ held = None /\ locked = None /\ reqs = None /\ print = None
    /\ revoked = None /\ refused = None /\ failed = None /\ rule = None /\ keys = None
    /\ members = None /\ machine = None /\ calls = None /\ turns = None /\ lis = None
    /\ heard = None /\ notes = None /\ cache = None /\ obj = None /\ text = None /\ rows = None
    /\ jobs = None /\ work = None /\ count = None /\ conv = None /\ sweep = None /\ lost = None /\ raced = None /\ behind = None
PiecesKept ==
    UNCHANGED <<part, row, sightings, call, up, crashes, voices, grounds, lease, endpoint, model,
                fares, gone, shut, stop, changes, req, fallback, clock, slots, held, locked,
                reqs, print, revoked, refused, failed, rule, keys, members, machine, calls,
                turns, lis, heard, notes, cache, obj, text, rows, jobs, work, count, conv, sweep,
                lost, raced, behind>>

PartsInit ==
    \/ part = "breaker" /\ Init /\ BreakerAlone
    \/ part = "failover_walk" /\ Failover_walk!Init /\ FailoverAlone
    \/ part = "tokens_keys" /\ Tokens_keys!Init /\ TokensAlone
    \/ part = "tokens_times" /\ Tokens_times!Init /\ TokensAlone
    \/ part = "tokens_fails" /\ Tokens_fails!Init /\ TokensAlone
    \/ part = "conn_sends" /\ Conn_sends!Init /\ ConnAlone
    \/ part = "conn_cache" /\ Conn_cache!Init /\ ConnAlone
    \/ part = "conn_edits" /\ Conn_edits!Init /\ ConnAlone
    \/ part = "conn_crossed" /\ Conn_crossed!Init /\ ConnAlone
    \/ part = "docs_read" /\ Docs_read!Init /\ DocsAlone
    \/ part = "docs_lapse" /\ Docs_lapse!Init /\ DocsAlone
    \/ part = "docs_count" /\ Docs_count!Init /\ DocsAlone
    \/ part = "docs_swept" /\ Docs_swept!Init /\ DocsAlone
    \/ part = "docs_quota" /\ Docs_quota!Init /\ DocsAlone
    \/ part = "docs_photo" /\ Docs_photo!Init /\ DocsAlone
    \/ part = "pieces_lands" /\ Pieces_lands!Init /\ PiecesAlone
    \/ part = "pieces_writer" /\ Pieces_writer!Init /\ PiecesAlone

PartsNext ==
    \/ On("breaker") /\ Next /\ BreakerFew' /\ BreakerKept
    \/ On("failover_walk") /\ Failover_walk!Next /\ FailoverKept
    \/ On("tokens_keys") /\ Tokens_keys!Next /\ TokensKept
    \/ On("tokens_times") /\ Tokens_times!Next /\ TokensKept
    \/ On("tokens_fails") /\ Tokens_fails!Next /\ TokensKept
    \/ On("conn_sends") /\ Conn_sends!Next /\ ConnKept
    \/ On("conn_cache") /\ Conn_cache!Next /\ ConnKept
    \/ On("conn_edits") /\ Conn_edits!Next /\ ConnKept
    \/ On("conn_crossed") /\ Conn_crossed!Next /\ ConnKept
    \/ On("docs_read") /\ Docs_read!Next /\ DocsKept
    \/ On("docs_lapse") /\ Docs_lapse!Next /\ DocsKept
    \/ On("docs_count") /\ Docs_count!Next /\ DocsKept
    \/ On("docs_swept") /\ Docs_swept!Next /\ DocsKept
    \/ On("docs_quota") /\ Docs_quota!Next /\ DocsKept
    \/ On("docs_photo") /\ Docs_photo!Next /\ DocsKept
    \/ On("pieces_lands") /\ Pieces_lands!Next /\ PiecesKept
    \/ On("pieces_writer") /\ Pieces_writer!Next /\ PiecesKept

PartsSpec == PartsInit /\ [][PartsNext]_all

Symmetric == Permutations({x1, x2})
             \cup Permutations({y1, y2})
             \cup Permutations({docs_d1, docs_d2})

(* ------------------------------ properties ------------------------------ *)

\* A request that walks the fallback chain is billed for one answer, says why it fell back,
\* and hands a stream over at most once (router.rs, the chain of routes).
WalkAccounted ==
    On("failover_walk") => /\ Failover_walk!TypeOK /\ Failover_walk!BilledOnce
                           /\ Failover_walk!FallbackSaid /\ Failover_walk!HandedOver

\* A request carries a token bought with the key that is sealed for its rule, one that has not
\* lapsed; a token the provider refused is bought again, a refused exchange is not repeated at
\* once, and requests that come together buy one token between them (client.rs).
TokensFresh ==
    /\ On("tokens_keys") => Tokens_keys!TypeOK /\ Tokens_keys!BoughtByKey /\ Tokens_keys!ForgottenIsGone
    /\ On("tokens_times") => Tokens_times!NeverLapses
    /\ On("tokens_fails") => Tokens_fails!RefusalRemembered /\ Tokens_fails!OneExchange

\* A person's key is attached to nobody's request but theirs, through the gateway's cache of
\* sealed keys too; a cache that lost its listener trusts nothing it kept; and whoever has left
\* the workspace, and a rule that is the agent's, keep no personal key (connections.rs), but one
\* that a call wrote on a reading of the rule or of the membership that no longer held (:67, :171).
KeysTheirOwners ==
    /\ On("conn_sends") => Conn_sends!TypeOK /\ Conn_sends!OwnersTurn
    /\ On("conn_cache") => Conn_cache!StaleIsTold
    /\ On("conn_edits") => Conn_edits!LeftNoKey /\ Conn_edits!AgentsNoKey /\ Conn_edits!ConnectedSends
    /\ On("conn_crossed") => Conn_crossed!LeftNoKey /\ Conn_crossed!AgentsNoKey /\ Conn_crossed!ConnectedSends

\* Once nothing is in flight a document's text is that of the bytes it has, but for a reading
\* that outlived its lease or a change that was not queued (extract.rs:351); the count is what is
\* stored, but for changes of one document that crossed, until a recount (files.rs:321-324); and
\* uploads made one after another fit the quota.
TextCurrent ==
    /\ On("docs_read") => Docs_read!TypeOK /\ Docs_read!TextCurrent
    /\ On("docs_lapse") => Docs_lapse!TextCurrent
    /\ On("docs_count") => Docs_count!CountKept
    /\ On("docs_swept") => Docs_swept!CountKept
    /\ On("docs_quota") => Docs_quota!WithinQuota

\* A photograph's upload leaves the picture and its original or neither, whatever the bucket
\* refuses, but where it refuses the undoing too or the pod dies between the two (files.rs:340).
PhotoWhole == [][On("docs_photo") => Docs_photo!PhotoWhole]_all

\* A file uploaded in pieces lands whole or not at all, however two callers' pieces, a
\* completion and an abandonment interleave, and what says it is complete is there (uploads.rs).
LandsWhole ==
    /\ On("pieces_lands") => /\ Pieces_lands!TypeOK /\ Pieces_lands!LandsWhole
                             /\ Pieces_lands!LandedIsComplete /\ Pieces_lands!CompleteIsThere
    /\ On("pieces_writer") => Pieces_writer!LandsWhole /\ Pieces_writer!WriterWhole
=============================================================================
