---------------------------- MODULE Connections ----------------------------
(***************************************************************************)
(* The keys a rule's requests carry.  A rule's connection is the agent's,  *)
(* with one sealed key of the workspace's, or each person's own, with the  *)
(* key each of them connected (api/egress.rs, api/credentials.rs,          *)
(* api/connections.rs).  Each route reads, checks and then writes, several *)
(* at once.  A turn is minted with the rule as it stands for whoever asked;*)
(* the gateway opens the key the rule names through a cache a database     *)
(* notification keeps honest (gateway/egress/sealed.rs) and sends it.      *)
(***************************************************************************)
EXTENDS Naturals, Sequences, FiniteSets

CONSTANTS People, Machines, \* people, and the accounts an agent acts as on a turn nobody sent
          Keys, Headers, None,
          Turns, Requests, Calls,   \* turns, requests and API calls in flight
          Creates,                  \* the rules somebody may create
          Budget

VARIABLES rule,     \* the one host's row of egress_rules
          keys,     \* credentials
          members,  \* user_workspace_roles, and the machine users there are
          machine,  \* the account the agent's turns nobody sent carry
          calls,    \* API calls between their reads and their write
          turns,    \* the rule each turn was minted with
          lis,      \* the gateway's listener: down, listening, up
          heard,    \* whether the database has it on its list
          notes,    \* notifications on their way to it
          cache,    \* Cache: entries, generations, epoch, trusted
          reqs,     \* requests at the gateway
          raced,    \* keys a call wrote, or wrote around, on a check that held no more
          left

rows == <<rule, keys, members, machine>>
gateway == <<lis, heard, cache>>
vars == <<rule, keys, members, machine, calls, turns, lis, heard, notes, cache, reqs, raced, left>>

NoRule == [there |-> FALSE, owner |-> "agent", header |-> None, cred |-> None, env |-> FALSE, obo |-> FALSE]
NoKey == [st |-> "none", col |-> None, seal |-> None]
NoCall == [op |-> "none"]
NoReq == [pc |-> "none"]

Init ==
    /\ rule = NoRule /\ keys = [k \in Keys |-> NoKey]
    /\ members = People \cup Machines /\ machine = None
    /\ calls = [c \in Calls |-> NoCall] /\ turns = [t \in Turns |-> [there |-> FALSE]]
    /\ lis = "down" /\ heard = FALSE /\ notes = <<>>
    /\ cache = [entries |-> [k \in Keys |-> None], gens |-> [k \in Keys |-> 0], epoch |-> 0, trusted |-> FALSE]
    /\ reqs = [r \in Requests |-> NoReq] /\ raced = {}
    /\ left = Budget

Spend(f) == left[f] > 0 /\ left' = [left EXCEPT ![f] = @ - 1]

-----------------------------------------------------------------------------
(* A seal                                                                  *)

\* A binding, and which secret it was made over: whose it is, where it goes.
Sealed(p, h, n) == [user |-> p, header |-> h, n |-> n]

\* allows: the kind, workspace and host are this module's only ones, which
\* leaves the header.
allows(s, h) == s.header = h

\* A person's key for that person, the agent's for an agent's rule.
belongs_to(s, asker) == s.user = asker

attaches(s, h, asker) == allows(s, h) /\ belongs_to(s, asker)

Live(k) == k # None /\ keys[k].st = "live"

\* The trigger on credentials: after an update or a delete of its row.
Notified(K) == notes' = IF heard THEN notes \o [i \in 1..Cardinality(K) |->
                            CHOOSE k \in K : Cardinality({j \in K : j < k}) = i - 1] ELSE notes

\* Revoked, and the seal wiped in the same statement.
Revoked(K) == [k \in Keys |-> IF k \in K THEN [keys[k] EXCEPT !.st = "revoked", !.seal = None] ELSE keys[k]]
KeysOf(p) == {k \in Keys : Live(k) /\ keys[k].col = p}
Personal == {k \in Keys : Live(k) /\ keys[k].col # None}

-----------------------------------------------------------------------------
(* The API: each call reads and checks, then writes                        *)

MayStart(c) == calls[c].op = "none"
Start(c, call) == MayStart(c) /\ Spend("calls") /\ calls' = [calls EXCEPT ![c] = call]
Done(c) == calls' = [calls EXCEPT ![c] = NoCall]

\* Whose the rule is and the header people's keys are sealed to: what a call
\* checked, and what may have changed by the time it writes.
Shape == <<rule.owner, rule.header>>
Overtaken(c) == calls[c].saw # Shape
Stranded(c) == IF Overtaken(c) THEN raced \cup Personal ELSE raced

\* The table's constraints.
RowHolds(w) ==
    /\ w.owner = "agent" => (w.header = None) = (w.cred = None /\ ~w.env)
    /\ w.owner = "asker" => w.header # None /\ ~w.env
    /\ ~(w.env /\ w.cred # None)
    /\ w.obo => w.owner = "agent" /\ (w.env \/ w.cred # None)

\* The check a rule naming a sealed key gets: binding_of, then attaches as
\* the agent's.
CheckCredential(k, h) == Live(k) /\ attaches(keys[k].seal, h, None)

\* create, of a rule.  The insert is one statement after its checks.
CreateRule(c) ==
    /\ ~rule.there
    /\ \E w \in Creates :
          /\ w.owner = "asker" => w.header # None /\ ~w.env
          /\ w.owner = "agent" => (w.header = None) = (w.cred = None /\ ~w.env)
          /\ ~(w.env /\ w.cred # None)
          /\ w.cred # None => CheckCredential(w.cred, w.header)
          /\ Start(c, [op |-> "create", row |-> w])
    /\ UNCHANGED <<rows, turns, gateway, notes, reqs, raced>>

CreateWrites(c) ==
    /\ calls[c].op = "create"
    /\ rule' = IF rule.there THEN rule ELSE calls[c].row
    /\ Done(c) /\ UNCHANGED <<keys, members, machine, turns, gateway, notes, reqs, raced, left>>

\* set_credential.
SetCredential(c) ==
    /\ rule.there /\ ~rule.env
    /\ \E h \in Headers \cup {None}, k \in Keys \cup {None} :
          /\ rule.owner = "asker" => h = rule.header
          /\ k = None => (h = None \/ rule.owner = "asker")
          /\ k # None => h # None /\ CheckCredential(k, h)
          /\ Start(c, [op |-> "credential", header |-> h, cred |-> k, saw |-> Shape])
    /\ UNCHANGED <<rows, turns, gateway, notes, reqs, raced>>

CredentialWrites(c) ==
    /\ calls[c].op = "credential"
    /\ LET w == [rule EXCEPT !.header = calls[c].header, !.cred = calls[c].cred,
                             !.obo = @ /\ calls[c].cred # None]
       IN  IF rule.there /\ RowHolds(w) THEN rule' = w /\ raced' = Stranded(c)
           ELSE UNCHANGED <<rule, raced>>
    /\ Done(c) /\ UNCHANGED <<keys, members, machine, turns, gateway, notes, reqs, left>>

\* set_owner, to each person's own: the header stays where people's keys are
\* sealed to it, and the workspace's key has to travel in it.
ToAsker(c) ==
    /\ rule.there /\ ~rule.env
    /\ \E h \in Headers :
          /\ rule.owner = "asker" => h = rule.header
          /\ Live(rule.cred) => attaches(keys[rule.cred].seal, h, None)
          /\ Start(c, [op |-> "asker", header |-> h, saw |-> Shape])
    /\ UNCHANGED <<rows, turns, gateway, notes, reqs, raced>>

AskerWrites(c) ==
    /\ calls[c].op = "asker"
    /\ LET w == [rule EXCEPT !.owner = "asker", !.header = calls[c].header, !.obo = FALSE]
       IN  IF rule.there /\ RowHolds(w) THEN rule' = w /\ raced' = Stranded(c)
           ELSE UNCHANGED <<rule, raced>>
    /\ Done(c) /\ UNCHANGED <<keys, members, machine, turns, gateway, notes, reqs, left>>

\* set_owner, to the agent: in one transaction the people's keys go.  The
\* table refuses it of a rule whose key is the environment's.
ToAgent(c) ==
    /\ MayStart(c) /\ Spend("calls") /\ rule.there /\ ~rule.env
    /\ rule' = [rule EXCEPT !.owner = "agent", !.header = IF rule.cred = None THEN None ELSE @]
    /\ keys' = Revoked(Personal) /\ Notified(Personal)
    /\ UNCHANGED <<members, machine, calls, turns, gateway, reqs, raced>>

\* set_on_behalf_of; the update asks again.
OnBehalf(c) ==
    /\ rule.there /\ rule.owner = "agent" /\ (rule.env \/ rule.cred # None)
    /\ Start(c, [op |-> "behalf"])
    /\ UNCHANGED <<rows, turns, gateway, notes, reqs, raced>>

BehalfWrites(c) ==
    /\ calls[c].op = "behalf"
    /\ rule' = IF rule.there /\ RowHolds([rule EXCEPT !.obo = TRUE]) THEN [rule EXCEPT !.obo = TRUE] ELSE rule
    /\ Done(c) /\ UNCHANGED <<keys, members, machine, turns, gateway, notes, reqs, raced, left>>

\* delete, of a rule: people's keys for it go with it, and calls under way on
\* it find nothing to write.
DeleteRule ==
    /\ rule.there /\ Spend("calls")
    /\ calls' = [c \in Calls |-> IF calls[c].op \in {"credential", "asker", "behalf", "connect"}
                                 THEN NoCall ELSE calls[c]]
    /\ rule' = NoRule
    /\ LET K == {k \in Keys : keys[k].col # None}
       IN  keys' = [k \in Keys |-> IF k \in K THEN NoKey ELSE keys[k]] /\ Notified(K)
    /\ UNCHANGED <<members, machine, turns, gateway, reqs, raced>>

\* A workspace's key: stored, or rotated (a revoked one is given a key again).
StoreKey(k) ==
    /\ keys[k].st = "none" \/ keys[k].col = None
    /\ Spend("seals")
    /\ \E h \in Headers :
          keys' = [keys EXCEPT ![k] = [st |-> "live", col |-> None, seal |-> Sealed(None, h, left["seals"])]]
    /\ IF keys[k].st = "none" THEN UNCHANGED notes ELSE Notified({k})
    /\ UNCHANGED <<rule, members, machine, calls, turns, gateway, reqs, raced>>

\* revoke: the workspace's, and by an administrator a person's too.
RevokeKey(k) ==
    /\ Live(k) /\ Spend("revokes")
    /\ keys' = Revoked({k}) /\ Notified({k})
    /\ UNCHANGED <<rule, members, machine, calls, turns, gateway, reqs, raced>>

\* member, or for a machine user ours.
member(p) == p \in members

\* store's read of the rule, which the seal has to fit.
Connect(c, p, k) ==
    /\ member(p) /\ rule.there /\ rule.owner = "asker"
    /\ Start(c, [op |-> "connect", who |-> p, key |-> k, header |-> rule.header, saw |-> Shape])
    /\ UNCHANGED <<rows, turns, gateway, notes, reqs, raced>>

\* store's transaction: the old key revoked and the new one stored together.
ConnectWrites(c) ==
    /\ calls[c].op = "connect" /\ Done(c)
    /\ LET p == calls[c].who
           k == calls[c].key
       IN  IF rule.there /\ keys[k].st = "none" /\ (p \in Machines => member(p))
           THEN /\ keys' = [Revoked(KeysOf(p)) EXCEPT ![k] =
                     [st |-> "live", col |-> p, seal |-> Sealed(p, calls[c].header, 0)]]
                /\ Notified(KeysOf(p))
                /\ raced' = IF Overtaken(c) \/ ~member(p) THEN raced \cup {k} ELSE raced \ {k}
           ELSE UNCHANGED <<keys, notes, raced>>
    /\ UNCHANGED <<rule, members, machine, turns, gateway, reqs, left>>

\* disconnect.
Disconnect(p) ==
    /\ member(p) /\ KeysOf(p) # {} /\ Spend("revokes")
    /\ keys' = Revoked(KeysOf(p)) /\ Notified(KeysOf(p))
    /\ UNCHANGED <<rule, members, machine, calls, turns, gateway, reqs, raced>>

\* set_for_agent; the account is looked for before it is named.
SetMachine(c, p) ==
    /\ p = None \/ member(p)
    /\ Start(c, [op |-> "machine", who |-> p])
    /\ UNCHANGED <<rows, turns, gateway, notes, reqs, raced>>

MachineWrites(c) ==
    /\ calls[c].op = "machine" /\ Done(c)
    /\ machine' = IF calls[c].who \in members \cup {None} THEN calls[c].who ELSE machine
    /\ UNCHANGED <<rule, keys, members, turns, gateway, notes, reqs, raced, left>>

\* machine_users::delete: its keys are revoked, and in a second statement it
\* goes, with the rows of its keys and its place on any agent.
DeleteMachine(c, p) ==
    /\ member(p) /\ Start(c, [op |-> "delete", who |-> p])
    /\ keys' = Revoked(KeysOf(p)) /\ Notified(KeysOf(p))
    /\ UNCHANGED <<rule, members, machine, turns, gateway, reqs, raced>>

MachineGoes(c) ==
    LET p == calls[c].who
        K == {k \in Keys : keys[k].col = p}
    IN
    /\ calls[c].op = "delete" /\ Done(c)
    /\ members' = members \ {p} /\ machine' = IF machine = p THEN None ELSE machine
    /\ keys' = [k \in Keys |-> IF k \in K THEN NoKey ELSE keys[k]] /\ Notified(K)
    /\ UNCHANGED <<rule, turns, gateway, reqs, raced, left>>

\* The last role goes, and the trigger revokes.
Leave(p) ==
    /\ p \in members /\ Spend("leave")
    /\ members' = members \ {p}
    /\ keys' = Revoked(KeysOf(p)) /\ Notified(KeysOf(p))
    /\ UNCHANGED <<rule, machine, calls, turns, gateway, reqs, raced>>

\* Somebody who can write the database moves a person's key onto another's.
Move(k, p) ==
    /\ Live(k) /\ keys[k].col # None /\ KeysOf(p) = {} /\ Spend("move")
    /\ keys' = [keys EXCEPT ![k].col = p] /\ Notified({k})
    /\ UNCHANGED <<rule, members, machine, calls, turns, gateway, reqs, raced>>

-----------------------------------------------------------------------------
(* A turn and its requests                                                 *)

OwnKey(p) == IF KeysOf(p) = {} THEN None ELSE CHOOSE k \in KeysOf(p) : TRUE

\* The rule a turn p asked for gets; None where it is left out.
rules_for_turn(p) ==
    IF ~rule.there THEN None
    ELSE IF rule.owner = "agent" THEN [header |-> rule.header, cred |-> rule.cred, asker |-> None, obo |-> rule.obo]
    ELSE IF p # None THEN [header |-> rule.header, cred |-> OwnKey(p), asker |-> p, obo |-> FALSE]
    ELSE IF rule.cred # None THEN [header |-> rule.header, cred |-> rule.cred, asker |-> None, obo |-> FALSE]
    ELSE None

\* Whose turn it is: whoever sent it, or the account its agent names.
asker_for(p) == IF p # None THEN p ELSE machine

Mint(t, p) ==
    /\ ~turns[t].there
    /\ turns' = [turns EXCEPT ![t] = [there |-> TRUE, asker |-> asker_for(p), rule |-> rules_for_turn(asker_for(p))]]
    /\ UNCHANGED <<rows, calls, gateway, notes, reqs, raced, left>>

ticket(k) == <<cache.epoch, cache.gens[k]>>

\* vet_and_send up to the key: from memory, or a ticket for reading the row.
Ask(r, t) ==
    LET m == turns[t].rule
        k == m.cred
        hit == cache.trusted /\ cache.entries[k] # None
    IN
    /\ reqs[r].pc = "none" /\ turns[t].there /\ m # None /\ m.cred # None
    /\ reqs' = [reqs EXCEPT ![r] =
         IF hit THEN [pc |-> "open", turn |-> t, key |-> k, seal |-> cache.entries[k]]
         ELSE [pc |-> "read", turn |-> t, key |-> k, ticket |-> ticket(k)]]
    /\ UNCHANGED <<rows, calls, turns, gateway, notes, raced, left>>

\* get reads the row and opens it.
Read(r) ==
    LET k == reqs[r].key
    IN
    /\ reqs[r].pc = "read"
    /\ reqs' = [reqs EXCEPT ![r] = IF Live(k) THEN [pc |-> "keep", turn |-> @.turn, key |-> k,
                                                    ticket |-> @.ticket, seal |-> keys[k].seal]
                                  ELSE NoReq]
    /\ UNCHANGED <<rows, calls, turns, gateway, notes, raced, left>>

\* Mutant: what was read goes in while the listener is heard.
insert_any(r) ==
    IF cache.trusted THEN [cache EXCEPT !.entries[reqs[r].key] = reqs[r].seal] ELSE cache

\* Cache::insert: only if nothing moved while it was read.
insert(r) ==
    IF cache.trusted /\ ticket(reqs[r].key) = reqs[r].ticket
    THEN [cache EXCEPT !.entries[reqs[r].key] = reqs[r].seal] ELSE cache

Keep(r) ==
    /\ reqs[r].pc = "keep"
    /\ cache' = insert(r)
    /\ reqs' = [reqs EXCEPT ![r] = [pc |-> "open", turn |-> @.turn, key |-> @.key, seal |-> @.seal]]
    /\ UNCHANGED <<rows, calls, turns, lis, heard, notes, raced, left>>

\* Sent, where what the key was sealed to allows it; refused otherwise.
Send(r) ==
    LET m == turns[reqs[r].turn].rule
    IN
    /\ reqs[r].pc = "open"
    /\ reqs' = [reqs EXCEPT ![r] = IF attaches(@.seal, m.header, m.asker)
                                  THEN [pc |-> "sent", turn |-> @.turn, key |-> @.key, seal |-> @.seal] ELSE NoReq]
    /\ UNCHANGED <<rows, calls, turns, gateway, notes, raced, left>>

Answered(r) ==
    /\ reqs[r].pc = "sent" /\ reqs' = [reqs EXCEPT ![r] = NoReq]
    /\ UNCHANGED <<rows, calls, turns, gateway, notes, raced, left>>

-----------------------------------------------------------------------------
(* The cache                                                               *)

set_trusted(b) == [entries |-> [k \in Keys |-> None], gens |-> [k \in Keys |-> 0],
                   epoch |-> cache.epoch + 1, trusted |-> b]

\* listen.
Listen ==
    /\ lis = "down" /\ lis' = "listening" /\ heard' = TRUE
    /\ UNCHANGED <<rows, calls, turns, notes, cache, reqs, raced, left>>

Trust ==
    /\ lis = "listening" /\ lis' = "up" /\ cache' = set_trusted(TRUE)
    /\ UNCHANGED <<rows, calls, turns, heard, notes, reqs, raced, left>>

Invalidate ==
    /\ lis = "up" /\ notes # <<>>
    /\ cache' = [cache EXCEPT !.entries[Head(notes)] = None, !.gens[Head(notes)] = @ + 1]
    /\ notes' = Tail(notes)
    /\ UNCHANGED <<rows, calls, turns, lis, heard, reqs, raced, left>>

\* The connection goes, with whatever was on its way.
Lose ==
    /\ heard /\ Spend("lose") /\ heard' = FALSE /\ notes' = <<>>
    /\ UNCHANGED <<rows, calls, turns, lis, cache, reqs, raced>>

Distrust ==
    /\ lis = "up" /\ ~heard /\ lis' = "down" /\ cache' = set_trusted(FALSE)
    /\ UNCHANGED <<rows, calls, turns, heard, notes, reqs, raced, left>>

Next ==
    \/ \E c \in Calls : \/ CreateRule(c) \/ CreateWrites(c) \/ SetCredential(c) \/ CredentialWrites(c)
                        \/ ToAsker(c) \/ AskerWrites(c) \/ ToAgent(c) \/ OnBehalf(c) \/ BehalfWrites(c)
                        \/ ConnectWrites(c) \/ \E p \in People \cup Machines, k \in Keys : Connect(c, p, k)
                        \/ MachineWrites(c) \/ MachineGoes(c)
                        \/ \E p \in Machines \cup {None} : SetMachine(c, p)
                        \/ \E p \in Machines : DeleteMachine(c, p)
    \/ DeleteRule
    \/ \E k \in Keys : StoreKey(k) \/ RevokeKey(k) \/ \E p \in People : Move(k, p)
    \/ \E p \in People \cup Machines : Disconnect(p)
    \/ \E p \in People : Leave(p)
    \/ \E t \in Turns, p \in People \cup {None} : Mint(t, p)
    \/ \E r \in Requests : Read(r) \/ Keep(r) \/ Send(r) \/ Answered(r) \/ \E t \in Turns : Ask(r, t)
    \/ Listen \/ Trust \/ Invalidate \/ Lose \/ Distrust

Spec == Init /\ [][Next]_vars

\* The listener hears what is sent and notices a lost connection.
Fairness == WF_vars(Listen) /\ WF_vars(Trust) /\ WF_vars(Invalidate) /\ WF_vars(Distrust)

FairSpec == Spec /\ Fairness

-----------------------------------------------------------------------------
(* Properties                                                              *)

\* Every row has its shape, and the table's constraints hold of the rule.
TypeOK ==
    /\ rule.there => RowHolds(rule)
    /\ \A k \in Keys : (keys[k].st = "live") = (keys[k].seal # None)
    /\ members \subseteq People \cup Machines /\ cache.trusted = (lis = "up")

\* A person's key is sent on that person's turns, in the header they sealed
\* it for, and on nobody else's or nobody's, whoever writes the database
\* (seal.rs belongs_to, connections.rs).
OwnersTurn ==
    \A r \in Requests : reqs[r].pc = "sent" =>
        /\ reqs[r].seal.user # None => turns[reqs[r].turn].asker = reqs[r].seal.user
        /\ reqs[r].seal.header = turns[reqs[r].turn].rule.header

\* While the gateway is on the database's list, a key it holds in memory
\* that is not the row's has a notification on its way: a load that raced a
\* revocation is not kept (sealed.rs).
StaleIsTold ==
    heard => \A k \in Keys : cache.entries[k] # None /\ cache.entries[k] # keys[k].seal =>
        \E i \in DOMAIN notes : notes[i] = k

\* Somebody who left has no key that works, however many calls are under way.
\* One is the exception: membership is read before the transaction that stores
\* the key (connections.rs:67, :171), so a call that read it before they left
\* stores one that nothing revokes.
LeftNoKey == \A k \in Personal \ raced : keys[k].col \in members

\* A rule that is the agent's has no person's key that works (set_owner), but
\* for one whose call read the rule while it was each person's own.
AgentsNoKey == rule.there /\ rule.owner = "agent" => Personal \subseteq raced

\* A key somebody is shown as connected travels in the rule's header, so the
\* gateway sends it (set_owner, set_credential), but for those an edit stranded
\* that had read the rule before another changed it, and those sealed to a header
\* that went meanwhile.
ConnectedSends ==
    rule.there /\ rule.owner = "asker" => \A k \in Personal \ raced : keys[k].seal.header = rule.header
=============================================================================
