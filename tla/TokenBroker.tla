---------------------------- MODULE TokenBroker ----------------------------
(***************************************************************************)
(* The router's token broker: the cache and its flights (broker-cache.mts), *)
(* the owner of the source (broker-owner.mts), the file source and its     *)
(* refreshes (broker-file.mts), the queue of official children and the     *)
(* admission of requests (broker-runtime.mts), under account switches.     *)
(*                                                                         *)
(* An action is the router's code between two awaits.  Code that waits for *)
(* a settled promise only runs before the router takes up anything else;   *)
(* the account's generation and the login on disk belong to other processes *)
(* and change whenever the router waits for more than that: for the login  *)
(* to be read whole, an official child, an upstream, a client.             *)
(***************************************************************************)
EXTENDS Naturals, Sequences, FiniteSets

CONSTANTS Requests,     \* requests that need a bearer, once each
          MaxSwitches,  \* bound on account switches begun
          MaxAged,      \* bound on the logins that come near their expiry
          Logins,       \* the logins <<account, version>> there may be
          None

ASSUME BrokerAssumption ==
    /\ MaxSwitches \in Nat /\ MaxAged \in Nat
    /\ Logins \subseteq (0 .. MaxSwitches) \X Nat
    /\ \A a \in 0 .. MaxSwitches : <<a, 0>> \in Logins
    /\ None \notin Requests /\ None \notin Nat /\ None \notin Requests \X (1 .. 4)

VARIABLES
    generation,  \* the ledger's generation; each is an account of its own
    switch,      \* where the account switch is
    switches,    \* switches begun
    diskAccount, \* the account whose login is at the managed home
    version,     \* the login each account has now
    aged,        \* bearers about to expire
    mem,         \* the broker's and the owner's variables
    queue,       \* sources whose refresh waits for an official child
    child,       \* the login the running official child was started on
    spent,       \* official refreshes asked for a bearer handed out, in this window
    req          \* the requests and the get each of them awaits

world == <<generation, switch, switches, diskAccount, version, aged>>
official == <<queue, child, spent>>
vars == <<generation, switch, switches, diskAccount, version, aged, mem, queue, child,
          spent, req>>

\* The ledger is open and the router may begin work: an account switch that
\* was published admits nothing before the restart, one that was undone does.
Admits == switch \in {"open", "reopened"}

Generations == 0 .. MaxSwitches
DiskBearer == <<diskAccount, version[diskAccount]>>

\* What a get returns; forced says for the properties that the bearer was read
\* because one was refused, or a get found it refused.
Leases ==
    [bearer : Logins, generation : Generations, source : Nat, revision : Nat,
     cache : Nat, forced : BOOLEAN]

\* Null is no lease, no login and no outcome of a refresh.
ASSUME LeaseAssumption ==
    /\ None \notin Leases /\ None \notin Logins
    /\ None \notin [bearer : Logins \cup {None}, ok : BOOLEAN]

\* A get makes at most two flights, a request at most two gets.
Flights == Requests \X (1 .. 4)

NoFlight == [acq |-> "none", promise |-> "none", key |-> None, force |-> FALSE,
             again |-> FALSE, bearer |-> None, lease |-> None]
NoRequest == [pc |-> "new", holds |-> FALSE, gets |-> 0, attempt |-> 0,
              force |-> FALSE, flight |-> None, lease |-> None, refused |-> None]

Over == [NoRequest EXCEPT !.pc = "over"]

Init ==
    /\ generation = 0 /\ switch = "open" /\ switches = 0
    /\ diskAccount = 0
    /\ version = [a \in Generations |-> 0]
    /\ aged = {}
    /\ mem = [value |-> None, inflight |-> None, cache |-> 0,
              selected |-> None, revision |-> 0, paused |-> None,
              closed |-> FALSE,
              sources |-> <<>>, flight |-> [f \in Flights |-> NoFlight]]
    /\ queue = <<>> /\ child = None
    /\ spent = [b \in Logins |-> 0]
    /\ req = [r \in Requests |-> NoRequest]

-----------------------------------------------------------------------------
(* The broker's functions, from its variables before to those after.        *)

\* A promise settles once.
Settle(flight, f, outcome) ==
    IF flight[f].promise = "pending" THEN [flight EXCEPT ![f].promise = outcome] ELSE flight

\* drop: nothing handed out or under way before is current any more.
Drop(m) ==
    [m EXCEPT !.cache = m.cache + 1, !.value = None, !.inflight = None,
              !.flight = IF m.inflight = None THEN m.flight
                         ELSE Settle(m.flight, m.inflight, "changed")]

\* publish: the broker hears of every change of source until it is closed.
Publish(m, source, force) ==
    LET p == [m EXCEPT !.selected = source, !.revision = m.revision + 1] IN
    IF ~force /\ m.selected = source THEN m ELSE IF m.closed THEN p ELSE Drop(p)

\* owner.current: a source of another generation is retired on sight.
Current(m) ==
    IF m.selected # None /\ m.sources[m.selected].generation # generation
    THEN Publish(m, None, FALSE) ELSE m

Key(m) == [generation |-> generation, source |-> m.selected,
           revision |-> m.revision, cache |-> m.cache]

\* matches, on the variables Current has been applied to.
Matches(m, key) == ~m.closed /\ key = Key(m)

\* Mutant: a lease is current as long as its account is.
AccountCurrent(m, lease) == ~m.closed /\ lease.generation = generation

LeaseCurrent(m, lease) ==
    /\ ~m.closed /\ m.selected # None
    /\ lease.generation = generation /\ lease.source = m.selected
    /\ lease.revision = m.revision /\ lease.cache = m.cache

\* owner.source: refused while paused for this account, else the selected
\* source or a new one.  ok says whether it returned.
Source(m) ==
    IF m.paused = generation THEN [m |-> m, ok |-> FALSE]
    ELSE LET c == Current([m EXCEPT !.paused = None])
             n == [c EXCEPT !.sources = Append(c.sources,
                     [generation |-> generation, served |-> None, last |-> None,
                      refreshing |-> FALSE])]
         IN [m |-> IF c.selected # None THEN c ELSE Publish(n, Len(n.sources), FALSE),
             ok |-> TRUE]

\* flight, and acquire up to its question to the source: a caller joins the
\* flight of the same key or starts one of its own, f, which fails if there is
\* no source or asking for it changed the key.
Fly(m, f, force) ==
    LET joined == m.inflight # None /\ Matches(m, m.flight[m.inflight].key)
        new == [m EXCEPT !.inflight = f,
                         !.flight[f] = [NoFlight EXCEPT !.acq = "reading", !.promise = "pending",
                                                        !.key = Key(m), !.force = force]]
        s == Source(new)
    IN IF joined THEN [m |-> m, flight |-> m.inflight]
       ELSE [m |-> IF s.ok /\ Matches(s.m, new.flight[f].key) THEN s.m
                   ELSE [s.m EXCEPT !.flight[f].acq = "broken"],
             flight |-> f]

\* prepare: the value goes if it is the bearer just refused (the read is then
\* forced), if it is stale, about to expire, or old, which any value may be.
Prepare(m, refused, old) ==
    LET c == Current(m)
        v == c.value
        rejected == /\ v # None /\ refused # None
                    /\ LeaseCurrent(c, refused) /\ refused.bearer = v.bearer
        due == v # None /\ (~LeaseCurrent(c, v) \/ old \/ v.bearer \in aged)
    IN [m |-> IF rejected \/ due THEN Drop(c) ELSE c, force |-> rejected]

\* One attempt of get, up to its await.
Attempt(m, f, refused, forced, old) ==
    LET p == Prepare(m, refused, old)
        force == p.force \/ forced
        s == Fly(Current(p.m), f, force)
    IN IF m.closed THEN [kind |-> "failed", m |-> m]
       ELSE IF p.m.value # None
       THEN [kind |-> "lease", m |-> p.m, lease |-> p.m.value, force |-> force]
       ELSE [kind |-> "await", m |-> s.m, flight |-> s.flight, force |-> force]

\* Mutant: the bearer just refused is handed back.
NeverRefuses(refused, lease) == FALSE

\* The lease is of the source and the account that refused one comes from, and
\* has its bearer.
Refuses(refused, lease) ==
    /\ refused # None
    /\ refused.bearer = lease.bearer /\ refused.source = lease.source
    /\ refused.revision = lease.revision /\ refused.generation = lease.generation

-----------------------------------------------------------------------------
(* Requests.                                                                *)

\* The request r after an attempt a of its get.
Await(r, q, attempt, a) ==
    LET tried == [q EXCEPT !.attempt = attempt, !.force = a.force] IN
    /\ mem' = a.m
    /\ req' = [req EXCEPT ![r] =
         CASE a.kind = "failed" -> Over
           [] a.kind = "await"  -> [tried EXCEPT !.pc = "await", !.flight = a.flight]
           [] a.kind = "lease"  -> IF ~q.holds THEN Over
                                   ELSE [tried EXCEPT !.pc = "got", !.flight = None,
                                                      !.lease = a.lease]]

FlightOf(r, q, attempt) == <<r, 2 * q.gets + attempt - 1>>

\* get from its attempt-th attempt on, up to its next await or its end; a
\* refused bearer found in the cache makes the second attempt a forced one.
Get(r, q, m, attempt, forced) ==
    \E old \in BOOLEAN :
      LET a == Attempt(m, FlightOf(r, q, attempt), q.refused, forced, old)
          again == Attempt(Drop(a.m), FlightOf(r, q, 1), q.refused, TRUE, old)
      IN
      /\ old => m.value # None
      /\ IF /\ a.kind = "lease" /\ attempt = 0
            /\ ~a.force /\ Refuses(q.refused, a.lease)
         THEN Await(r, q, 1, again)
         ELSE Await(r, q, attempt, a)

\* Nothing that waits for a settled promise only is left to run.
Idle ==
    /\ \A f \in Flights : mem.flight[f].acq \notin {"broken", "answer"}
    /\ \A r \in Requests :
         req[r].pc = "await" => mem.flight[req[r].flight].promise = "pending"

\* admission.begin, then the first get.
Begin(r) ==
    /\ Idle
    /\ req[r].pc = "new"
    /\ Admits /\ ~mem.closed
    /\ Get(r, [NoRequest EXCEPT !.holds = TRUE, !.gets = 1], mem, 0, FALSE)
    /\ UNCHANGED <<world, official>>

\* The flight r awaits is forgotten once it is over and nobody else awaits it.
Delivered(r) ==
    LET f == req[r].flight IN
    IF mem.flight[f].acq = "over" /\ \A q \in Requests \ {r} : req[q].flight # f
    THEN [mem EXCEPT !.flight[f] = NoFlight] ELSE mem

\* Mutant: one attempt too many.
TriesThrice(q) == q.attempt <= 1

\* get makes two attempts.
TriesAgain(q) == q.attempt = 0

\* The promise a get awaits has settled.
Resume(r) ==
    LET q == req[r]
        fl == mem.flight[q.flight]
        n == Delivered(r)
        c == Current(n)
    IN
    /\ q.pc = "await"
    /\ fl.promise # "pending"
    /\ \/ /\ fl.promise = "failed"
          /\ mem' = n /\ req' = [req EXCEPT ![r] = Over]
       \/ LET lost == fl.promise = "changed" \/ ~LeaseCurrent(c, fl.lease)
              m == IF fl.promise = "changed" THEN n ELSE c
          IN /\ fl.promise # "failed"
             /\ IF lost
                THEN IF TriesAgain(q) THEN Get(r, q, m, q.attempt + 1, FALSE)
                     ELSE mem' = m /\ req' = [req EXCEPT ![r] = Over]
                ELSE IF ~q.force /\ q.attempt = 0 /\ Refuses(q.refused, fl.lease)
                THEN Get(r, q, Drop(m), 1, TRUE)
                ELSE Await(r, q, q.attempt, [kind |-> "lease", m |-> m,
                                                 lease |-> fl.lease, force |-> q.force])
    /\ UNCHANGED <<world, official>>

\* The upstream refuses the bearer: the request asks once more.
Rejected(r) ==
    /\ Idle
    /\ req[r].pc = "got" /\ req[r].gets = 1
    /\ Get(r, [req[r] EXCEPT !.gets = 2, !.refused = req[r].lease], mem, 0, FALSE)
    /\ UNCHANGED <<world, official>>

\* It answers, or refuses for good, and the request is released.
Answered(r) ==
    /\ Idle
    /\ req[r].pc = "got"
    /\ req' = [req EXCEPT ![r] = Over]
    /\ UNCHANGED <<world, official, mem>>

\* The client goes away: the request is released, its get runs on.
Abort(r) ==
    /\ Idle
    /\ req[r].pc = "await" /\ req[r].holds
    /\ req' = [req EXCEPT ![r].holds = FALSE]
    /\ UNCHANGED <<world, official, mem>>

-----------------------------------------------------------------------------
(* The rest of acquire, for each flight.                                    *)

\* What is left of a flight while somebody awaits it.
Ended(m, f) ==
    IF \E r \in Requests : req[r].flight = f
    THEN [NoFlight EXCEPT !.acq = "over", !.promise = m.flight[f].promise,
                          !.lease = m.flight[f].lease]
    ELSE NoFlight

\* finally: a flight empties the slot only if it is still in it.
End(m, f) ==
    [m EXCEPT !.flight[f] = Ended(m, f),
              !.inflight = IF m.inflight = f THEN None ELSE m.inflight]

\* Mutant: a flight that fails answers nobody.
FailQuietly(m, f, outcome) == End(m, f)

Fail(m, f, outcome) == End([m EXCEPT !.flight = Settle(m.flight, f, outcome)], f)

\* guard, with the retirement it may cause.
Guarded(m, f) ==
    LET c == IF m.closed THEN m ELSE Current(m) IN
    [m |-> c, ok |-> Matches(c, m.flight[f].key)]

Served(f, bearer) ==
    mem' = [mem EXCEPT !.sources[mem.flight[f].key.source].served = bearer,
                       !.flight[f].acq = "answer", !.flight[f].bearer = bearer]

\* Mutant: a dead login is refreshed each time it is refused.
NeverCooling(source) == FALSE

\* cooling: the served bearer is what the last refresh left, moments ago.
Cooling(source) == source.last # None /\ source.last.bearer = source.served

\* source.request, whenever the login is there to be read whole: the login on
\* disk, a replacement another process wrote, the answer of the last refresh
\* while it cools down, or an official refresh, which its callers share.
Read(f) ==
    LET s == mem.flight[f].key.source
        source == mem.sources[s]
        refresh == mem.flight[f].force \/ mem.flight[f].again
        replaced == DiskBearer # source.served /\ DiskBearer \notin aged
        waiting == [mem EXCEPT !.flight[f].acq = "refresh"]
    IN
    /\ mem.flight[f].acq = "reading"
    /\ \/ /\ ~refresh \/ replaced \/ (Cooling(source) /\ source.last.ok)
          /\ Served(f, DiskBearer)
          /\ UNCHANGED <<queue, spent>>
       \/ /\ refresh /\ ~replaced /\ Cooling(source) /\ ~source.last.ok
          /\ mem' = [mem EXCEPT !.flight[f].acq = "broken"]
          /\ UNCHANGED <<queue, spent>>
       \/ /\ refresh /\ ~replaced /\ ~Cooling(source) /\ source.refreshing
          /\ mem' = waiting
          /\ UNCHANGED <<queue, spent>>
       \/ /\ refresh /\ ~replaced /\ ~Cooling(source) /\ ~source.refreshing
          /\ mem' = [waiting EXCEPT !.sources[s].refreshing = TRUE]
          /\ queue' = Append(queue, s)
          /\ spent' = [b \in Logins |-> IF b = source.served /\ spent[b] < 2
                                         THEN spent[b] + 1 ELSE spent[b]]
    /\ UNCHANGED <<world, child, req>>

\* owner.source() or the source threw, or the login could not be read.
Broken(f) ==
    LET g == Guarded(mem, f) IN
    /\ mem.flight[f].acq = "broken"
    /\ mem' = Fail(g.m, f, IF g.ok THEN "failed" ELSE "changed")
    /\ UNCHANGED <<world, official, req>>

\* Mutant: what a flight brings back is cached without a look at its key.
StoreUnguarded(f) ==
    LET fl == mem.flight[f]
        lease == [bearer |-> fl.bearer, generation |-> fl.key.generation,
                  source |-> fl.key.source, revision |-> fl.key.revision,
                  cache |-> fl.key.cache, forced |-> fl.force]
        stored == [mem EXCEPT !.value = lease,
                              !.flight[f].lease = lease]
    IN
    /\ fl.acq = "answer"
    /\ mem' = Fail(stored, f, "done")
    /\ UNCHANGED <<world, official, req>>

\* The source has answered: an expiring bearer is refreshed once, a good one
\* becomes the value and the lease of everyone who waits for this flight.
Store(f) ==
    LET fl == mem.flight[f]
        g == Guarded(mem, f)
        expiring == fl.bearer \in aged
        lease == [bearer |-> fl.bearer, generation |-> fl.key.generation,
                  source |-> fl.key.source, revision |-> fl.key.revision,
                  cache |-> fl.key.cache, forced |-> fl.force]
        stored == [g.m EXCEPT !.value = lease,
                              !.flight[f].lease = lease]
    IN
    /\ fl.acq = "answer"
    /\ \/ ~g.ok /\ mem' = Fail(g.m, f, "changed")
       \/ /\ g.ok /\ expiring /\ (fl.force \/ fl.again)
          /\ mem' = Fail(g.m, f, "failed")
       \/ /\ g.ok /\ expiring /\ ~fl.force /\ ~fl.again
          /\ mem' = [g.m EXCEPT !.flight[f].acq = "reading", !.flight[f].again = TRUE]
       \/ g.ok /\ ~expiring /\ mem' = Fail(stored, f, "done")
    /\ UNCHANGED <<world, official, req>>

-----------------------------------------------------------------------------
(* Official children, one at a time in the order asked.                     *)

\* A child may be launched while the ledger admits credential families.
Launch ==
    /\ Idle
    /\ queue # <<>> /\ child = None
    /\ Admits
    /\ child' = DiskBearer
    /\ UNCHANGED <<world, mem, queue, spent, req>>

\* The source's refresh has ended with an outcome for the flights that share
\* it; last.ok is FALSE for one that brought no answer.
Refreshed(bearer, ok) ==
    LET s == Head(queue)
        served == IF ok THEN bearer ELSE mem.sources[s].served
        waits(f) == mem.flight[f].acq = "refresh" /\ mem.flight[f].key.source = s
    IN
    /\ mem' = [mem EXCEPT
         !.sources[s].refreshing = FALSE,
         !.sources[s].last = [bearer |-> served, ok |-> ok],
         !.sources[s].served = IF \E f \in Flights : waits(f) THEN served ELSE @,
         !.flight = [f \in Flights |->
            IF ~waits(f) THEN mem.flight[f]
            ELSE IF ok THEN [mem.flight[f] EXCEPT !.acq = "answer", !.bearer = bearer]
            ELSE [mem.flight[f] EXCEPT !.acq = "broken"]]]
    /\ queue' = Tail(queue) /\ child' = None
    /\ UNCHANGED <<spent, req>>

\* The official client answers: a new login, which it has written to the home
\* it was started on, or the one it had.
OfficialAnswers ==
    /\ Idle
    /\ child # None
    /\ \/ /\ <<child[1], version[child[1]] + 1>> \in Logins
          /\ version' = [version EXCEPT ![child[1]] = version[child[1]] + 1]
          /\ Refreshed(<<child[1], version[child[1]] + 1>>, TRUE)
       \/ version' = version /\ Refreshed(<<child[1], version[child[1]]>>, TRUE)
    /\ UNCHANGED <<generation, switch, switches, diskAccount, aged>>

\* It fails, times out, is stopped for a switch, or cannot be launched.
OfficialFails ==
    /\ Idle
    /\ queue # <<>>
    /\ Refreshed(None, FALSE)
    /\ UNCHANGED world

-----------------------------------------------------------------------------
(* Time, other Codex processes, the account switch, shutdown.               *)

\* Another Codex process replaces the login.
Login ==
    /\ Idle
    /\ Admits \/ switch = "draining"
    /\ <<diskAccount, version[diskAccount] + 1>> \in Logins
    /\ version' = [version EXCEPT ![diskAccount] = version[diskAccount] + 1]
    /\ UNCHANGED <<generation, switch, switches, diskAccount, aged, official, mem, req>>

\* The login on disk comes within the margin of its expiry.
Age ==
    /\ Idle
    /\ Cardinality(aged) < MaxAged
    /\ DiskBearer \notin aged
    /\ aged' = aged \cup {DiskBearer}
    /\ UNCHANGED <<generation, switch, switches, diskAccount, version, official, mem, req>>

\* REFRESH_COOLDOWN has passed.
CooldownEnds(s) ==
    /\ Idle
    /\ s \in DOMAIN mem.sources /\ mem.sources[s].last # None
    /\ mem' = [mem EXCEPT !.sources[s].last = None]
    /\ spent' = [b \in Logins |-> IF b[1] = mem.sources[s].generation THEN 0 ELSE spent[b]]
    /\ UNCHANGED <<world, queue, child, req>>

Freeze ==
    /\ Idle
    /\ switch = "open" /\ switches < MaxSwitches
    /\ switch' = "draining" /\ switches' = switches + 1
    /\ UNCHANGED <<generation, diskAccount, version, aged, official, mem, req>>

\* The stop hook, once no request holds work: invalidate, then stopSources
\* pauses the owner for this account and publishes no source.
Stop ==
    /\ Idle
    /\ switch = "draining"
    /\ \A r \in Requests : ~req[r].holds
    /\ switch' = "stopping"
    /\ mem' = Publish([Drop(mem) EXCEPT !.paused = generation], None, TRUE)
    /\ UNCHANGED <<generation, switches, diskAccount, version, aged, official, req>>

\* No official child is left: the next account's login comes to the home, then
\* the ledger publishes it.
Move ==
    /\ Idle
    /\ switch = "stopping" /\ child = None
    /\ switch' = "moved" /\ diskAccount' = generation + 1
    /\ UNCHANGED <<generation, switches, version, aged, official, mem, req>>

PublishSwitch ==
    /\ Idle
    /\ switch = "moved"
    /\ switch' = "restart" /\ generation' = generation + 1
    /\ UNCHANGED <<switches, diskAccount, version, aged, official, mem, req>>

\* The switch is given up before it is published.  While it waits for work to
\* end nobody has been told of it; later the participants left without a child
\* are sent a restart.
Undo ==
    /\ Idle
    /\ \/ switch = "draining" /\ switch' = "open"
       \/ switch = "stopping" /\ child # None /\ switch' = "open"
       \/ /\ switch = "draining" /\ child = None
          /\ \A r \in Requests : ~req[r].holds
          /\ switch' = "reopened"
       \/ switch = "stopping" /\ child = None /\ switch' = "reopened"
       \/ switch = "moved" /\ switch' = "reopened"
    /\ diskAccount' = generation
    /\ UNCHANGED <<generation, switches, version, aged, official, mem, req>>

\* The restart hook, after which requests are admitted again.
Restart ==
    /\ Idle
    /\ switch \in {"restart", "reopened"}
    /\ switch' = "open" /\ mem' = Drop(mem)
    /\ UNCHANGED <<generation, switches, diskAccount, version, aged, official, req>>

\* close, once the last request is released: none is admitted any more, and
\* the owner publishes that there is no source to a broker that is closed.
CloseBroker ==
    /\ Idle
    /\ ~mem.closed
    /\ \A r \in Requests : ~req[r].holds
    /\ mem' = Publish([Drop(mem) EXCEPT !.closed = TRUE], None, TRUE)
    /\ UNCHANGED <<world, official, req>>

-----------------------------------------------------------------------------
Request(r) == Begin(r) \/ Resume(r) \/ Rejected(r) \/ Answered(r) \/ Abort(r)
Acquire(f) == Read(f) \/ Broken(f) \/ Store(f)
Official == Launch \/ OfficialAnswers \/ OfficialFails
Environment == Login \/ Age \/ \E s \in DOMAIN mem.sources : CooldownEnds(s)
Switching == Freeze \/ Stop \/ Move \/ PublishSwitch \/ Undo \/ Restart

Next == \/ \E r \in Requests : Request(r)
        \/ \E f \in Flights : Acquire(f)
        \/ Official \/ Environment \/ Switching \/ CloseBroker

Spec == Init /\ [][Next]_vars

-----------------------------------------------------------------------------
(* Properties.                                                              *)

TypeOK ==
    /\ generation \in Generations /\ diskAccount \in Generations
    /\ switch \in {"open", "draining", "stopping", "moved", "restart", "reopened"}
    /\ \A a \in Generations : <<a, version[a]>> \in Logins
    /\ aged \subseteq Logins
    /\ child \in Logins \cup {None}
    /\ mem.selected \in DOMAIN mem.sources \cup {None}
    /\ mem.inflight \in Flights \cup {None}
    /\ \A r \in Requests :
         /\ req[r].pc \in {"new", "await", "got", "over"}
         /\ req[r].gets \in 0 .. 2 /\ req[r].attempt \in 0 .. 1
         /\ req[r].flight \in Flights \cup {None}

\* A bearer is only ever handed out, or kept, under the account it belongs to,
\* also by flights that were overtaken by a switch of accounts.
LeaseIsOfItsAccount ==
    /\ mem.value # None => mem.value.bearer[1] = mem.value.generation
    /\ \A r \in Requests :
         req[r].lease # None => req[r].lease.bearer[1] = req[r].lease.generation

\* What get returns is current when it returns: nothing was dropped, no source
\* published and no account switched since its flight began.
GetReturnsCurrent ==
    [][\A r \in Requests :
         req[r].pc # "got" /\ req'[r].pc = "got" =>
           /\ ~mem'.closed /\ mem'.selected # None
           /\ req'[r].lease.generation = generation
           /\ req'[r].lease.source = mem'.selected
           /\ req'[r].lease.revision = mem'.revision
           /\ req'[r].lease.cache = mem'.cache]_vars

\* The value is of this revision of the cache and of the source: a flight that
\* ends late never replaces what came after it.
ValueIsOfThisRevision ==
    mem.value # None =>
      /\ mem.value.cache = mem.cache
      /\ mem.value.revision = mem.revision
      /\ mem.value.source = mem.selected

\* A request that reports a bearer refused does not get it back from the same
\* source unless a read made for a refused bearer says it is the login; a get
\* whose first flight was dropped under it reads plainly, and may.
RefusedIsReadAgain ==
    \A r \in Requests :
      /\ req[r].pc = "got" /\ req[r].refused # None
      /\ req[r].lease.bearer = req[r].refused.bearer
      /\ req[r].lease.source = req[r].refused.source
      => req[r].lease.forced \/ (req[r].attempt = 1 /\ ~req[r].force)

\* A bearer handed out is refreshed at most once in a window, however many
\* requests find it refused at once: the refresh token is single-use.
RefreshedOnce == \A b \in Logins : spent[b] <= 1

\* A get never waits for a promise nobody will settle: the flight it awaits is
\* settled, or at work, or waits for an official refresh that is queued once.
\* Two flights under way are never for the same key.
AwaitedIsUnderWay ==
    /\ \A r \in Requests :
         req[r].pc = "await" =>
           LET fl == mem.flight[req[r].flight] IN
           \/ fl.promise # "pending"
           \/ fl.acq \in {"reading", "broken", "answer"}
           \/ fl.acq = "refresh" /\ mem.sources[fl.key.source].refreshing
    /\ \A s \in DOMAIN mem.sources :
         Cardinality({i \in DOMAIN queue : queue[i] = s})
           = IF mem.sources[s].refreshing THEN 1 ELSE 0
    /\ \A f, g \in Flights :
         /\ f # g
         /\ mem.flight[f].acq \notin {"none", "over"}
         /\ mem.flight[g].acq \notin {"none", "over"}
         => mem.flight[f].key # mem.flight[g].key

\* A switch that is over, given up or not, leaves the router with a source it
\* may hand out.
ServesAfterSwitch == switch = "open" => mem.paused # generation
=============================================================================
