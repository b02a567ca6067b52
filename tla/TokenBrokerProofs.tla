------------------------- MODULE TokenBrokerProofs -------------------------
(***************************************************************************)
(* Theorems about TokenBroker, for any requests, logins and switches.       *)
(*                                                                         *)
(* A flight carries the key of the moment it began.  Its bearer belongs to  *)
(* the account of the ledger for as long as that key is of this revision    *)
(* of the cache: the login on disk is another account's only once the       *)
(* router was stopped, which drops the cache and pauses the source, and no  *)
(* flight asks a paused source.  What a flight stores is of its own         *)
(* account, because it stores only under its key.                          *)
(*                                                                         *)
(* A flight that may no longer be joined never has the present key again,  *)
(* so no two flights under way share a key, and whoever awaits one hears   *)
(* of it when it ends.                                                     *)
(*                                                                         *)
(* That a refused bearer is read again takes a second invariant, Recall, of *)
(* what requests and flights remember: a lease of the selected source is of *)
(* its present revision, so that a request knows its refused bearer again,  *)
(* and the flight a forced get awaits is its own and reads for it.          *)
(***************************************************************************)
EXTENDS TokenBroker, FiniteSetTheorems, TLAPS

Keys ==
    [generation : Generations, source : Nat \cup {None}, revision : Nat, cache : Nat]

FlightStates ==
    [acq : {"none", "reading", "refresh", "answer", "broken", "over"},
     promise : {"none", "pending", "changed", "failed", "done"},
     key : Keys \cup {None}, force : BOOLEAN, again : BOOLEAN,
     bearer : Logins \cup {None}, lease : Leases \cup {None}]

Sources ==
    [generation : Generations, served : Logins \cup {None},
     last : [bearer : Logins \cup {None}, ok : BOOLEAN] \cup {None},
     refreshing : BOOLEAN]

Brokers ==
    [value : Leases \cup {None}, inflight : Flights \cup {None}, cache : Nat,
     selected : Nat \cup {None}, revision : Nat, paused : Generations \cup {None},
     closed : BOOLEAN, sources : Seq(Sources), flight : [Flights -> FlightStates]]

RequestStates ==
    [pc : {"new", "await", "got", "over"}, holds : BOOLEAN, gets : 0 .. 2,
     attempt : 0 .. 1, force : BOOLEAN, flight : Flights \cup {None},
     lease : Leases \cup {None}, refused : Leases \cup {None}]

OfItsAccount(lease) == lease # None => lease.bearer[1] = lease.generation

\* The value of m is one that m could store now.
ValueOK(m) ==
    m.value # None =>
      /\ ~m.closed
      /\ m.value.cache = m.cache
      /\ m.value.revision = m.revision
      /\ m.value.source = m.selected

Working == {"reading", "refresh", "answer"}
UnderWay == Working \cup {"broken"}

\* A flight under way has a key, of this revision of the cache or of one before.
KeyOK(m, fl) ==
    fl.acq \in UnderWay => fl.key \in Keys /\ fl.key.cache <= m.cache

\* What holds of the broker's variables while it runs.
BrokerOK(m) ==
    /\ m \in Brokers
    /\ m.selected \in DOMAIN m.sources \cup {None}
    /\ ValueOK(m) /\ OfItsAccount(m.value)
    /\ switch \in {"stopping", "moved"} => m.paused = generation
    /\ \A f \in Flights :
         /\ OfItsAccount(m.flight[f].lease)
         /\ KeyOK(m, m.flight[f])

\* A flight at work asks a source, and while it is of this revision it is not
\* overtaken by a move of accounts.
WorksOK(m, fl) ==
    fl.acq \in Working =>
      /\ fl.key.source \in DOMAIN m.sources
      /\ fl.acq = "answer" => fl.bearer \in Logins
      /\ fl.key.cache = m.cache =>
           /\ switch \notin {"stopping", "moved"}
           /\ fl.acq = "answer" => fl.bearer[1] = generation

\* The sources whose refresh is asked for.
Refreshing(m) == {s \in DOMAIN m.sources : m.sources[s].refreshing}

\* A key may be the key again only as long as it is.
Now(m, key) ==
    key.cache = m.cache /\ key.revision = m.revision /\ key.generation = generation

\* Whoever awaits the flight f will hear of it, and only the flight that may be
\* joined has the present key.
WaitsOK(m, f, fl) ==
    /\ fl.promise = "pending" => fl.acq \in UnderWay
    /\ fl.acq = "refresh" => fl.key.source \in Refreshing(m)
    /\ fl.acq \in UnderWay =>
         /\ fl.key.revision <= m.revision /\ fl.key.generation <= generation
         /\ fl.key.revision = m.revision => fl.key.source = m.selected
         /\ f # m.inflight => ~Now(m, fl.key)

\* No two flights under way have the same key.
Apart(m) ==
    \A f, g \in Flights :
      /\ f # g /\ m.flight[f].acq \in UnderWay /\ m.flight[g].acq \in UnderWay
      => m.flight[f].key # m.flight[g].key

WaitOK(m) == Apart(m) /\ \A f \in Flights : WaitsOK(m, f, m.flight[f])

\* What holds of the flights, beside the broker's variables.
FlightsOK(m) == WaitOK(m) /\ \A f \in Flights : WorksOK(m, m.flight[f])

\* The account on disk is the ledger's but between a move and its publication.
AccountOK ==
    /\ switches \in Generations /\ generation \in Generations
    /\ switch \in {"open", "draining", "stopping", "moved", "restart", "reopened"}
    /\ generation <= switches
    /\ switch \in {"draining", "stopping", "moved"} => generation < switches
    /\ diskAccount = IF switch = "moved" THEN generation + 1 ELSE generation
    /\ version \in [Generations -> Nat]
    /\ \A a \in Generations : <<a, version[a]>> \in Logins
    /\ aged \subseteq Logins

\* A source asked to refresh is queued once, and an official child is of the
\* ledger's account.
OfficialOK ==
    /\ queue \in Seq(Nat)
    /\ \A i \in DOMAIN queue : queue[i] \in DOMAIN mem.sources
    /\ \A i, j \in DOMAIN queue : queue[i] = queue[j] => i = j
    /\ {queue[i] : i \in DOMAIN queue} = Refreshing(mem)
    /\ child # None =>
         /\ child \in Logins /\ child[1] = generation /\ queue # <<>>
         /\ switch \notin {"moved", "restart"}

RequestOK(q) ==
    /\ q \in RequestStates
    /\ OfItsAccount(q.lease)
    /\ q.pc = "await" => q.flight \in Flights
    /\ q.pc \in {"await", "got"} => q.gets > 0

RequestsOK ==
    /\ DOMAIN req = Requests
    /\ \A r \in Requests : RequestOK(req[r])

IndInv ==
    /\ AccountOK /\ OfficialOK /\ RequestsOK
    /\ BrokerOK(mem) /\ FlightsOK(mem)

-----------------------------------------------------------------------------
(* The broker's functions.                                                  *)

\* From m to n the broker goes on: no flight is touched but its promise, which
\* settles, and what was of an earlier revision of the cache stays so.
Onward(m, n) ==
    /\ m.cache <= n.cache /\ m.revision <= n.revision
    /\ n.revision = m.revision => n.selected = m.selected
    /\ n.inflight = m.inflight \/ m.cache < n.cache
    /\ DOMAIN m.sources \subseteq DOMAIN n.sources /\ Refreshing(n) = Refreshing(m)
    /\ \A f \in Flights :
         /\ n.flight[f].acq = m.flight[f].acq /\ n.flight[f].key = m.flight[f].key
         /\ n.flight[f].bearer = m.flight[f].bearer
         /\ n.flight[f].promise = "pending" => m.flight[f].promise = "pending"

\* A flight at work stays sound when the broker goes on.
LEMMA OnwardKeepsFlight ==
    ASSUME NEW m, NEW n, BrokerOK(m), BrokerOK(n), Onward(m, n),
           NEW f \in Flights, WorksOK(m, m.flight[f])
    PROVE  WorksOK(n, n.flight[f])
<1>1. m.cache \in Nat /\ n.cache \in Nat
    BY DEF BrokerOK, Brokers
<1>2. m.flight[f].acq \in Working =>
        m.flight[f].key.cache <= m.cache /\ m.flight[f].key.cache \in Nat
    BY DEF BrokerOK, KeyOK, Keys, UnderWay
<1> QED BY <1>1, <1>2 DEF WorksOK, Onward, Working

LEMMA OnwardKeepsWait ==
    ASSUME NEW m, NEW n, BrokerOK(m), BrokerOK(n), Onward(m, n), WaitOK(m)
    PROVE  WaitOK(n)
<1>1. Apart(n)
    BY DEF WaitOK, Apart, Onward
<1>2. ASSUME NEW f \in Flights PROVE WaitsOK(n, f, n.flight[f])
  <2>1. WaitsOK(m, f, m.flight[f]) /\ KeyOK(m, m.flight[f])
      BY DEF WaitOK, BrokerOK
  <2>2. /\ m.cache \in Nat /\ n.cache \in Nat /\ m.revision \in Nat /\ n.revision \in Nat
      BY DEF BrokerOK, Brokers
  <2>3. m.flight[f].acq \in UnderWay =>
          /\ m.flight[f].key.cache \in Nat /\ m.flight[f].key.revision \in Nat
          /\ m.flight[f].key.cache <= m.cache
      BY <2>1 DEF KeyOK, Keys
  <2> QED BY <2>1, <2>2, <2>3 DEF WaitsOK, Onward, Now, UnderWay, Working
<1> QED BY <1>1, <1>2 DEF WaitOK

LEMMA OnwardKeepsFlights ==
    ASSUME NEW m, NEW n, BrokerOK(m), BrokerOK(n), Onward(m, n), FlightsOK(m)
    PROVE  FlightsOK(n)
BY OnwardKeepsFlight, OnwardKeepsWait DEF FlightsOK

LEMMA OnwardIsTransitive ==
    ASSUME NEW l, NEW m, NEW n, BrokerOK(l), BrokerOK(m), BrokerOK(n),
           Onward(l, m), Onward(m, n)
    PROVE  Onward(l, n)
<1>1. /\ l.cache \in Nat /\ m.cache \in Nat /\ n.cache \in Nat
      /\ l.revision \in Nat /\ m.revision \in Nat /\ n.revision \in Nat
    BY DEF BrokerOK, Brokers
<1> QED BY <1>1 DEF Onward

LEMMA OnwardIsReflexive ==
    ASSUME NEW m, BrokerOK(m)
    PROVE  Onward(m, m)
BY DEF Onward, BrokerOK, Brokers

\* A promise settles without a change to its flight.
LEMMA SettleKeeps ==
    ASSUME NEW flight \in [Flights -> FlightStates], NEW f \in Flights,
           NEW outcome \in {"changed", "failed", "done"}
    PROVE  /\ Settle(flight, f, outcome) \in [Flights -> FlightStates]
           /\ \A g \in Flights :
                /\ Settle(flight, f, outcome)[g].acq = flight[g].acq
                /\ Settle(flight, f, outcome)[g].key = flight[g].key
                /\ Settle(flight, f, outcome)[g].bearer = flight[g].bearer
                /\ Settle(flight, f, outcome)[g].lease = flight[g].lease
                /\ Settle(flight, f, outcome)[g].promise = "pending" =>
                     flight[g].promise = "pending" /\ g # f
BY DEF Settle, FlightStates

\* Drop leaves no value and goes on in the next revision of the cache.
LEMMA DropGoesOn ==
    ASSUME NEW m, BrokerOK(m)
    PROVE  /\ BrokerOK(Drop(m)) /\ Onward(m, Drop(m))
           /\ Drop(m).value = None /\ Drop(m).cache = m.cache + 1
           /\ Drop(m).selected = m.selected /\ Drop(m).revision = m.revision
           /\ Drop(m).paused = m.paused /\ Drop(m).closed = m.closed
           /\ Drop(m).sources = m.sources
<1>1. m \in Brokers
    BY DEF BrokerOK
<1> DEFINE F == IF m.inflight = None THEN m.flight
                ELSE Settle(m.flight, m.inflight, "changed")
<1>2. /\ F \in [Flights -> FlightStates]
      /\ \A g \in Flights :
           /\ F[g].acq = m.flight[g].acq /\ F[g].key = m.flight[g].key
           /\ F[g].bearer = m.flight[g].bearer /\ F[g].lease = m.flight[g].lease
           /\ F[g].promise = "pending" => m.flight[g].promise = "pending"
    BY <1>1, SettleKeeps DEF Brokers
<1>3. Drop(m) = [m EXCEPT !.cache = m.cache + 1, !.value = None, !.inflight = None,
                          !.flight = F]
    BY DEF Drop
<1> HIDE DEF F
<1>4. /\ Drop(m) \in Brokers
      /\ Drop(m).value = None /\ Drop(m).cache = m.cache + 1
      /\ Drop(m).selected = m.selected /\ Drop(m).revision = m.revision
      /\ Drop(m).paused = m.paused /\ Drop(m).closed = m.closed
      /\ Drop(m).sources = m.sources /\ Drop(m).flight = F
  <2>1. F \in [Flights -> FlightStates]
      BY <1>2
  <2>2. PICK c \in Nat : c = m.cache + 1
      BY <1>1 DEF Brokers
  <2>3. [m EXCEPT !.cache = c, !.value = None, !.inflight = None, !.flight = F] \in Brokers
      BY <1>1, <2>1 DEF Brokers
  <2>4. DOMAIN m = {"value", "inflight", "cache", "selected", "revision", "paused",
                    "closed", "sources", "flight"}
      BY <1>1 DEF Brokers
  <2> QED BY <1>3, <2>2, <2>3, <2>4
<1>5. Onward(m, Drop(m))
  <2>1. m.cache \in Nat /\ m.revision \in Nat
      BY <1>1 DEF Brokers
  <2> QED BY <2>1, <1>2, <1>4 DEF Onward, Refreshing
<1>6. \A f \in Flights : m.flight[f].key \in Keys =>
        m.flight[f].key.cache \in Nat /\ m.cache \in Nat
    BY <1>1 DEF Keys, Brokers
<1>7. BrokerOK(Drop(m))
    BY <1>2, <1>4, <1>6 DEF KeyOK, BrokerOK, ValueOK, OfItsAccount
<1> QED BY <1>4, <1>5, <1>7

Published(m, source, n) ==
    /\ BrokerOK(n) /\ Onward(m, n)
    /\ n.selected = source /\ n.paused = m.paused /\ n.sources = m.sources
    /\ n.closed = m.closed
    /\ n.revision # m.revision \/ n = m

\* Publishing a source, or none, goes on too; the value is gone with the last.
LEMMA PublishGoesOn ==
    ASSUME NEW m, BrokerOK(m), NEW source \in DOMAIN m.sources \cup {None}, NEW n,
           n = Publish(m, source, FALSE) \/ n = Publish(m, source, TRUE)
    PROVE  Published(m, source, n)
<1> DEFINE p == [m EXCEPT !.selected = source, !.revision = m.revision + 1]
<1>1. m \in Brokers /\ m.revision \in Nat /\ m.cache \in Nat /\ DOMAIN m.sources \subseteq Nat
  <2>1. m \in Brokers /\ m.revision \in Nat /\ m.cache \in Nat /\ m.sources \in Seq(Sources)
      BY DEF BrokerOK, Brokers
  <2>2. DOMAIN m.sources = 1 .. Len(m.sources) /\ Len(m.sources) \in Nat
      BY <2>1
  <2> QED BY <2>1, <2>2
<1>2. CASE n = m /\ m.selected = source
    BY <1>1, <1>2, OnwardIsReflexive DEF Published
<1>3. CASE ~(n = m /\ m.selected = source) /\ m.closed
  <2>1. n = p
      BY <1>3 DEF Publish
  <2>2. /\ p \in Brokers /\ p.selected = source /\ p.revision = m.revision + 1
        /\ p.value = m.value /\ p.cache = m.cache /\ p.paused = m.paused
        /\ p.closed = m.closed /\ p.sources = m.sources /\ p.flight = m.flight
    <3>1. PICK k \in Nat : k = m.revision + 1
        BY <1>1
    <3>2. p = [m EXCEPT !.selected = source, !.revision = k]
        BY <3>1, <1>1 DEF Brokers
    <3>3. source \in Nat \cup {None}
        BY <1>1
    <3>4. [m EXCEPT !.selected = source, !.revision = k] \in Brokers
        BY <1>1, <3>3 DEF Brokers
    <3> QED BY <1>1, <3>1, <3>2, <3>4 DEF Brokers
  <2>3. m.value = None
      BY <1>3 DEF BrokerOK, ValueOK, KeyOK
  <2> HIDE DEF p
  <2>4. BrokerOK(p)
      BY <2>2, <2>3 DEF BrokerOK, ValueOK, KeyOK
  <2>5. Onward(m, p)
    <3>1. p.inflight = m.inflight
        BY <1>1 DEF p, Brokers
    <3> QED BY <1>1, <2>2, <3>1 DEF Onward, Refreshing
  <2>6. m.revision \in Nat
      BY <1>1 DEF Brokers
  <2> QED BY <2>1, <2>2, <2>4, <2>5, <2>6 DEF Published
<1>4. CASE ~(n = m /\ m.selected = source) /\ ~m.closed
  <2>1. n = Drop(p)
      BY <1>4 DEF Publish
  <2> DEFINE v == [p EXCEPT !.value = None]
  <2>2. /\ v \in Brokers /\ v.selected = source /\ v.revision = m.revision + 1
        /\ v.value = None /\ v.cache = m.cache /\ v.paused = m.paused
        /\ v.closed = m.closed /\ v.sources = m.sources /\ v.flight = m.flight
    <3>1. PICK k \in Nat : k = m.revision + 1
        BY <1>1
    <3>2. v = [m EXCEPT !.selected = source, !.revision = k, !.value = None]
        BY <3>1, <1>1 DEF Brokers
    <3>3. source \in Nat \cup {None}
        BY <1>1
    <3>4. [m EXCEPT !.selected = source, !.revision = k, !.value = None] \in Brokers
        BY <1>1, <3>3 DEF Brokers
    <3> QED BY <1>1, <3>1, <3>2, <3>4 DEF Brokers
  <2>3. Drop(p) = Drop(v)
      BY <1>1 DEF Drop, Brokers
  <2> HIDE DEF p, v
  <2>4. BrokerOK(v)
      BY <2>2 DEF BrokerOK, ValueOK, KeyOK, OfItsAccount
  <2>5. /\ BrokerOK(Drop(v)) /\ Onward(v, Drop(v)) /\ Drop(v).selected = source
        /\ Drop(v).revision = m.revision + 1 /\ Drop(v).paused = m.paused
        /\ Drop(v).sources = m.sources /\ Drop(v).closed = m.closed
        /\ Drop(v).cache = m.cache + 1
      BY <2>2, <2>4, DropGoesOn
  <2>6. Onward(m, Drop(v))
      BY <1>1, <2>2, <2>5 DEF Onward, Refreshing
  <2>7. m.revision \in Nat
      BY <1>1 DEF Brokers
  <2> QED BY <2>1, <2>3, <2>5, <2>6, <2>7 DEF Published
<1> QED BY <1>2, <1>3, <1>4

\* Current retires a source of another account; what is left is of this one.
LEMMA CurrentGoesOn ==
    ASSUME NEW m, BrokerOK(m)
    PROVE  /\ BrokerOK(Current(m)) /\ Onward(m, Current(m))
           /\ Current(m).paused = m.paused /\ Current(m).sources = m.sources
           /\ Current(m).closed = m.closed
           /\ Current(m).selected \in {m.selected, None}
           /\ Current(m).revision # m.revision \/ Current(m) = m
<1>1. CASE m.selected # None /\ m.sources[m.selected].generation # generation
  <2> DEFINE p == Publish(m, None, FALSE)
  <2>1. Current(m) = p
      BY <1>1 DEF Current
  <2>2. Published(m, None, p)
    <3>1. p = Publish(m, None, FALSE) /\ None \in DOMAIN m.sources \cup {None}
        OBVIOUS
    <3> HIDE DEF p
    <3> QED BY <3>1, PublishGoesOn
  <2> HIDE DEF p
  <2> QED BY <2>1, <2>2 DEF Published
<1>2. CASE ~(m.selected # None /\ m.sources[m.selected].generation # generation)
    BY <1>2, OnwardIsReflexive DEF Current
<1> QED BY <1>1, <1>2

\* A source is asked only while the router is not stopped for a switch.
LEMMA SourceGoesOn ==
    ASSUME AccountOK, NEW m, BrokerOK(m)
    PROVE  /\ BrokerOK(Source(m).m) /\ Onward(m, Source(m).m)
           /\ Source(m).ok =>
                /\ switch \notin {"stopping", "moved"}
                /\ Source(m).m.selected \in DOMAIN Source(m).m.sources
                /\ Source(m).m.selected # None
<1>1. CASE m.paused = generation
    BY <1>1, OnwardIsReflexive DEF Source
<1>2. CASE m.paused # generation
  <2> DEFINE u == [m EXCEPT !.paused = None]
             c == Current(u)
             src == [generation |-> generation, served |-> None, last |-> None,
                     refreshing |-> FALSE]
             n == [c EXCEPT !.sources = Append(c.sources, src)]
             p == Publish(n, Len(n.sources), FALSE)
  <2>1. /\ Source(m).ok
        /\ Source(m).m = IF c.selected # None THEN c ELSE p
      BY <1>2 DEF Source
  <2>2. switch \notin {"stopping", "moved"}
      BY <1>2 DEF BrokerOK
  <2>3. BrokerOK(u) /\ Onward(m, u)
    <3>1. m \in Brokers
        BY DEF BrokerOK
    <3>2. /\ u \in Brokers /\ u.value = m.value /\ u.cache = m.cache
          /\ u.selected = m.selected /\ u.revision = m.revision /\ u.closed = m.closed
          /\ u.sources = m.sources /\ u.flight = m.flight /\ m.cache \in Nat
          /\ u.inflight = m.inflight /\ m.revision \in Nat
        BY <3>1 DEF Brokers
    <3> HIDE DEF u
    <3>3. BrokerOK(u)
        BY <2>2, <3>2 DEF BrokerOK, ValueOK, KeyOK
    <3>4. Onward(m, u)
        BY <3>2 DEF Onward, Refreshing
    <3> QED BY <3>3, <3>4
  <2>4. BrokerOK(c) /\ Onward(m, c)
      BY <2>3, CurrentGoesOn, OnwardIsTransitive
  <2> HIDE DEF c
  <2>5. /\ BrokerOK(n) /\ Onward(c, n) /\ Len(n.sources) \in DOMAIN n.sources
        /\ Len(n.sources) \in Nat
    <3>1. c \in Brokers /\ c.sources \in Seq(Sources)
        BY <2>4 DEF BrokerOK, Brokers
    <3>2. src \in Sources
        BY DEF Sources, AccountOK
    <3>3. Append(c.sources, src) \in Seq(Sources)
        BY <3>1, <3>2
    <3>4. /\ DOMAIN c.sources \subseteq DOMAIN Append(c.sources, src)
          /\ Len(Append(c.sources, src)) \in DOMAIN Append(c.sources, src)
          /\ Len(Append(c.sources, src)) \in Nat
        BY <3>1, <3>2
    <3>a. PICK sources \in Seq(Sources) : sources = Append(c.sources, src)
        BY <3>3
    <3>b. n = [c EXCEPT !.sources = sources]
        BY <3>a
    <3> HIDE DEF src
    <3>5. /\ n \in Brokers /\ n.value = c.value /\ n.cache = c.cache
          /\ n.selected = c.selected /\ n.revision = c.revision /\ n.closed = c.closed
          /\ n.paused = c.paused /\ n.flight = c.flight /\ c.cache \in Nat
          /\ n.sources = Append(c.sources, src) /\ n.inflight = c.inflight
          /\ c.revision \in Nat
      <4> HIDE DEF n
      <4> QED BY <3>1, <3>a, <3>b DEF Brokers
    <3> HIDE DEF n
    <3>6. BrokerOK(n)
        BY <2>4, <3>4, <3>5 DEF BrokerOK, ValueOK, KeyOK
    <3>7. Refreshing(n) = Refreshing(c)
      <4>1. ~src.refreshing
          BY DEF src
      <4>2. /\ \A i \in DOMAIN n.sources : i \in DOMAIN c.sources \/ n.sources[i] = src
            /\ \A i \in DOMAIN c.sources : n.sources[i] = c.sources[i]
            /\ DOMAIN c.sources \subseteq DOMAIN n.sources
          BY <3>1, <3>2, <3>5
      <4> QED BY <4>1, <4>2 DEF Refreshing
    <3>8. Onward(c, n)
        BY <3>4, <3>5, <3>7 DEF Onward
    <3> QED BY <3>4, <3>5, <3>6, <3>8
  <2> HIDE DEF n
  <2>6. BrokerOK(p) /\ Onward(m, p) /\ p.selected = Len(n.sources) /\ p.sources = n.sources
    <3>a. p = Publish(n, Len(n.sources), FALSE)
        OBVIOUS
    <3> HIDE DEF p
    <3>1. Published(n, Len(n.sources), p)
        BY <2>5, <3>a, PublishGoesOn
    <3> HIDE DEF p
    <3> QED BY <2>4, <2>5, <3>1, OnwardIsTransitive DEF Published
  <2>7. Len(n.sources) # None
      BY <2>5, BrokerAssumption
  <2>8. c.selected # None => c.selected \in DOMAIN c.sources
      BY <2>4 DEF BrokerOK
  <2> HIDE DEF p
  <2> QED BY <2>1, <2>2, <2>4, <2>5, <2>6, <2>7, <2>8
<1> QED BY <1>1, <1>2

\* In the place of f, fl is the only flight under way with its key.
FitsIn(m, f, fl) ==
    /\ WaitsOK(m, f, fl)
    /\ fl.acq \in UnderWay =>
         \A g \in Flights \ {f} : m.flight[g].acq \in UnderWay => m.flight[g].key # fl.key

LEMMA WaitSet ==
    ASSUME NEW m, BrokerOK(m), WaitOK(m), NEW f \in Flights, NEW fl \in FlightStates,
           FitsIn(m, f, fl)
    PROVE  WaitOK([m EXCEPT !.flight[f] = fl])
<1> DEFINE n == [m EXCEPT !.flight[f] = fl]
<1>1. m \in Brokers
    BY DEF BrokerOK
<1>2. /\ n.flight = [m.flight EXCEPT ![f] = fl] /\ n.cache = m.cache
      /\ n.revision = m.revision /\ n.selected = m.selected /\ n.inflight = m.inflight
      /\ n.sources = m.sources /\ m.flight \in [Flights -> FlightStates]
    BY <1>1 DEF Brokers
<1> HIDE DEF n
<1>3. \A g \in Flights : WaitsOK(n, g, n.flight[g])
    BY <1>2 DEF WaitOK, WaitsOK, FitsIn, Now, Refreshing
<1>4. Apart(n)
    BY <1>2 DEF WaitOK, Apart, FitsIn
<1> QED BY <1>3, <1>4 DEF WaitOK, n

\* A flight at work that goes on in its place.
LEMMA GoesOnInPlace ==
    ASSUME NEW m, FlightsOK(m), NEW f \in Flights, m.flight[f].acq \in UnderWay,
           NEW fl, fl.acq \in UnderWay, fl.key = m.flight[f].key,
           fl.acq = "refresh" => fl.key.source \in Refreshing(m)
    PROVE  FitsIn(m, f, fl)
<1>1. Apart(m) /\ WaitsOK(m, f, m.flight[f])
    BY DEF FlightsOK, WaitOK
<1> QED BY <1>1 DEF FitsIn, WaitsOK, Apart

LEMMA EndsInPlace ==
    ASSUME NEW m, NEW f, NEW fl, fl.acq \notin UnderWay, fl.promise # "pending"
    PROVE  FitsIn(m, f, fl)
BY DEF FitsIn, WaitsOK, UnderWay, Working

\* One flight is changed.
LEMMA FlightSet ==
    ASSUME NEW m, BrokerOK(m), NEW f \in Flights, NEW fl \in FlightStates,
           OfItsAccount(fl.lease), KeyOK(m, fl)
    PROVE  /\ BrokerOK([m EXCEPT !.flight[f] = fl])
           /\ FlightsOK(m) /\ WorksOK(m, fl) /\ FitsIn(m, f, fl) =>
                FlightsOK([m EXCEPT !.flight[f] = fl])
           /\ [m EXCEPT !.flight[f] = fl].sources = m.sources
<1> DEFINE n == [m EXCEPT !.flight[f] = fl]
<1>1. m \in Brokers
    BY DEF BrokerOK
<1>2. /\ n \in Brokers /\ n.value = m.value /\ n.cache = m.cache /\ n.paused = m.paused
      /\ n.selected = m.selected /\ n.revision = m.revision /\ n.closed = m.closed
      /\ n.sources = m.sources /\ n.flight = [m.flight EXCEPT ![f] = fl]
      /\ m.flight \in [Flights -> FlightStates]
    BY <1>1 DEF Brokers
<1> HIDE DEF n
<1>3. BrokerOK(n)
    BY <1>2 DEF BrokerOK, ValueOK, KeyOK
<1>4. FlightsOK(m) /\ WorksOK(m, fl) /\ FitsIn(m, f, fl) => FlightsOK(n)
  <2> SUFFICES ASSUME FlightsOK(m), WorksOK(m, fl), FitsIn(m, f, fl) PROVE FlightsOK(n)
      OBVIOUS
  <2>1. WaitOK(n)
      BY WaitSet DEF FlightsOK, n
  <2>2. \A g \in Flights : WorksOK(n, n.flight[g])
      BY <1>2 DEF FlightsOK, WorksOK
  <2> QED BY <2>1, <2>2 DEF FlightsOK
<1> QED BY <1>2, <1>3, <1>4 DEF n

\* The broker after m may be left for others at n.
Continued(m, n) ==
    /\ BrokerOK(n) /\ FlightsOK(n)
    /\ DOMAIN m.sources \subseteq DOMAIN n.sources /\ Refreshing(n) = Refreshing(m)

LEMMA OnwardContinues ==
    ASSUME NEW m, NEW n, BrokerOK(m), FlightsOK(m), BrokerOK(n), Onward(m, n)
    PROVE  Continued(m, n)
BY OnwardKeepsFlights DEF Continued, Onward

LEMMA KeyIsTyped ==
    ASSUME AccountOK, NEW m, BrokerOK(m)
    PROVE  Key(m) \in Keys /\ Key(m).cache = m.cache
<1>1. m.selected \in Nat \cup {None} /\ m.revision \in Nat /\ m.cache \in Nat
    BY DEF BrokerOK, Brokers
<1> QED BY <1>1 DEF Key, Keys, AccountOK

\* A new flight asks a source of the account and of the cache's revision, or
\* ends.
LEMMA FlyContinues ==
    ASSUME AccountOK, NEW m, BrokerOK(m), FlightsOK(m), ~m.closed, NEW f \in Flights,
           NEW force \in BOOLEAN, NEW fly, fly = Fly(m, f, force)
    PROVE  Continued(m, fly.m) /\ fly.flight \in Flights
<1> DEFINE joined == m.inflight # None /\ Matches(m, m.flight[m.inflight].key)
           fl == [NoFlight EXCEPT !.acq = "reading", !.promise = "pending",
                                  !.key = Key(m), !.force = force]
           new == [m EXCEPT !.inflight = f, !.flight[f] = fl]
           s == Source(new)
           asks == s.ok /\ Matches(s.m, new.flight[f].key)
           broken == [s.m EXCEPT !.flight[f].acq = "broken"]
<1>1. m \in Brokers
    BY DEF BrokerOK
<1>2. CASE joined
  <2>1. m.inflight \in Flights
      BY <1>1, <1>2 DEF Brokers
  <2>2. fly.m = m /\ fly.flight = m.inflight
      BY <1>2 DEF Fly
  <2> QED BY <2>1, <2>2 DEF Continued
<1>3. CASE ~joined
  <2>1. fly.flight = f /\ fly.m = IF asks THEN s.m ELSE broken
      BY <1>3 DEF Fly
  <2>2. Key(m) \in Keys /\ Key(m).cache = m.cache /\ m.cache \in Nat
      BY <1>1, KeyIsTyped DEF Brokers
  <2>3. fl \in FlightStates /\ fl.key = Key(m) /\ fl.lease = None /\ fl.acq = "reading"
      BY <2>2 DEF FlightStates, NoFlight
  <2> HIDE DEF fl
  <2> DEFINE u == [m EXCEPT !.inflight = f]
  <2>4. /\ BrokerOK(u) /\ WaitOK(u) /\ \A g \in Flights : WorksOK(u, u.flight[g])
        /\ u.cache = m.cache /\ u.sources = m.sources /\ u.flight = m.flight
        /\ u.selected = m.selected /\ u.revision = m.revision /\ u.inflight = f
    <3>1. /\ u \in Brokers /\ u.value = m.value /\ u.cache = m.cache
          /\ u.selected = m.selected /\ u.revision = m.revision /\ u.closed = m.closed
          /\ u.paused = m.paused /\ u.sources = m.sources /\ u.flight = m.flight
          /\ u.inflight = f
        BY <1>1 DEF Brokers
    <3> HIDE DEF u, fl
    <3>2. BrokerOK(u) /\ \A g \in Flights : WorksOK(u, u.flight[g])
        BY <3>1 DEF BrokerOK, ValueOK, KeyOK, FlightsOK, WorksOK
    <3>3. Apart(u)
        BY <3>1 DEF FlightsOK, WaitOK, Apart
    <3>4. ASSUME NEW g \in Flights PROVE WaitsOK(u, g, u.flight[g])
      <4>1. WaitsOK(m, g, m.flight[g]) /\ KeyOK(m, m.flight[g])
          BY DEF FlightsOK, WaitOK, BrokerOK
      <4>2. CASE g = m.inflight
        <5>1. m.flight[g].key # Key(m)
            BY <1>3, <4>2, BrokerAssumption DEF Matches, Flights
        <5>2. m.flight[g].acq \in UnderWay => ~Now(m, m.flight[g].key)
            BY <4>1, <5>1 DEF WaitsOK, KeyOK, Keys, Key, Now
        <5> QED BY <3>1, <4>1, <5>2 DEF WaitsOK, Now, Refreshing
      <4>3. CASE g # m.inflight
          BY <3>1, <4>1, <4>3 DEF WaitsOK, Now, Refreshing
      <4> QED BY <4>2, <4>3
    <3> QED BY <3>1, <3>2, <3>3, <3>4 DEF WaitOK
  <2>5. new = [u EXCEPT !.flight[f] = fl]
      BY <1>1 DEF Brokers
  <2> HIDE DEF u, new
  <2>6. BrokerOK(new)
      BY <2>2, <2>3, <2>4, <2>5, FlightSet DEF OfItsAccount, KeyOK
  <2>a. WaitOK(new)
    <3>1. /\ fl.key.revision = m.revision /\ fl.key.generation = generation
          /\ fl.key.source = m.selected /\ m.revision \in Nat /\ generation \in Nat
        BY <1>1, <2>3 DEF Key, Brokers, AccountOK, Generations
    <3>2. WaitsOK(u, f, fl)
        BY <2>3, <2>4, <3>1 DEF WaitsOK, UnderWay, Working
    <3>3. ASSUME NEW g \in Flights \ {f}, u.flight[g].acq \in UnderWay
          PROVE  u.flight[g].key # fl.key
      <4>1. ~Now(u, u.flight[g].key)
          BY <2>4, <3>3 DEF WaitOK, WaitsOK
      <4> QED BY <2>2, <2>3, <2>4, <3>1, <4>1 DEF Now
    <3>4. FitsIn(u, f, fl)
        BY <3>2, <3>3 DEF FitsIn
    <3> QED BY <2>3, <2>4, <2>5, <3>4, WaitSet
  <2>7. BrokerOK(s.m) /\ Onward(new, s.m) /\ WaitOK(s.m)
      BY <2>6, <2>a, SourceGoesOn, OnwardKeepsWait
  <2>8. \A g \in Flights \ {f} : WorksOK(s.m, s.m.flight[g])
    <3> SUFFICES ASSUME NEW g \in Flights \ {f} PROVE WorksOK(s.m, s.m.flight[g])
        OBVIOUS
    <3>1. u.flight \in [Flights -> FlightStates] /\ u \in Brokers
        BY <2>4 DEF BrokerOK, Brokers
    <3>2. /\ new.flight[g] = u.flight[g] /\ new.cache = u.cache
          /\ new.sources = u.sources
        BY <2>5, <3>1 DEF Brokers
    <3>3. WorksOK(new, new.flight[g])
        BY <2>4, <3>2 DEF FlightsOK, WorksOK
    <3> QED BY <2>6, <2>7, <3>3, OnwardKeepsFlight
  <2>9. /\ new.flight[f] = fl /\ s.m.flight[f].key = Key(m)
        /\ s.m.flight[f].acq = "reading" /\ new.sources = m.sources
    <3>1. u.flight \in [Flights -> FlightStates] /\ u \in Brokers
        BY <2>4 DEF BrokerOK, Brokers
    <3>2. new.flight[f] = fl /\ new.sources = m.sources
        BY <2>4, <2>5, <3>1 DEF Brokers
    <3> QED BY <2>3, <2>7, <3>2 DEF Onward
  <2>10. DOMAIN m.sources \subseteq DOMAIN s.m.sources /\ Refreshing(s.m) = Refreshing(m)
      BY <2>7, <2>9 DEF Onward, Refreshing
  <2>11. CASE asks
    <3>1. s.m.flight[f].key = Key(s.m)
        BY <2>3, <2>9, <2>11 DEF Matches
    <3>2. WorksOK(s.m, s.m.flight[f])
      <4>1. /\ switch \notin {"stopping", "moved"}
            /\ s.m.selected \in DOMAIN s.m.sources
          BY <2>6, <2>11, SourceGoesOn
      <4>2. s.m.flight[f].key.source = s.m.selected
          BY <3>1 DEF Key
      <4> HIDE DEF s
      <4> QED BY <2>2, <2>9, <4>1, <4>2 DEF WorksOK
    <3>3. FlightsOK(s.m)
        BY <2>7, <2>8, <3>2 DEF FlightsOK
    <3> HIDE DEF s
    <3> QED BY <2>1, <2>7, <2>10, <2>11, <3>3 DEF Continued
  <2>12. CASE ~asks
    <3> DEFINE w == s.m
               bfl == [w.flight[f] EXCEPT !.acq = "broken"]
    <3>1. /\ w \in Brokers /\ w.flight \in [Flights -> FlightStates] /\ BrokerOK(w)
          /\ WaitOK(w)
        BY <2>7 DEF BrokerOK, Brokers
    <3>2. broken = [w EXCEPT !.flight[f] = bfl]
        BY <3>1 DEF Brokers
    <3> HIDE DEF w, broken
    <3>3. /\ bfl \in FlightStates /\ bfl.acq = "broken" /\ bfl.key = w.flight[f].key
          /\ bfl.lease = w.flight[f].lease
        BY <3>1 DEF FlightStates
    <3>4. OfItsAccount(bfl.lease) /\ KeyOK(w, bfl)
      <4>1. OfItsAccount(bfl.lease) /\ KeyOK(w, w.flight[f])
          BY <3>1, <3>3 DEF BrokerOK
      <4>2. w.flight[f].acq = "reading"
          BY <2>9 DEF w
      <4> HIDE DEF bfl
      <4> QED BY <3>3, <4>1, <4>2 DEF KeyOK, UnderWay, Working
    <3>5. BrokerOK(broken)
      <4> HIDE DEF bfl
      <4> QED BY <3>1, <3>2, <3>3, <3>4, FlightSet
    <3>a. WaitOK(broken)
      <4>1. w.flight[f].acq = "reading"
          BY <2>9 DEF w
      <4>2. Apart(w) /\ WaitsOK(w, f, w.flight[f])
          BY <3>1 DEF WaitOK
      <4> HIDE DEF bfl
      <4>3. FitsIn(w, f, bfl)
          BY <3>3, <4>1, <4>2 DEF FitsIn, WaitsOK, Apart, UnderWay, Working
      <4> QED BY <3>1, <3>2, <3>3, <4>3, WaitSet
    <3>6. broken.cache = w.cache /\ broken.sources = w.sources
          /\ broken.flight = [w.flight EXCEPT ![f] = bfl]
        BY <3>1, <3>2 DEF Brokers
    <3>7. \A g \in Flights : WorksOK(broken, broken.flight[g])
      <4>1. WorksOK(broken, broken.flight[f])
        <5> HIDE DEF bfl
        <5> QED BY <3>1, <3>3, <3>6 DEF WorksOK, Working
      <4>2. ASSUME NEW g \in Flights \ {f} PROVE WorksOK(broken, broken.flight[g])
        <5>1. WorksOK(w, w.flight[g])
            BY <2>8 DEF w
        <5> HIDE DEF bfl
        <5> QED BY <3>1, <3>6, <5>1 DEF WorksOK
      <4> QED BY <4>1, <4>2
    <3>8. /\ DOMAIN m.sources \subseteq DOMAIN broken.sources
          /\ Refreshing(broken) = Refreshing(m)
        BY <2>10, <3>6 DEF w, Refreshing
    <3>9. fly.m = broken
        BY <2>1, <2>12
    <3> QED BY <2>1, <3>5, <3>a, <3>7, <3>8, <3>9 DEF Continued, FlightsOK
  <2> QED BY <2>11, <2>12
<1> QED BY <1>2, <1>3

\* A value that prepare leaves is current.
LEMMA PrepareGoesOn ==
    ASSUME NEW m, BrokerOK(m), NEW refused, NEW old \in BOOLEAN, NEW p,
           p = Prepare(m, refused, old)
    PROVE  /\ BrokerOK(p.m) /\ Onward(m, p.m)
           /\ p.m.value # None => LeaseCurrent(p.m, p.m.value)
           /\ p.force \in BOOLEAN /\ p.m.closed = m.closed
<1> DEFINE c == Current(m)
           v == c.value
           rejected == /\ v # None /\ refused # None
                       /\ LeaseCurrent(c, refused) /\ refused.bearer = v.bearer
           due == v # None /\ (~LeaseCurrent(c, v) \/ old \/ v.bearer \in aged)
<1>1. p.m = (IF rejected \/ due THEN Drop(c) ELSE c) /\ p.force = rejected
    BY DEF Prepare
<1>2. BrokerOK(c) /\ Onward(m, c) /\ c.closed = m.closed
    BY CurrentGoesOn
<1>3. p.force \in BOOLEAN
    BY <1>1
<1>4. CASE rejected \/ due
  <2>1. p.m = Drop(c)
      BY <1>1, <1>4
  <2> HIDE DEF c
  <2>2. /\ BrokerOK(p.m) /\ Onward(c, p.m) /\ p.m.value = None
        /\ p.m.closed = c.closed
      BY <1>2, <2>1, DropGoesOn
  <2> QED BY <1>2, <1>3, <2>2, OnwardIsTransitive
<1>5. CASE ~(rejected \/ due)
    BY <1>1, <1>2, <1>3, <1>5
<1> QED BY <1>4, <1>5

\* What an attempt of get may come to.
Attempted(m, a) ==
    /\ Continued(m, a.m)
    /\ a.kind \in {"failed", "lease", "await"}
    /\ a.kind # "failed" => a.force \in BOOLEAN
    /\ a.kind = "lease" =>
         /\ a.lease \in Leases \cup {None} /\ OfItsAccount(a.lease)
         /\ LeaseCurrent(a.m, a.lease)
    /\ a.kind = "await" => a.flight \in Flights

LEMMA AttemptEnds ==
    ASSUME AccountOK, NEW m, BrokerOK(m), FlightsOK(m), NEW f \in Flights, NEW refused,
           NEW forced \in BOOLEAN, NEW old \in BOOLEAN, NEW a,
           a = Attempt(m, f, refused, forced, old)
    PROVE  Attempted(m, a)
<1> DEFINE p == Prepare(m, refused, old)
           force == p.force \/ forced
           s == Fly(Current(p.m), f, force)
<1>1. CASE m.closed
  <2>1. a = [kind |-> "failed", m |-> m]
      BY <1>1 DEF Attempt
  <2> QED BY <2>1 DEF Attempted, Continued
<1>2. CASE ~m.closed
  <2>1. a = IF p.m.value # None
            THEN [kind |-> "lease", m |-> p.m, lease |-> p.m.value, force |-> force]
            ELSE [kind |-> "await", m |-> s.m, flight |-> s.flight, force |-> force]
      BY <1>2 DEF Attempt
  <2>2. /\ BrokerOK(p.m) /\ Onward(m, p.m)
        /\ p.m.value # None => LeaseCurrent(p.m, p.m.value)
        /\ p.force \in BOOLEAN /\ p.m.closed = m.closed
      BY PrepareGoesOn
  <2>3. force \in BOOLEAN
      BY <2>2
  <2>4. CASE p.m.value # None
    <3> HIDE DEF p, force
    <3>1. p.m.value \in Leases /\ OfItsAccount(p.m.value)
        BY <2>2, <2>4 DEF BrokerOK, Brokers
    <3>2. Continued(m, p.m)
        BY <2>2, OnwardContinues
    <3> QED BY <2>1, <2>2, <2>3, <2>4, <3>1, <3>2 DEF Attempted
  <2>5. CASE p.m.value = None
    <3> DEFINE c == Current(p.m)
    <3>1. /\ a.kind = "await" /\ a.m = s.m /\ a.flight = s.flight /\ a.force = force
        BY <2>1, <2>5
    <3> HIDE DEF p, force
    <3>2. BrokerOK(c) /\ Onward(m, c) /\ ~c.closed
        BY <1>2, <2>2, CurrentGoesOn, OnwardIsTransitive
    <3>3. Continued(m, c)
        BY <3>2, OnwardContinues
    <3> DEFINE fly == s
    <3>4. fly = Fly(c, f, force)
        OBVIOUS
    <3> HIDE DEF c
    <3>5. FlightsOK(c)
        BY <3>3 DEF Continued
    <3> HIDE DEF fly
    <3>6. Continued(c, fly.m) /\ fly.flight \in Flights
        BY <2>3, <3>2, <3>4, <3>5, FlyContinues
    <3>7. Continued(m, fly.m)
        BY <3>3, <3>6 DEF Continued
    <3>8. a.m = fly.m /\ a.flight = fly.flight
        BY <3>1 DEF fly
    <3> QED BY <2>3, <3>1, <3>6, <3>7, <3>8 DEF Attempted
  <2> QED BY <2>4, <2>5
<1> QED BY <1>1, <1>2

-----------------------------------------------------------------------------
(* Requests.                                                                *)

\* A get of the request r goes on from the broker m.
GetsOn(r, m) ==
    /\ Continued(m, mem')
    /\ DOMAIN req' = Requests
    /\ \A q \in Requests : RequestOK(req'[q])
    /\ \A q \in Requests \ {r} : req'[q] = req[q]
    /\ req'[r].pc = "got" => LeaseCurrent(mem', req'[r].lease)

LEMMA OverIsOK == RequestOK(Over) /\ Over.pc = "over"
<1>1. 0 \in 0 .. 2 /\ 0 \in 0 .. 1
    OBVIOUS
<1>2. NoRequest \in RequestStates
    BY <1>1 DEF NoRequest, RequestStates
<1>3. Over.pc = "over" /\ Over.lease = None /\ Over \in RequestStates
    BY <1>2 DEF Over, NoRequest, RequestStates
<1> QED BY <1>3 DEF RequestOK, OfItsAccount

LEMMA AwaitGetsOn ==
    ASSUME NEW r \in Requests, RequestsOK, NEW q, RequestOK(q), q.gets > 0,
           NEW attempt \in 0 .. 1, NEW m, NEW a, Attempted(m, a), Await(r, q, attempt, a)
    PROVE  GetsOn(r, m)
<1> DEFINE tried == [q EXCEPT !.attempt = attempt, !.force = a.force]
<1>1. mem' = a.m /\ Continued(m, a.m)
    BY DEF Await, Attempted
<1>2. q \in RequestStates
    BY DEF RequestOK
<1>3. req' = [req EXCEPT ![r] =
         CASE a.kind = "failed" -> Over
           [] a.kind = "await"  -> [tried EXCEPT !.pc = "await", !.flight = a.flight]
           [] a.kind = "lease"  -> IF ~q.holds THEN Over
                                   ELSE [tried EXCEPT !.pc = "got", !.flight = None,
                                                      !.lease = a.lease]]
    BY DEF Await
<1>4. CASE a.kind = "failed" \/ (a.kind = "lease" /\ ~q.holds)
  <2>1. req' = [req EXCEPT ![r] = Over]
      BY <1>3, <1>4
  <2> QED BY <1>1, <2>1, OverIsOK DEF RequestsOK, GetsOn
<1>5. CASE a.kind = "await"
  <2> DEFINE n == [tried EXCEPT !.pc = "await", !.flight = a.flight]
  <2>1. req' = [req EXCEPT ![r] = n]
      BY <1>3, <1>5
  <2>2. a.force \in BOOLEAN /\ a.flight \in Flights
      BY <1>5 DEF Attempted
  <2>3. /\ n \in RequestStates /\ n.pc = "await" /\ n.flight = a.flight
        /\ n.lease = q.lease /\ n.gets = q.gets
      BY <1>2, <2>2 DEF RequestStates
  <2> HIDE DEF n
  <2>4. RequestOK(n)
      BY <2>2, <2>3 DEF RequestOK
  <2> QED BY <1>1, <2>1, <2>3, <2>4 DEF RequestsOK, GetsOn
<1>6. CASE a.kind = "lease" /\ q.holds
  <2> DEFINE n == [tried EXCEPT !.pc = "got", !.flight = None, !.lease = a.lease]
  <2>1. req' = [req EXCEPT ![r] = n]
      BY <1>3, <1>6
  <2>2. /\ a.force \in BOOLEAN /\ a.lease \in Leases \cup {None} /\ OfItsAccount(a.lease)
        /\ LeaseCurrent(a.m, a.lease)
      BY <1>6 DEF Attempted
  <2>3. /\ n \in RequestStates /\ n.pc = "got" /\ n.lease = a.lease /\ n.gets = q.gets
      BY <1>2, <2>2 DEF RequestStates
  <2> HIDE DEF n
  <2>4. RequestOK(n)
      BY <2>2, <2>3 DEF RequestOK
  <2> QED BY <1>1, <2>1, <2>2, <2>3, <2>4 DEF RequestsOK, GetsOn
<1> QED BY <1>4, <1>5, <1>6 DEF Attempted

LEMMA FlightOfGet ==
    ASSUME NEW r \in Requests, NEW q, RequestOK(q), q.gets > 0, NEW attempt \in 0 .. 1
    PROVE  FlightOf(r, q, attempt) \in Flights
<1>1. q.gets \in 1 .. 2
    BY DEF RequestOK, RequestStates
<1>2. 2 * q.gets + attempt - 1 \in 1 .. 4
    BY <1>1
<1> QED BY <1>2 DEF FlightOf, Flights

LEMMA GetGetsOn ==
    ASSUME AccountOK, NEW r \in Requests, RequestsOK, NEW q, RequestOK(q), q.gets > 0,
           NEW m, BrokerOK(m), FlightsOK(m), NEW attempt \in 0 .. 1,
           NEW forced \in BOOLEAN, Get(r, q, m, attempt, forced)
    PROVE  GetsOn(r, m)
<1>1. PICK old \in BOOLEAN :
        LET a == Attempt(m, FlightOf(r, q, attempt), q.refused, forced, old)
            again == Attempt(Drop(a.m), FlightOf(r, q, 1), q.refused, TRUE, old)
        IN \/ Await(r, q, 1, again)
           \/ Await(r, q, attempt, a)
    BY DEF Get
<1> DEFINE a == Attempt(m, FlightOf(r, q, attempt), q.refused, forced, old)
           d == Drop(a.m)
           again == Attempt(d, FlightOf(r, q, 1), q.refused, TRUE, old)
<1>2. FlightOf(r, q, attempt) \in Flights /\ FlightOf(r, q, 1) \in Flights
    BY FlightOfGet
<1>3. Attempted(m, a)
    BY <1>2, AttemptEnds
<1>4. CASE Await(r, q, attempt, a)
  <2> HIDE DEF a
  <2> QED BY <1>3, <1>4, AwaitGetsOn
<1>5. CASE Await(r, q, 1, again)
  <2> HIDE DEF a
  <2>1. BrokerOK(a.m) /\ FlightsOK(a.m) /\ Continued(m, a.m)
      BY <1>3 DEF Attempted, Continued
  <2>2. BrokerOK(d) /\ Onward(a.m, d)
      BY <2>1, DropGoesOn
  <2>3. FlightsOK(d) /\ Continued(m, d)
      BY <2>1, <2>2, OnwardContinues DEF Continued
  <2> HIDE DEF d
  <2> DEFINE g == again
  <2>4. g = Attempt(d, FlightOf(r, q, 1), q.refused, TRUE, old)
      OBVIOUS
  <2>5. Await(r, q, 1, g)
      BY <1>5
  <2> HIDE DEF g
  <2>6. Attempted(d, g)
      BY <1>2, <2>2, <2>3, <2>4, AttemptEnds
  <2>7. GetsOn(r, d)
      BY <2>5, <2>6, AwaitGetsOn
  <2> QED BY <2>3, <2>7 DEF GetsOn, Continued
<1> QED BY <1>1, <1>4, <1>5

\* The flights do not depend on the rest of the world but the generation.
LEMMA WaitFollows ==
    ASSUME WaitOK(mem'), generation' = generation
    PROVE  WaitOK(mem)'
BY DEF WaitOK, Apart, WaitsOK, Now, Refreshing

\* A get that goes on from what was left of the broker keeps the invariant.
LEMMA GetsOnKeepsAll ==
    ASSUME IndInv, NEW r \in Requests, NEW m, Continued(mem, m), GetsOn(r, m),
           UNCHANGED <<world, official>>
    PROVE  IndInv'
<1>1. /\ BrokerOK(mem') /\ FlightsOK(mem')
      /\ DOMAIN mem.sources \subseteq DOMAIN mem'.sources
      /\ Refreshing(mem') = Refreshing(mem)
    BY DEF GetsOn, Continued
<1>2. AccountOK'
    BY DEF IndInv, AccountOK, world
<1>3. OfficialOK'
    BY <1>1 DEF IndInv, OfficialOK, Refreshing, world, official
<1>4. RequestsOK'
    BY DEF GetsOn, RequestsOK
<1>5. BrokerOK(mem)'
    BY <1>1 DEF BrokerOK, world
<1>6. FlightsOK(mem)'
    BY <1>1, WaitFollows DEF FlightsOK, WorksOK, world
<1> QED BY <1>2, <1>3, <1>4, <1>5, <1>6 DEF IndInv

LEMMA MemContinued ==
    ASSUME IndInv
    PROVE  Continued(mem, mem) /\ BrokerOK(mem) /\ FlightsOK(mem) /\ AccountOK /\ RequestsOK
BY DEF IndInv, Continued

LEMMA BeginKeeps ==
    ASSUME IndInv, NEW r \in Requests, Begin(r)
    PROVE  IndInv' /\ (req'[r].pc = "got" => LeaseCurrent(mem', req'[r].lease))
                   /\ \A q \in Requests \ {r} : req'[q] = req[q]
<1> DEFINE q == [NoRequest EXCEPT !.holds = TRUE, !.gets = 1]
<1>1. Get(r, q, mem, 0, FALSE) /\ UNCHANGED <<world, official>>
    BY DEF Begin
<1>2. RequestOK(q) /\ q.gets > 0
  <2>1. 0 \in 0 .. 2 /\ 1 \in 0 .. 2 /\ 0 \in 0 .. 1 /\ 1 > 0
      OBVIOUS
  <2>2. q \in RequestStates /\ q.gets = 1 /\ q.lease = None /\ q.pc = "new"
      BY <2>1 DEF NoRequest, RequestStates
  <2> QED BY <2>1, <2>2 DEF RequestOK, OfItsAccount
<1> HIDE DEF q
<1>3. 0 \in 0 .. 1
    OBVIOUS
<1>4. GetsOn(r, mem)
    BY <1>1, <1>2, <1>3, MemContinued, GetGetsOn
<1> QED BY <1>1, <1>4, MemContinued, GetsOnKeepsAll DEF GetsOn

LEMMA RejectedKeeps ==
    ASSUME IndInv, NEW r \in Requests, Rejected(r)
    PROVE  IndInv' /\ (req'[r].pc = "got" => LeaseCurrent(mem', req'[r].lease))
                   /\ \A q \in Requests \ {r} : req'[q] = req[q]
<1> DEFINE q == [req[r] EXCEPT !.gets = 2, !.refused = req[r].lease]
<1>1. Get(r, q, mem, 0, FALSE) /\ UNCHANGED <<world, official>>
    BY DEF Rejected
<1>2. RequestOK(q) /\ q.gets > 0
  <2>1. RequestOK(req[r]) /\ req[r] \in RequestStates
      BY DEF IndInv, RequestsOK, RequestOK
  <2>2. 2 \in 0 .. 2 /\ 2 > 0
      OBVIOUS
  <2>3. /\ q \in RequestStates /\ q.gets = 2 /\ q.lease = req[r].lease
        /\ q.pc = req[r].pc /\ q.flight = req[r].flight
      BY <2>1, <2>2 DEF RequestStates
  <2> HIDE DEF q
  <2> QED BY <2>1, <2>2, <2>3 DEF RequestOK
<1> HIDE DEF q
<1>3. 0 \in 0 .. 1
    OBVIOUS
<1>4. GetsOn(r, mem)
    BY <1>1, <1>2, <1>3, MemContinued, GetGetsOn
<1> QED BY <1>1, <1>4, MemContinued, GetsOnKeepsAll DEF GetsOn

LEMMA DeliveredContinues ==
    ASSUME IndInv, NEW r \in Requests, req[r].pc = "await"
    PROVE  Continued(mem, Delivered(r))
<1> DEFINE f == req[r].flight
<1>1. f \in Flights
    BY DEF IndInv, RequestsOK, RequestOK
<1>2. CASE Delivered(r) = mem
    BY <1>2, MemContinued
<1>3. CASE Delivered(r) = [mem EXCEPT !.flight[f] = NoFlight]
  <2>1. /\ NoFlight \in FlightStates /\ NoFlight.lease = None /\ NoFlight.key = None
        /\ NoFlight.acq = "none" /\ NoFlight.promise = "none"
      BY DEF NoFlight, FlightStates
  <2>2. /\ KeyOK(mem, NoFlight) /\ WorksOK(mem, NoFlight) /\ OfItsAccount(NoFlight.lease)
      BY <2>1 DEF KeyOK, WorksOK, UnderWay, Working, OfItsAccount
  <2>a. FitsIn(mem, f, NoFlight)
      BY <2>1, EndsInPlace DEF UnderWay, Working
  <2>3. BrokerOK(Delivered(r)) /\ FlightsOK(Delivered(r))
      BY <1>1, <1>3, <2>1, <2>2, <2>a, MemContinued, FlightSet
  <2>4. Delivered(r).sources = mem.sources
      BY <1>3, MemContinued DEF BrokerOK, Brokers
  <2> QED BY <2>3, <2>4 DEF Continued, Refreshing
<1> QED BY <1>2, <1>3 DEF Delivered

LEMMA ContinuedIsTransitive ==
    ASSUME NEW l, NEW m, NEW n, Continued(l, m), Continued(m, n)
    PROVE  Continued(l, n)
BY DEF Continued

\* A get that ends without a lease.
LEMMA OverGetsOn ==
    ASSUME NEW r \in Requests, RequestsOK, NEW m, BrokerOK(m), FlightsOK(m),
           mem' = m, req' = [req EXCEPT ![r] = Over]
    PROVE  GetsOn(r, m)
BY OverIsOK DEF RequestsOK, GetsOn, Continued

LEMMA ResumeKeeps ==
    ASSUME IndInv, NEW r \in Requests, Resume(r)
    PROVE  IndInv' /\ (req'[r].pc = "got" => LeaseCurrent(mem', req'[r].lease))
                   /\ \A q \in Requests \ {r} : req'[q] = req[q]
<1> DEFINE q == req[r]
           fl == mem.flight[q.flight]
           n == Delivered(r)
           c == Current(n)
           lost == fl.promise = "changed" \/ ~LeaseCurrent(c, fl.lease)
           m == IF fl.promise = "changed" THEN n ELSE c
           won == [kind |-> "lease", m |-> m, lease |-> fl.lease, force |-> q.force]
<1>1. /\ q.pc = "await" /\ UNCHANGED <<world, official>>
      /\ \/ fl.promise = "failed" /\ mem' = n /\ req' = [req EXCEPT ![r] = Over]
         \/ lost /\ q.attempt = 0 /\ Get(r, q, m, q.attempt + 1, FALSE)
         \/ lost /\ mem' = m /\ req' = [req EXCEPT ![r] = Over]
         \/ ~lost /\ q.attempt = 0 /\ Get(r, q, Drop(m), 1, TRUE)
         \/ ~lost /\ Await(r, q, q.attempt, won)
    BY DEF Resume, TriesAgain
<1>2. RequestOK(q) /\ q \in RequestStates /\ q.gets > 0 /\ q.flight \in Flights
    BY <1>1 DEF IndInv, RequestsOK, RequestOK
<1>3. Continued(mem, n)
    BY <1>1, DeliveredContinues
<1>4. BrokerOK(n) /\ FlightsOK(n)
    BY <1>3 DEF Continued
<1> HIDE DEF n
<1>5. Continued(mem, c)
  <2>1. BrokerOK(c) /\ Onward(n, c)
      BY <1>4, CurrentGoesOn
  <2> QED BY <1>3, <1>4, <2>1, OnwardContinues, ContinuedIsTransitive
<1> HIDE DEF c
<1>6. Continued(mem, m)
    BY <1>3, <1>5
<1>7. BrokerOK(m) /\ FlightsOK(m)
    BY <1>6 DEF Continued
<1>8. /\ fl.lease \in Leases \cup {None} /\ OfItsAccount(fl.lease)
      /\ q.force \in BOOLEAN /\ q.attempt \in 0 .. 1
  <2>1. mem.flight \in [Flights -> FlightStates]
      BY MemContinued DEF BrokerOK, Brokers
  <2>2. fl \in FlightStates
      BY <1>2, <2>1
  <2>3. fl.lease \in Leases \cup {None}
      BY <2>2 DEF FlightStates
  <2> QED BY <1>2, <2>3, MemContinued DEF BrokerOK, RequestStates
<1>9. ~lost => Attempted(m, won)
  <2> SUFFICES ASSUME ~lost PROVE Attempted(m, won)
      OBVIOUS
  <2>1. LeaseCurrent(m, fl.lease) /\ Continued(m, m)
      BY <1>7 DEF Continued
  <2>2. /\ won.kind = "lease" /\ won.m = m /\ won.lease = fl.lease
        /\ won.force = q.force
      OBVIOUS
  <2> HIDE DEF won, m, fl, q
  <2> QED BY <1>8, <2>1, <2>2 DEF Attempted
<1> HIDE DEF won, m, lost
<1>10. CASE fl.promise = "failed" /\ mem' = n /\ req' = [req EXCEPT ![r] = Over]
  <2>1. GetsOn(r, n)
      BY <1>4, <1>10, MemContinued, OverGetsOn
  <2> QED BY <1>1, <1>3, <2>1, GetsOnKeepsAll DEF GetsOn
<1>11. CASE mem' = m /\ req' = [req EXCEPT ![r] = Over]
  <2>1. GetsOn(r, m)
      BY <1>7, <1>11, MemContinued, OverGetsOn
  <2> QED BY <1>1, <1>6, <2>1, GetsOnKeepsAll DEF GetsOn
<1>12. CASE q.attempt = 0 /\ Get(r, q, m, q.attempt + 1, FALSE)
  <2>a. q.attempt + 1 = 1 /\ 1 \in 0 .. 1
      BY <1>12
  <2>1. Get(r, q, m, 1, FALSE)
      BY <1>12, <2>a, Zenon
  <2> HIDE DEF q
  <2>2. GetsOn(r, m)
      BY <1>2, <1>7, <2>a, <2>1, MemContinued, GetGetsOn
  <2> QED BY <1>1, <1>6, <2>2, GetsOnKeepsAll DEF GetsOn
<1>13. CASE Get(r, q, Drop(m), 1, TRUE)
  <2> DEFINE d == Drop(m)
  <2>1. BrokerOK(d) /\ Onward(m, d)
      BY <1>7, DropGoesOn
  <2>a. 1 \in 0 .. 1
      OBVIOUS
  <2>2. Get(r, q, d, 1, TRUE)
      BY <1>13, Zenon
  <2> HIDE DEF d, q
  <2>3. Continued(mem, d)
      BY <1>6, <1>7, <2>1, OnwardContinues, ContinuedIsTransitive
  <2>4. FlightsOK(d)
      BY <2>3 DEF Continued
  <2>5. GetsOn(r, d)
      BY <1>2, <2>a, <2>1, <2>2, <2>4, MemContinued, GetGetsOn
  <2> QED BY <1>1, <2>3, <2>5, GetsOnKeepsAll DEF GetsOn
<1>14. CASE ~lost /\ Await(r, q, q.attempt, won)
  <2> HIDE DEF q
  <2>1. GetsOn(r, m)
      BY <1>2, <1>8, <1>9, <1>14, MemContinued, AwaitGetsOn
  <2> QED BY <1>1, <1>6, <2>1, GetsOnKeepsAll DEF GetsOn
<1> QED BY <1>1, <1>10, <1>11, <1>12, <1>13, <1>14

LEMMA AnsweredKeeps ==
    ASSUME IndInv, NEW r \in Requests, Answered(r)
    PROVE  IndInv' /\ req'[r].pc = "over" /\ \A q \in Requests \ {r} : req'[q] = req[q]
<1>1. /\ req' = [req EXCEPT ![r] = Over] /\ mem' = mem
      /\ UNCHANGED <<world, official>>
    BY DEF Answered
<1>2. GetsOn(r, mem)
    BY <1>1, MemContinued, OverGetsOn
<1>3. req'[r].pc = "over"
    BY <1>1, OverIsOK DEF IndInv, RequestsOK
<1> QED BY <1>1, <1>2, <1>3, MemContinued, GetsOnKeepsAll DEF GetsOn

LEMMA AbortKeeps ==
    ASSUME IndInv, NEW r \in Requests, Abort(r)
    PROVE  IndInv' /\ req'[r].pc = "await" /\ \A q \in Requests \ {r} : req'[q] = req[q]
<1> DEFINE n == [req[r] EXCEPT !.holds = FALSE]
<1>1. /\ req' = [req EXCEPT ![r] = n] /\ mem' = mem /\ req[r].pc = "await"
      /\ UNCHANGED <<world, official>>
    BY DEF Abort, IndInv, RequestsOK
<1>2. RequestOK(req[r]) /\ req[r] \in RequestStates
    BY DEF IndInv, RequestsOK, RequestOK
<1>3. /\ n \in RequestStates /\ n.pc = "await" /\ n.lease = req[r].lease
      /\ n.gets = req[r].gets /\ n.flight = req[r].flight
    BY <1>1, <1>2 DEF RequestStates
<1> HIDE DEF n
<1>4. RequestOK(n)
    BY <1>1, <1>2, <1>3 DEF RequestOK
<1>5. GetsOn(r, mem) /\ req'[r].pc = "await"
    BY <1>1, <1>3, <1>4, MemContinued DEF GetsOn, IndInv, RequestsOK
<1> QED BY <1>1, <1>5, MemContinued, GetsOnKeepsAll DEF GetsOn

-----------------------------------------------------------------------------
(* Flights.                                                                 *)

LEMMA BrokerKeepsAll ==
    ASSUME IndInv, Continued(mem, mem'), UNCHANGED <<world, official, req>>
    PROVE  IndInv'
<1>1. /\ BrokerOK(mem') /\ FlightsOK(mem')
      /\ DOMAIN mem.sources \subseteq DOMAIN mem'.sources
      /\ Refreshing(mem') = Refreshing(mem)
    BY DEF Continued
<1>2. AccountOK'
    BY DEF IndInv, AccountOK, world
<1>3. OfficialOK'
    BY <1>1 DEF IndInv, OfficialOK, Refreshing, world, official
<1>4. RequestsOK'
    BY DEF IndInv, RequestsOK
<1>5. BrokerOK(mem)'
    BY <1>1 DEF BrokerOK, world
<1>6. FlightsOK(mem)'
    BY <1>1, WaitFollows DEF FlightsOK, WorksOK, world
<1> QED BY <1>2, <1>3, <1>4, <1>5, <1>6 DEF IndInv

\* A flight that ends leaves the others as they are.
LEMMA FailContinues ==
    ASSUME NEW m, BrokerOK(m), WaitOK(m), NEW f \in Flights,
           \A g \in Flights \ {f} : WorksOK(m, m.flight[g]),
           NEW outcome \in {"changed", "failed", "done"}
    PROVE  Continued(m, Fail(m, f, outcome))
<1> DEFINE set == Settle(m.flight, f, outcome)
           p == [m EXCEPT !.flight = set]
           fl == Ended(p, f)
           i == IF p.inflight = f THEN None ELSE p.inflight
           n == [p EXCEPT !.flight[f] = fl, !.inflight = i]
<1>1. Fail(m, f, outcome) = n
    BY DEF Fail, End
<1>2. m \in Brokers /\ m.flight \in [Flights -> FlightStates]
    BY DEF BrokerOK, Brokers
<1>3. /\ set \in [Flights -> FlightStates]
      /\ \A g \in Flights :
           /\ set[g].acq = m.flight[g].acq /\ set[g].key = m.flight[g].key
           /\ set[g].bearer = m.flight[g].bearer /\ set[g].lease = m.flight[g].lease
           /\ set[g].promise = "pending" => m.flight[g].promise = "pending" /\ g # f
    BY <1>2, SettleKeeps
<1> HIDE DEF set
<1>4. /\ p \in Brokers /\ p.flight = set /\ p.inflight \in Flights \cup {None}
    BY <1>2, <1>3 DEF Brokers
<1>5. /\ fl \in FlightStates /\ fl.acq \notin UnderWay
      /\ OfItsAccount(fl.lease) /\ fl.promise # "pending"
  <2>1. /\ NoFlight \in FlightStates /\ NoFlight.lease = None /\ NoFlight.acq = "none"
        /\ NoFlight.promise = "none"
      BY DEF NoFlight, FlightStates
  <2>2. CASE fl = NoFlight
      BY <2>1, <2>2 DEF OfItsAccount, UnderWay, Working
  <2>3. CASE fl = [NoFlight EXCEPT !.acq = "over", !.promise = p.flight[f].promise,
                                   !.lease = p.flight[f].lease]
    <3>1. /\ p.flight[f].promise \in {"none", "pending", "changed", "failed", "done"}
          /\ p.flight[f].lease \in Leases \cup {None}
        BY <1>3, <1>4 DEF FlightStates
    <3>2. /\ fl \in FlightStates /\ fl.acq = "over" /\ fl.lease = p.flight[f].lease
          /\ fl.promise = p.flight[f].promise
        BY <2>1, <2>3, <3>1 DEF FlightStates
    <3>3. OfItsAccount(p.flight[f].lease)
        BY <1>3, <1>4 DEF BrokerOK
    <3>4. p.flight[f].promise # "pending"
        BY <1>3, <1>4
    <3> QED BY <3>2, <3>3, <3>4 DEF UnderWay, Working
  <2> QED BY <2>2, <2>3 DEF Ended
<1>6. i \in Flights \cup {None}
    BY <1>4
<1> DEFINE u == [m EXCEPT !.flight = set, !.inflight = i]
<1>7. n = [u EXCEPT !.flight[f] = fl]
    BY <1>2, <1>3 DEF Brokers
<1> HIDE DEF fl, i, p
<1>8. /\ u \in Brokers /\ u.value = m.value /\ u.cache = m.cache /\ u.paused = m.paused
      /\ u.selected = m.selected /\ u.revision = m.revision /\ u.closed = m.closed
      /\ u.sources = m.sources /\ u.flight = set /\ u.inflight = i
    BY <1>2, <1>3, <1>6 DEF Brokers
<1> HIDE DEF u, n
<1>9. BrokerOK(u)
    BY <1>3, <1>8 DEF BrokerOK, ValueOK, KeyOK
<1>10. KeyOK(u, fl) /\ WorksOK(u, fl)
    BY <1>5 DEF KeyOK, WorksOK, UnderWay
<1>11. BrokerOK(n)
    BY <1>5, <1>7, <1>9, <1>10, FlightSet
<1>12. n.flight = [set EXCEPT ![f] = fl] /\ n.cache = m.cache /\ n.sources = m.sources
      /\ n.revision = m.revision /\ n.selected = m.selected /\ n.inflight = i
    BY <1>7, <1>8 DEF Brokers
<1>13. FlightsOK(n)
  <2>1. WorksOK(n, n.flight[f])
      BY <1>3, <1>5, <1>12 DEF WorksOK, UnderWay
  <2>2. ASSUME NEW g \in Flights \ {f} PROVE WorksOK(n, n.flight[g])
    <3>1. WorksOK(m, m.flight[g])
        OBVIOUS
    <3> QED BY <1>3, <1>12, <3>1 DEF WorksOK
  <2>3. Apart(n)
      BY <1>3, <1>5, <1>12 DEF WaitOK, Apart
  <2>4. ASSUME NEW g \in Flights PROVE WaitsOK(n, g, n.flight[g])
    <3>1. CASE g = f
        BY <1>3, <1>5, <1>12, <3>1 DEF WaitsOK, UnderWay, Working
    <3>2. CASE g # f
      <4>1. WaitsOK(m, g, m.flight[g])
          BY DEF WaitOK
      <4>2. g # i => g # m.inflight
          BY <1>4, <3>2 DEF i, p
      <4> QED BY <1>3, <1>12, <3>2, <4>1, <4>2 DEF WaitsOK, Now, Refreshing
    <3> QED BY <3>1, <3>2
  <2> QED BY <2>1, <2>2, <2>3, <2>4 DEF FlightsOK, WaitOK
<1> QED BY <1>1, <1>11, <1>12, <1>13 DEF Continued, Refreshing

LEMMA GuardedGoesOn ==
    ASSUME NEW m, BrokerOK(m), FlightsOK(m), NEW f, NEW g, g = Guarded(m, f)
    PROVE  /\ BrokerOK(g.m) /\ FlightsOK(g.m) /\ Onward(m, g.m)
           /\ g.ok => Matches(g.m, m.flight[f].key)
<1> DEFINE c == IF m.closed THEN m ELSE Current(m)
<1>1. g.m = c /\ g.ok = Matches(c, m.flight[f].key)
    BY DEF Guarded
<1>2. BrokerOK(c) /\ Onward(m, c)
    BY CurrentGoesOn, OnwardIsReflexive
<1> HIDE DEF c
<1>3. FlightsOK(c)
    BY <1>2, OnwardKeepsFlights
<1> QED BY <1>1, <1>2, <1>3

LEMMA BrokenKeeps ==
    ASSUME IndInv, NEW f \in Flights, Broken(f)
    PROVE  IndInv' /\ req' = req
<1> DEFINE g == Guarded(mem, f)
           o == IF g.ok THEN "failed" ELSE "changed"
<1>1. mem' = Fail(g.m, f, o) /\ UNCHANGED <<world, official, req>>
    BY DEF Broken
<1>2. o \in {"changed", "failed", "done"}
    OBVIOUS
<1>3. BrokerOK(g.m) /\ FlightsOK(g.m) /\ Onward(mem, g.m)
    BY MemContinued, GuardedGoesOn
<1> HIDE DEF g, o
<1>4. Continued(g.m, mem')
    BY <1>1, <1>2, <1>3, FailContinues DEF FlightsOK
<1>5. Continued(mem, g.m)
    BY <1>3, MemContinued, OnwardContinues
<1> QED BY <1>1, <1>4, <1>5, ContinuedIsTransitive, BrokerKeepsAll

\* What a flight stores under its key is of its own account and revision.
LEMMA StoreKeeps ==
    ASSUME IndInv, NEW f \in Flights, Store(f)
    PROVE  IndInv' /\ req' = req
<1> DEFINE fl == mem.flight[f]
           g == Guarded(mem, f)
           b == g.m
           lease == [bearer |-> fl.bearer, generation |-> fl.key.generation,
                     source |-> fl.key.source, revision |-> fl.key.revision,
                     cache |-> fl.key.cache, forced |-> fl.force]
           stored == [b EXCEPT !.value = lease, !.flight[f].lease = lease]
<1>1. /\ fl.acq = "answer" /\ UNCHANGED <<world, official, req>>
      /\ \/ mem' = Fail(b, f, "changed")
         \/ mem' = Fail(b, f, "failed")
         \/ mem' = [b EXCEPT !.flight[f].acq = "reading", !.flight[f].again = TRUE]
         \/ g.ok /\ mem' = Fail(stored, f, "done")
    BY DEF Store
<1>2. /\ BrokerOK(b) /\ FlightsOK(b) /\ Onward(mem, b)
      /\ g.ok => Matches(b, fl.key)
    BY MemContinued, GuardedGoesOn
<1>3. Continued(mem, b)
    BY <1>2, MemContinued, OnwardContinues
<1>4. fl \in FlightStates /\ b \in Brokers /\ b.flight \in [Flights -> FlightStates]
    BY <1>2, MemContinued DEF BrokerOK, Brokers
<1>5. /\ b.flight[f].acq = "answer" /\ b.flight[f].key = fl.key
      /\ b.flight[f].bearer = fl.bearer
    BY <1>1, <1>2 DEF Onward
<1>6. /\ KeyOK(b, b.flight[f]) /\ WorksOK(b, b.flight[f])
      /\ OfItsAccount(b.flight[f].lease) /\ b.flight[f] \in FlightStates
    BY <1>2, <1>4 DEF BrokerOK, FlightsOK
<1> HIDE DEF b, fl
<1>7. CASE mem' = Fail(b, f, "changed") \/ mem' = Fail(b, f, "failed")
  <2>1. Continued(b, mem')
      BY <1>2, <1>7, FailContinues DEF FlightsOK
  <2> QED BY <1>1, <1>3, <2>1, ContinuedIsTransitive, BrokerKeepsAll
<1>8. CASE mem' = [b EXCEPT !.flight[f].acq = "reading", !.flight[f].again = TRUE]
  <2> DEFINE r == [b.flight[f] EXCEPT !.acq = "reading", !.again = TRUE]
  <2>1. mem' = [b EXCEPT !.flight[f] = r]
      BY <1>4, <1>8 DEF Brokers
  <2>2. /\ r \in FlightStates /\ r.acq = "reading" /\ r.key = b.flight[f].key
        /\ r.lease = b.flight[f].lease
      BY <1>6 DEF FlightStates
  <2> HIDE DEF r
  <2>3. KeyOK(b, r) /\ WorksOK(b, r) /\ OfItsAccount(r.lease)
      BY <1>5, <1>6, <2>2 DEF KeyOK, WorksOK, UnderWay, Working
  <2>a. FitsIn(b, f, r)
      BY <1>2, <1>5, <2>2, GoesOnInPlace DEF UnderWay, Working
  <2>4. BrokerOK(mem') /\ FlightsOK(mem')
      BY <1>2, <2>1, <2>2, <2>3, <2>a, FlightSet
  <2>5. mem'.sources = b.sources
      BY <1>4, <2>1 DEF Brokers
  <2>6. Continued(mem, mem')
      BY <1>3, <2>4, <2>5 DEF Continued, Refreshing
  <2> QED BY <1>1, <2>6, BrokerKeepsAll
<1>9. CASE g.ok /\ mem' = Fail(stored, f, "done")
  <2>1. ~b.closed /\ fl.key = Key(b)
      BY <1>2, <1>9 DEF Matches
  <2>2. /\ fl.key.generation = generation /\ fl.key.source = b.selected
        /\ fl.key.revision = b.revision /\ fl.key.cache = b.cache
      BY <2>1 DEF Key
  <2>3. fl.bearer \in Logins /\ fl.bearer[1] = generation /\ fl.key.source \in DOMAIN b.sources
      BY <1>5, <1>6, <2>2 DEF WorksOK, Working
  <2>4. /\ lease \in Leases /\ lease.bearer = fl.bearer /\ lease.generation = generation
        /\ lease.source = b.selected /\ lease.revision = b.revision
        /\ lease.cache = b.cache
    <3>1. fl.key \in Keys /\ fl.force \in BOOLEAN
        BY <1>4, <1>5, <1>6 DEF KeyOK, UnderWay, Working, FlightStates
    <3>2. b.sources \in Seq(Sources)
        BY <1>4 DEF Brokers
    <3>3. DOMAIN b.sources \subseteq Nat
        BY <3>2
    <3>4. fl.key.source \in Nat
        BY <2>3, <3>3
    <3> QED BY <2>2, <2>3, <3>1, <3>4 DEF Leases, Keys
  <2> HIDE DEF lease
  <2>5. OfItsAccount(lease)
      BY <2>3, <2>4 DEF OfItsAccount
  <2> DEFINE u == [b EXCEPT !.value = lease]
             w == [b.flight[f] EXCEPT !.lease = lease]
  <2>6. /\ u \in Brokers /\ u.value = lease /\ u.cache = b.cache /\ u.paused = b.paused
        /\ u.selected = b.selected /\ u.revision = b.revision /\ u.closed = b.closed
        /\ u.sources = b.sources /\ u.flight = b.flight
        /\ u.inflight = b.inflight
      BY <1>4, <2>4 DEF Brokers
  <2>7. stored = [u EXCEPT !.flight[f] = w]
      BY <1>4 DEF Brokers
  <2>8. /\ w \in FlightStates /\ w.acq = b.flight[f].acq /\ w.key = b.flight[f].key
        /\ w.lease = lease /\ w.bearer = b.flight[f].bearer
      BY <1>6, <2>4 DEF FlightStates
  <2> HIDE DEF u, w, stored
  <2>9. BrokerOK(u) /\ FlightsOK(u)
    <3>1. BrokerOK(u) /\ \A h \in Flights : WorksOK(u, u.flight[h])
        BY <1>2, <2>1, <2>4, <2>5, <2>6 DEF BrokerOK, ValueOK, KeyOK, FlightsOK, WorksOK
    <3>2. WaitOK(u)
        BY <1>2, <2>6 DEF FlightsOK, WaitOK, Apart, WaitsOK, Now, Refreshing
    <3> QED BY <3>1, <3>2 DEF FlightsOK
  <2>10. KeyOK(u, w) /\ WorksOK(u, w) /\ OfItsAccount(w.lease)
      BY <1>6, <2>5, <2>6, <2>8 DEF KeyOK, WorksOK
  <2>a. FitsIn(u, f, w)
      BY <1>5, <2>6, <2>8, <2>9, GoesOnInPlace DEF UnderWay, Working
  <2>11. BrokerOK(stored) /\ FlightsOK(stored)
      BY <2>7, <2>8, <2>9, <2>10, <2>a, FlightSet
  <2>12. stored.sources = b.sources
      BY <2>6, <2>7 DEF Brokers
  <2>13. Continued(stored, mem')
      BY <1>9, <2>11, FailContinues DEF FlightsOK
  <2>14. Continued(mem, mem')
      BY <1>3, <2>12, <2>13 DEF Continued, Refreshing
  <2> QED BY <1>1, <2>14, BrokerKeepsAll
<1> QED BY <1>1, <1>7, <1>8, <1>9

LEMMA AccountOnDisk ==
    ASSUME AccountOK
    PROVE  diskAccount \in Generations
<1>1. CASE switch = "moved"
  <2>1. /\ generation \in 0 .. MaxSwitches /\ switches \in 0 .. MaxSwitches
        /\ generation < switches /\ diskAccount = generation + 1 /\ MaxSwitches \in Nat
      BY <1>1, BrokerAssumption DEF AccountOK, Generations
  <2> QED BY <2>1 DEF Generations
<1>2. CASE switch # "moved"
    BY <1>2 DEF AccountOK
<1> QED BY <1>1, <1>2

\* One source is changed: what its flights wait for is still to come as long as
\* it is not done refreshing.
SourceIsSet(m, s, src, n) ==
    /\ BrokerOK(n) /\ \A f \in Flights : WorksOK(n, n.flight[f])
    /\ (m.sources[s].refreshing => src.refreshing) => FlightsOK(n)
    /\ DOMAIN n.sources = DOMAIN m.sources
    /\ Refreshing(n) = IF src.refreshing THEN Refreshing(m) \cup {s}
                       ELSE Refreshing(m) \ {s}
    /\ n.flight = m.flight /\ n.cache = m.cache /\ n.revision = m.revision
    /\ n.selected = m.selected /\ n.inflight = m.inflight

LEMMA SourceSet ==
    ASSUME NEW m, BrokerOK(m), FlightsOK(m), NEW s \in DOMAIN m.sources,
           NEW src \in Sources
    PROVE  SourceIsSet(m, s, src, [m EXCEPT !.sources[s] = src])
<1> DEFINE n == [m EXCEPT !.sources[s] = src]
           t == [m.sources EXCEPT ![s] = src]
<1>1. m \in Brokers /\ m.sources \in Seq(Sources)
    BY DEF BrokerOK, Brokers
<1>2. t \in Seq(Sources) /\ DOMAIN t = DOMAIN m.sources
    BY <1>1
<1>3. n = [m EXCEPT !.sources = t]
    BY <1>1 DEF Brokers
<1>a. /\ t[s] = src
      /\ \A i \in DOMAIN m.sources \ {s} : t[i] = m.sources[i]
    OBVIOUS
<1> HIDE DEF t, n
<1>4. /\ n \in Brokers /\ n.value = m.value /\ n.cache = m.cache /\ n.paused = m.paused
      /\ n.selected = m.selected /\ n.revision = m.revision /\ n.closed = m.closed
      /\ n.sources = t /\ n.flight = m.flight /\ n.inflight = m.inflight
    BY <1>1, <1>2, <1>3 DEF Brokers
<1>5. BrokerOK(n) /\ \A f \in Flights : WorksOK(n, n.flight[f])
    BY <1>2, <1>4 DEF BrokerOK, ValueOK, KeyOK, FlightsOK, WorksOK
<1>6. src.refreshing \in BOOLEAN
    BY DEF Sources
<1>7. Refreshing(n) = IF src.refreshing THEN Refreshing(m) \cup {s} ELSE Refreshing(m) \ {s}
    BY <1>2, <1>4, <1>6, <1>a DEF Refreshing
<1>8. (m.sources[s].refreshing => src.refreshing) => FlightsOK(n)
  <2> SUFFICES ASSUME m.sources[s].refreshing => src.refreshing PROVE FlightsOK(n)
      OBVIOUS
  <2>1. Refreshing(m) \subseteq Refreshing(n)
      BY <1>7 DEF Refreshing
  <2>2. WaitOK(n)
      BY <1>4, <2>1 DEF FlightsOK, WaitOK, Apart, WaitsOK, Now
  <2> QED BY <1>5, <2>2 DEF FlightsOK
<1> QED BY <1>2, <1>4, <1>5, <1>7, <1>8 DEF n, SourceIsSet

LEMMA SourceIsTyped ==
    ASSUME NEW m, BrokerOK(m), NEW s \in DOMAIN m.sources
    PROVE  m.sources[s] \in Sources
<1>1. m.sources \in Seq(Sources)
    BY DEF BrokerOK, Brokers
<1> QED BY <1>1

\* What holds of the broker, with the queue or the source's answers changed.
LEMMA OfficialKeepsAll ==
    ASSUME IndInv, BrokerOK(mem'), FlightsOK(mem'), OfficialOK', UNCHANGED <<world, req>>
    PROVE  IndInv'
<1>1. BrokerOK(mem') /\ FlightsOK(mem')
    OBVIOUS
<1>2. AccountOK'
    BY DEF IndInv, AccountOK, world
<1>3. RequestsOK'
    BY DEF IndInv, RequestsOK
<1>4. BrokerOK(mem)'
    BY <1>1 DEF BrokerOK, world
<1>5. FlightsOK(mem)'
    BY <1>1, WaitFollows DEF FlightsOK, WorksOK, world
<1> QED BY <1>2, <1>3, <1>4, <1>5 DEF IndInv

\* A queue in which each source waits once.
Queued(q, refreshing) ==
    /\ q \in Seq(Nat)
    /\ \A i, j \in DOMAIN q : q[i] = q[j] => i = j
    /\ {q[i] : i \in DOMAIN q} = refreshing

LEMMA QueueAppend ==
    ASSUME NEW q, NEW refreshing, Queued(q, refreshing), NEW s \in Nat, s \notin refreshing
    PROVE  Queued(Append(q, s), refreshing \cup {s}) /\ Append(q, s) # <<>>
<1> DEFINE a == Append(q, s)
<1>1. q \in Seq(Nat) /\ Len(q) \in Nat /\ DOMAIN q = 1 .. Len(q)
    BY DEF Queued
<1>2. /\ a \in Seq(Nat) /\ a # <<>> /\ DOMAIN a = 1 .. Len(q) + 1
      /\ a[Len(q) + 1] = s /\ \A i \in DOMAIN q : a[i] = q[i]
    BY <1>1
<1>3. \A i \in DOMAIN a : i \in DOMAIN q \/ i = Len(q) + 1
    BY <1>1, <1>2
<1>4. \A i \in DOMAIN q : q[i] \in refreshing /\ i \in DOMAIN a
    BY <1>1, <1>2 DEF Queued
<1>5. Len(q) + 1 \in DOMAIN a
    BY <1>1, <1>2
<1> HIDE DEF a
<1>6. \A i, j \in DOMAIN a : a[i] = a[j] => i = j
    BY <1>2, <1>3, <1>4 DEF Queued
<1>7. {a[i] : i \in DOMAIN a} = refreshing \cup {s}
  <2>1. ASSUME NEW x \in refreshing PROVE \E i \in DOMAIN a : x = a[i]
      BY <1>2, <1>4 DEF Queued
  <2>2. ASSUME NEW i \in DOMAIN a PROVE a[i] \in refreshing \cup {s}
      BY <1>2, <1>3, <1>4
  <2> QED BY <1>2, <1>5, <2>1, <2>2
<1> QED BY <1>2, <1>6, <1>7 DEF Queued, a

LEMMA QueueTail ==
    ASSUME NEW q, NEW refreshing, Queued(q, refreshing), q # <<>>
    PROVE  Queued(Tail(q), refreshing \ {Head(q)}) /\ Head(q) \in refreshing
<1> DEFINE t == Tail(q)
<1>1. q \in Seq(Nat) /\ Len(q) \in Nat /\ DOMAIN q = 1 .. Len(q) /\ Len(q) > 0
    BY DEF Queued
<1>2. /\ t \in Seq(Nat) /\ DOMAIN t = 1 .. Len(q) - 1 /\ Head(q) = q[1]
      /\ \A i \in DOMAIN t : t[i] = q[i + 1]
    BY <1>1
<1>3. \A i \in DOMAIN t : i + 1 \in DOMAIN q /\ i + 1 # 1 /\ i \in Nat
    BY <1>1, <1>2
<1>4. 1 \in DOMAIN q /\ \A i \in DOMAIN q : i = 1 \/ (i - 1 \in DOMAIN t /\ (i - 1) + 1 = i)
    BY <1>1, <1>2
<1> HIDE DEF t
<1>5. \A i, j \in DOMAIN t : t[i] = t[j] => i = j
  <2> SUFFICES ASSUME NEW i \in DOMAIN t, NEW j \in DOMAIN t, t[i] = t[j] PROVE i = j
      OBVIOUS
  <2>1. i + 1 = j + 1
      BY <1>2, <1>3 DEF Queued
  <2> QED BY <1>3, <2>1
<1>6. {t[i] : i \in DOMAIN t} = refreshing \ {q[1]}
  <2>1. ASSUME NEW i \in DOMAIN t PROVE t[i] \in refreshing \ {q[1]}
      BY <1>2, <1>3, <1>4 DEF Queued
  <2>2. ASSUME NEW x \in refreshing \ {q[1]} PROVE \E i \in DOMAIN t : x = t[i]
    <3>1. PICK k \in DOMAIN q : x = q[k]
        BY DEF Queued
    <3>2. k - 1 \in DOMAIN t /\ t[k - 1] = q[k]
        BY <1>2, <1>4, <3>1
    <3> QED BY <3>1, <3>2
  <2> QED BY <2>1, <2>2
<1>7. q[1] \in refreshing
    BY <1>4 DEF Queued
<1> QED BY <1>2, <1>5, <1>6, <1>7 DEF Queued, t

\* What becomes of the queue.
LEMMA QueueIsOK ==
    ASSUME Queued(queue', Refreshing(mem')),
           child' # None => /\ child' \in Logins /\ child'[1] = generation'
                            /\ queue' # <<>> /\ switch' \notin {"moved", "restart"}
    PROVE  OfficialOK'
<1>1. \A i \in DOMAIN queue' : queue'[i] \in Refreshing(mem')
    BY DEF Queued
<1> QED BY <1>1 DEF OfficialOK, Queued, Refreshing

\* The login on disk is the account's while a flight of this revision reads it.
LEMMA ReadKeeps ==
    ASSUME IndInv, NEW f \in Flights, Read(f)
    PROVE  IndInv' /\ req' = req
<1> DEFINE fl == mem.flight[f]
           s == fl.key.source
           ans == [fl EXCEPT !.acq = "answer", !.bearer = DiskBearer]
           brk == [fl EXCEPT !.acq = "broken"]
           wts == [fl EXCEPT !.acq = "refresh"]
           srv == [mem.sources[s] EXCEPT !.served = DiskBearer]
           rfr == [mem.sources[s] EXCEPT !.refreshing = TRUE]
<1>1. /\ BrokerOK(mem) /\ FlightsOK(mem) /\ AccountOK /\ OfficialOK
      /\ mem \in Brokers /\ mem.flight \in [Flights -> FlightStates]
    BY DEF IndInv, BrokerOK, Brokers
<1>2. fl.acq = "reading"
    BY DEF Read
<1>3. /\ fl \in FlightStates /\ WorksOK(mem, fl) /\ KeyOK(mem, fl) /\ OfItsAccount(fl.lease)
    BY <1>1 DEF BrokerOK, FlightsOK
<1>4. s \in DOMAIN mem.sources
    BY <1>2, <1>3 DEF WorksOK, Working
<1>5. mem.sources[s] \in Sources
    BY <1>1, <1>4, SourceIsTyped
<1>6. DiskBearer \in Logins
    BY <1>1, AccountOnDisk DEF AccountOK, DiskBearer
<1>7. CASE Served(f, DiskBearer) /\ UNCHANGED <<world, official, req>>
  <2> DEFINE u == [mem EXCEPT !.sources[s] = srv]
  <2>1. mem' = [u EXCEPT !.flight[f] = ans]
      BY <1>1, <1>7 DEF Served, Brokers
  <2>2. srv \in Sources /\ srv.refreshing = mem.sources[s].refreshing
      BY <1>5, <1>6 DEF Sources
  <2>3. /\ ans \in FlightStates /\ ans.acq = "answer" /\ ans.bearer = DiskBearer
        /\ ans.key = fl.key /\ ans.lease = fl.lease
      BY <1>3, <1>6 DEF FlightStates
  <2> HIDE DEF srv
  <2>4. /\ BrokerOK(u) /\ FlightsOK(u) /\ DOMAIN u.sources = DOMAIN mem.sources
        /\ u.cache = mem.cache /\ u.flight = mem.flight /\ Refreshing(u) = Refreshing(mem)
    <3>1. SourceIsSet(mem, s, srv, u)
        BY <1>1, <1>4, <2>2, SourceSet
    <3>2. srv.refreshing <=> s \in Refreshing(mem)
        BY <1>4, <2>2 DEF Refreshing
    <3> HIDE DEF u
    <3> QED BY <2>2, <3>1, <3>2 DEF SourceIsSet
  <2> HIDE DEF u, ans
  <2>5. KeyOK(u, ans) /\ WorksOK(u, ans) /\ OfItsAccount(ans.lease)
    <3>1. fl.key.cache = mem.cache => DiskBearer[1] = generation
        BY <1>1, <1>2, <1>3 DEF WorksOK, Working, AccountOK, DiskBearer
    <3> HIDE DEF fl
    <3> QED BY <1>2, <1>3, <1>6, <2>3, <2>4, <3>1 DEF KeyOK, WorksOK, UnderWay, Working
  <2>a. FitsIn(u, f, ans)
      BY <1>2, <2>3, <2>4, GoesOnInPlace DEF UnderWay, Working
  <2>6. BrokerOK(mem') /\ FlightsOK(mem')
      BY <2>1, <2>3, <2>4, <2>5, <2>a, FlightSet
  <2>7. mem'.sources = u.sources
      BY <2>1, <2>4 DEF BrokerOK, Brokers
  <2> QED BY <1>7, <2>4, <2>6, <2>7, BrokerKeepsAll DEF Continued, Refreshing
<1>8. CASE /\ mem' = [mem EXCEPT !.flight[f].acq = "broken"]
           /\ UNCHANGED <<world, official, req>>
  <2>1. mem' = [mem EXCEPT !.flight[f] = brk]
      BY <1>1, <1>8 DEF Brokers
  <2>2. brk \in FlightStates /\ brk.acq = "broken" /\ brk.key = fl.key /\ brk.lease = fl.lease
      BY <1>3 DEF FlightStates
  <2>a. FitsIn(mem, f, brk)
      BY <1>1, <1>2, <2>2, GoesOnInPlace DEF UnderWay, Working
  <2> HIDE DEF brk, fl
  <2>3. KeyOK(mem, brk) /\ WorksOK(mem, brk) /\ OfItsAccount(brk.lease)
      BY <1>2, <1>3, <2>2 DEF KeyOK, WorksOK, UnderWay, Working
  <2>4. BrokerOK(mem') /\ FlightsOK(mem')
      BY <1>1, <2>1, <2>2, <2>3, <2>a, FlightSet
  <2>5. mem'.sources = mem.sources
      BY <1>1, <2>1 DEF Brokers
  <2> QED BY <1>8, <2>4, <2>5, BrokerKeepsAll DEF Continued, Refreshing
<1> DEFINE w == [mem EXCEPT !.flight[f].acq = "refresh"]
<1>9. /\ w = [mem EXCEPT !.flight[f] = wts] /\ wts \in FlightStates
      /\ wts.acq = "refresh" /\ wts.key = fl.key /\ wts.lease = fl.lease
    BY <1>1, <1>3 DEF Brokers, FlightStates
<1>10. CASE mem' = w /\ mem.sources[s].refreshing /\ UNCHANGED <<world, official, req>>
  <2>1. FitsIn(mem, f, wts)
      BY <1>1, <1>2, <1>4, <1>9, <1>10, GoesOnInPlace DEF UnderWay, Working, Refreshing
  <2> HIDE DEF wts, fl
  <2>2. KeyOK(mem, wts) /\ WorksOK(mem, wts) /\ OfItsAccount(wts.lease)
      BY <1>2, <1>3, <1>9 DEF KeyOK, WorksOK, UnderWay, Working
  <2>3. /\ BrokerOK(mem') /\ FlightsOK(mem') /\ mem'.sources = mem.sources
      BY <1>1, <1>9, <1>10, <2>1, <2>2, FlightSet
  <2> QED BY <1>10, <2>3, BrokerKeepsAll DEF Continued, Refreshing
<1>11. CASE /\ mem' = [w EXCEPT !.sources[s].refreshing = TRUE]
            /\ ~mem.sources[s].refreshing /\ queue' = Append(queue, s)
            /\ UNCHANGED <<world, child, req>>
  <2> DEFINE v == [mem EXCEPT !.sources[s] = rfr]
  <2>1. rfr \in Sources /\ rfr.refreshing
      BY <1>5 DEF Sources
  <2>2. mem' = [v EXCEPT !.flight[f] = wts]
      BY <1>1, <1>11 DEF Brokers
  <2>3. SourceIsSet(mem, s, rfr, v)
    <3> HIDE DEF rfr
    <3> QED BY <1>1, <1>4, <2>1, SourceSet
  <2> HIDE DEF rfr, w, v
  <2>4. /\ BrokerOK(v) /\ FlightsOK(v) /\ DOMAIN v.sources = DOMAIN mem.sources
        /\ v.cache = mem.cache /\ v.flight = mem.flight
        /\ Refreshing(v) = Refreshing(mem) \cup {s}
      BY <2>1, <2>3 DEF SourceIsSet
  <2>5. FitsIn(v, f, wts)
      BY <1>2, <1>9, <2>4, GoesOnInPlace DEF UnderWay, Working
  <2> HIDE DEF wts, fl
  <2>6. KeyOK(v, wts) /\ WorksOK(v, wts) /\ OfItsAccount(wts.lease)
      BY <1>2, <1>3, <1>9, <2>4 DEF KeyOK, WorksOK, UnderWay, Working
  <2>7. BrokerOK(mem') /\ FlightsOK(mem') /\ mem'.sources = v.sources
      BY <1>9, <2>2, <2>4, <2>5, <2>6, FlightSet
  <2>8. s \in Nat
    <3>1. mem.sources \in Seq(Sources)
        BY <1>1 DEF Brokers
    <3> HIDE DEF s
    <3> QED BY <1>4, <3>1
  <2>9. s \notin Refreshing(mem)
      BY <1>11 DEF Refreshing
  <2>10. Queued(queue, Refreshing(mem))
      BY <1>1 DEF OfficialOK, Queued
  <2> HIDE DEF s
  <2>11. Queued(queue', Refreshing(mem) \cup {s}) /\ queue' # <<>>
      BY <1>11, <2>8, <2>9, <2>10, QueueAppend
  <2>12. Queued(queue', Refreshing(mem')) /\ Refreshing(mem') \subseteq DOMAIN mem'.sources
      BY <2>4, <2>7, <2>11 DEF Refreshing
  <2>13. OfficialOK'
      BY <1>1, <1>11, <2>11, <2>12, QueueIsOK DEF OfficialOK, world
  <2> QED BY <1>11, <2>7, <2>13, OfficialKeepsAll
<1>12. \/ Served(f, DiskBearer) /\ UNCHANGED <<world, official, req>>
       \/ /\ mem' = [mem EXCEPT !.flight[f].acq = "broken"]
          /\ UNCHANGED <<world, official, req>>
       \/ mem' = w /\ mem.sources[s].refreshing /\ UNCHANGED <<world, official, req>>
       \/ /\ mem' = [w EXCEPT !.sources[s].refreshing = TRUE]
          /\ ~mem.sources[s].refreshing /\ queue' = Append(queue, s)
          /\ UNCHANGED <<world, child, req>>
  <2>1. UNCHANGED <<world, child, req>>
      BY DEF Read
  <2>2. CASE Served(f, DiskBearer) /\ UNCHANGED <<queue, spent>>
      BY <2>1, <2>2 DEF official
  <2>3. CASE mem' = [mem EXCEPT !.flight[f].acq = "broken"] /\ UNCHANGED <<queue, spent>>
      BY <2>1, <2>3 DEF official
  <2>4. CASE mem' = w /\ mem.sources[s].refreshing /\ UNCHANGED <<queue, spent>>
      BY <2>1, <2>4 DEF official
  <2>5. CASE /\ mem' = [w EXCEPT !.sources[s].refreshing = TRUE]
             /\ ~mem.sources[s].refreshing /\ queue' = Append(queue, s)
      BY <2>1, <2>5
  <2> QED BY <2>2, <2>3, <2>4, <2>5 DEF Read
<1> HIDE DEF w, s
<1> QED BY <1>7, <1>8, <1>10, <1>11, <1>12

-----------------------------------------------------------------------------
(* Official children.                                                       *)

LEMMA LaunchKeeps ==
    ASSUME IndInv, Launch
    PROVE  IndInv' /\ req' = req
<1>1. /\ queue # <<>> /\ child' = DiskBearer /\ Admits
      /\ UNCHANGED <<world, mem, queue, spent, req>>
    BY DEF Launch
<1>2. AccountOK /\ OfficialOK
    BY DEF IndInv
<1>3. DiskBearer \in Logins /\ DiskBearer[1] = generation
    BY <1>1, <1>2, AccountOnDisk DEF AccountOK, DiskBearer, Admits
<1>4. OfficialOK'
    BY <1>1, <1>2, <1>3 DEF OfficialOK, Refreshing, world, Admits
<1>5. BrokerOK(mem') /\ FlightsOK(mem')
    BY <1>1, MemContinued
<1> QED BY <1>1, <1>4, <1>5, OfficialKeepsAll

\* A refresh that ends has an answer of the ledger's account, or none.
LEMMA RefreshedKeeps ==
    ASSUME IndInv, queue # <<>>, NEW bearer,
           \/ Refreshed(bearer, TRUE) /\ bearer \in Logins /\ bearer[1] = generation
           \/ Refreshed(bearer, FALSE)
    PROVE  /\ BrokerOK(mem') /\ FlightsOK(mem') /\ OfficialOK' /\ req' = req
<1> DEFINE s == Head(queue)
           waits(f) == mem.flight[f].acq = "refresh" /\ mem.flight[f].key.source = s
           waited == \E f \in Flights : waits(f)
           old == mem.sources[s]
           good == [old EXCEPT !.refreshing = FALSE, !.last = [bearer |-> bearer, ok |-> TRUE],
                               !.served = IF waited THEN bearer ELSE old.served]
           bad == [old EXCEPT !.refreshing = FALSE,
                              !.last = [bearer |-> old.served, ok |-> FALSE],
                              !.served = IF waited THEN old.served ELSE old.served]
           answered == [f \in Flights |->
               IF ~waits(f) THEN mem.flight[f]
               ELSE [mem.flight[f] EXCEPT !.acq = "answer", !.bearer = bearer]]
           failed == [f \in Flights |->
               IF ~waits(f) THEN mem.flight[f]
               ELSE [mem.flight[f] EXCEPT !.acq = "broken"]]
<1>1. /\ BrokerOK(mem) /\ FlightsOK(mem) /\ OfficialOK
      /\ mem \in Brokers /\ mem.flight \in [Flights -> FlightStates]
    BY DEF IndInv, BrokerOK, Brokers
<1>2. Queued(Tail(queue), Refreshing(mem) \ {s}) /\ s \in Refreshing(mem)
  <2>1. Queued(queue, Refreshing(mem))
      BY <1>1 DEF OfficialOK, Queued
  <2> QED BY <2>1, QueueTail
<1>3. s \in DOMAIN mem.sources
    BY <1>2 DEF Refreshing
<1>4. old \in Sources
    BY <1>1, <1>3, SourceIsTyped
<1>5. queue' = Tail(queue) /\ child' = None /\ req' = req
    BY DEF Refreshed
<1>a. Refreshing(mem') = Refreshing(mem) \ {s} => OfficialOK'
    BY <1>2, <1>5, QueueIsOK
<1>6. CASE Refreshed(bearer, TRUE) /\ bearer \in Logins /\ bearer[1] = generation
  <2>1. mem' = [mem EXCEPT !.sources[s] = good, !.flight = answered]
    <3>1. mem' = [mem EXCEPT !.sources[s].refreshing = FALSE, !.sources[s].last = [bearer |-> bearer, ok |-> TRUE],
                             !.sources[s].served = IF waited THEN bearer ELSE @,
                             !.flight = answered]
        BY <1>6 DEF Refreshed
    <3> HIDE DEF answered, waited
    <3>2. mem.sources \in Seq(Sources)
        BY <1>1 DEF Brokers
    <3> HIDE DEF s
    <3>3. [mem.sources EXCEPT ![s].refreshing = FALSE, ![s].last = [bearer |-> bearer, ok |-> TRUE],
                              ![s].served = IF waited THEN bearer ELSE @]
            = [mem.sources EXCEPT ![s] = good]
        BY <1>3, <1>4, <3>2 DEF Sources
    <3> QED BY <1>1, <3>1, <3>3 DEF Brokers
  <2>2. good \in Sources /\ ~good.refreshing
      BY <1>4, <1>6 DEF Sources
  <2>3. \A f \in Flights :
          /\ answered[f] \in FlightStates /\ answered[f].key = mem.flight[f].key
          /\ answered[f].lease = mem.flight[f].lease
          /\ answered[f].promise = mem.flight[f].promise
          /\ \/ answered[f] = mem.flight[f] /\ ~waits(f)
             \/ /\ mem.flight[f].acq = "refresh" /\ answered[f].acq = "answer"
                /\ answered[f].bearer = bearer
    <3> SUFFICES ASSUME NEW f \in Flights
                 PROVE  /\ answered[f] \in FlightStates
                        /\ answered[f].key = mem.flight[f].key
                        /\ answered[f].lease = mem.flight[f].lease
                        /\ answered[f].promise = mem.flight[f].promise
                        /\ \/ answered[f] = mem.flight[f] /\ ~waits(f)
                           \/ /\ mem.flight[f].acq = "refresh" /\ answered[f].acq = "answer"
                              /\ answered[f].bearer = bearer
        OBVIOUS
    <3>1. mem.flight[f] \in FlightStates
        BY <1>1
    <3>2. CASE ~waits(f)
        BY <3>1, <3>2
    <3>3. CASE waits(f)
        BY <1>6, <3>1, <3>3 DEF FlightStates
    <3> QED BY <3>2, <3>3
  <2>4. answered \in [Flights -> FlightStates]
      BY <2>3
  <2> HIDE DEF answered, good, s
  <2> DEFINE u == [mem EXCEPT !.sources[s] = good]
  <2>a. SourceIsSet(mem, s, good, u)
      BY <1>1, <1>3, <2>2, SourceSet
  <2> HIDE DEF u
  <2>5. /\ BrokerOK(u) /\ \A f \in Flights : WorksOK(u, u.flight[f])
        /\ DOMAIN u.sources = DOMAIN mem.sources
        /\ u.cache = mem.cache /\ u.flight = mem.flight /\ u.revision = mem.revision
        /\ u.selected = mem.selected /\ u.inflight = mem.inflight
        /\ Refreshing(u) = Refreshing(mem) \ {s}
      BY <2>2, <2>a DEF SourceIsSet
  <2>6. mem' = [u EXCEPT !.flight = answered]
      BY <1>1, <2>1 DEF Brokers, u
  <2>7. /\ mem' \in Brokers /\ mem'.value = u.value /\ mem'.cache = u.cache
        /\ mem'.paused = u.paused /\ mem'.selected = u.selected
        /\ mem'.revision = u.revision /\ mem'.closed = u.closed
        /\ mem'.sources = u.sources /\ mem'.flight = answered
        /\ mem'.inflight = u.inflight
      BY <2>4, <2>5, <2>6 DEF BrokerOK, Brokers
  <2>8. BrokerOK(mem')
      BY <2>3, <2>5, <2>7 DEF BrokerOK, ValueOK, KeyOK, UnderWay, Working
  <2>9. \A f \in Flights : WorksOK(mem', mem'.flight[f])
      BY <1>6, <2>3, <2>5, <2>7 DEF WorksOK, Working
  <2>10. Refreshing(mem') = Refreshing(mem) \ {s}
      BY <2>5, <2>7 DEF Refreshing
  <2>11. WaitOK(mem')
    <3>1. ASSUME NEW f \in Flights PROVE WaitsOK(mem', f, mem'.flight[f])
      <4>1. WaitsOK(mem, f, mem.flight[f])
          BY <1>1 DEF FlightsOK, WaitOK
      <4> HIDE DEF waits
      <4>2. mem'.flight[f].acq = "refresh" => mem'.flight[f] = mem.flight[f] /\ ~waits(f)
          BY <2>3, <2>7
      <4>3. mem'.flight[f].acq = "refresh" => mem'.flight[f].key.source \in Refreshing(mem')
          BY <2>10, <4>1, <4>2 DEF WaitsOK, waits
      <4> QED BY <2>3, <2>5, <2>7, <4>1, <4>3 DEF WaitsOK, Now, UnderWay, Working
    <3>2. Apart(mem')
        BY <1>1, <2>3, <2>7 DEF FlightsOK, WaitOK, Apart, UnderWay, Working
    <3> QED BY <3>1, <3>2 DEF WaitOK
  <2> QED BY <1>5, <1>a, <2>8, <2>9, <2>10, <2>11 DEF FlightsOK
<1>7. CASE Refreshed(bearer, FALSE)
  <2>1. mem' = [mem EXCEPT !.sources[s] = bad, !.flight = failed]
    <3>1. mem' = [mem EXCEPT !.sources[s].refreshing = FALSE, !.sources[s].last = [bearer |-> old.served, ok |-> FALSE],
                             !.sources[s].served = IF waited THEN old.served ELSE @,
                             !.flight = failed]
        BY <1>7 DEF Refreshed
    <3> HIDE DEF failed, waited
    <3>2. mem.sources \in Seq(Sources)
        BY <1>1 DEF Brokers
    <3> HIDE DEF s
    <3>3. [mem.sources EXCEPT ![s].refreshing = FALSE, ![s].last = [bearer |-> old.served, ok |-> FALSE],
                              ![s].served = IF waited THEN old.served ELSE @]
            = [mem.sources EXCEPT ![s] = bad]
        BY <1>3, <1>4, <3>2 DEF Sources
    <3> QED BY <1>1, <3>1, <3>3 DEF Brokers
  <2>2. bad \in Sources /\ ~bad.refreshing
      BY <1>4 DEF Sources
  <2>3. \A f \in Flights :
          /\ failed[f] \in FlightStates /\ failed[f].key = mem.flight[f].key
          /\ failed[f].lease = mem.flight[f].lease
          /\ failed[f].promise = mem.flight[f].promise
          /\ \/ failed[f] = mem.flight[f] /\ ~waits(f)
             \/ mem.flight[f].acq = "refresh" /\ failed[f].acq = "broken"
    <3> SUFFICES ASSUME NEW f \in Flights
                 PROVE  /\ failed[f] \in FlightStates
                        /\ failed[f].key = mem.flight[f].key
                        /\ failed[f].lease = mem.flight[f].lease
                        /\ failed[f].promise = mem.flight[f].promise
                        /\ \/ failed[f] = mem.flight[f] /\ ~waits(f)
                           \/ mem.flight[f].acq = "refresh" /\ failed[f].acq = "broken"
        OBVIOUS
    <3>1. mem.flight[f] \in FlightStates
        BY <1>1
    <3>2. CASE ~waits(f)
        BY <3>1, <3>2
    <3>3. CASE waits(f)
        BY <3>1, <3>3 DEF FlightStates
    <3> QED BY <3>2, <3>3
  <2>4. failed \in [Flights -> FlightStates]
      BY <2>3
  <2> HIDE DEF failed, bad, s
  <2> DEFINE u == [mem EXCEPT !.sources[s] = bad]
  <2>a. SourceIsSet(mem, s, bad, u)
      BY <1>1, <1>3, <2>2, SourceSet
  <2> HIDE DEF u
  <2>5. /\ BrokerOK(u) /\ \A f \in Flights : WorksOK(u, u.flight[f])
        /\ DOMAIN u.sources = DOMAIN mem.sources
        /\ u.cache = mem.cache /\ u.flight = mem.flight /\ u.revision = mem.revision
        /\ u.selected = mem.selected /\ u.inflight = mem.inflight
        /\ Refreshing(u) = Refreshing(mem) \ {s}
      BY <2>2, <2>a DEF SourceIsSet
  <2>6. mem' = [u EXCEPT !.flight = failed]
      BY <1>1, <2>1 DEF Brokers, u
  <2>7. /\ mem' \in Brokers /\ mem'.value = u.value /\ mem'.cache = u.cache
        /\ mem'.paused = u.paused /\ mem'.selected = u.selected
        /\ mem'.revision = u.revision /\ mem'.closed = u.closed
        /\ mem'.sources = u.sources /\ mem'.flight = failed
        /\ mem'.inflight = u.inflight
      BY <2>4, <2>5, <2>6 DEF BrokerOK, Brokers
  <2>8. BrokerOK(mem')
      BY <2>3, <2>5, <2>7 DEF BrokerOK, ValueOK, KeyOK, UnderWay, Working
  <2>9. \A f \in Flights : WorksOK(mem', mem'.flight[f])
      BY <2>3, <2>5, <2>7 DEF WorksOK, Working
  <2>10. Refreshing(mem') = Refreshing(mem) \ {s}
      BY <2>5, <2>7 DEF Refreshing
  <2>11. WaitOK(mem')
    <3>1. ASSUME NEW f \in Flights PROVE WaitsOK(mem', f, mem'.flight[f])
      <4>1. WaitsOK(mem, f, mem.flight[f])
          BY <1>1 DEF FlightsOK, WaitOK
      <4> HIDE DEF waits
      <4>2. mem'.flight[f].acq = "refresh" => mem'.flight[f] = mem.flight[f] /\ ~waits(f)
          BY <2>3, <2>7
      <4>3. mem'.flight[f].acq = "refresh" => mem'.flight[f].key.source \in Refreshing(mem')
          BY <2>10, <4>1, <4>2 DEF WaitsOK, waits
      <4> QED BY <2>3, <2>5, <2>7, <4>1, <4>3 DEF WaitsOK, Now, UnderWay, Working
    <3>2. Apart(mem')
        BY <1>1, <2>3, <2>7 DEF FlightsOK, WaitOK, Apart, UnderWay, Working
    <3> QED BY <3>1, <3>2 DEF WaitOK
  <2> QED BY <1>5, <1>a, <2>8, <2>9, <2>10, <2>11 DEF FlightsOK
<1> QED BY <1>6, <1>7

LEMMA OfficialFailsKeeps ==
    ASSUME IndInv, OfficialFails
    PROVE  IndInv' /\ req' = req
<1>1. queue # <<>> /\ Refreshed(None, FALSE) /\ UNCHANGED world
    BY DEF OfficialFails
<1>2. BrokerOK(mem') /\ FlightsOK(mem') /\ OfficialOK' /\ req' = req
    BY <1>1, RefreshedKeeps
<1> QED BY <1>1, <1>2, OfficialKeepsAll

LEMMA OfficialAnswersKeeps ==
    ASSUME IndInv, OfficialAnswers
    PROVE  IndInv' /\ req' = req
<1> DEFINE newer == <<child[1], version[child[1]] + 1>>
           same == <<child[1], version[child[1]]>>
<1>1. /\ child # None
      /\ UNCHANGED <<generation, switch, switches, diskAccount, aged>>
      /\ \/ /\ newer \in Logins
            /\ version' = [version EXCEPT ![child[1]] = version[child[1]] + 1]
            /\ Refreshed(newer, TRUE)
         \/ version' = version /\ Refreshed(same, TRUE)
    BY DEF OfficialAnswers
<1>2. /\ AccountOK /\ child[1] = generation /\ queue # <<>> /\ generation \in Generations
      /\ version \in [Generations -> Nat] /\ same \in Logins
    BY <1>1 DEF IndInv, OfficialOK, AccountOK
<1>3. BrokerOK(mem') /\ FlightsOK(mem') /\ OfficialOK' /\ req' = req
  <2>1. newer[1] = generation /\ same[1] = generation
      BY <1>2
  <2>2. CASE newer \in Logins /\ Refreshed(newer, TRUE)
    <3> HIDE DEF newer
    <3> QED BY <1>2, <2>1, <2>2, RefreshedKeeps
  <2>3. CASE Refreshed(same, TRUE)
    <3> HIDE DEF same
    <3> QED BY <1>2, <2>1, <2>3, RefreshedKeeps
  <2> QED BY <1>1, <2>2, <2>3
<1>4. /\ version' \in [Generations -> Nat]
      /\ \A a \in Generations : <<a, version'[a]>> \in Logins
  <2>1. CASE version' = version
      BY <1>2, <2>1 DEF AccountOK
  <2>2. CASE newer \in Logins /\ version' = [version EXCEPT ![child[1]] = version[child[1]] + 1]
      BY <1>2, <2>2 DEF AccountOK
  <2> QED BY <1>1, <2>1, <2>2
<1>5. AccountOK'
    BY <1>1, <1>2, <1>4 DEF AccountOK
<1>8. BrokerOK(mem)' /\ FlightsOK(mem)'
    BY <1>1, <1>3, WaitFollows DEF BrokerOK, FlightsOK, WorksOK
<1>9. RequestsOK'
    BY <1>3 DEF IndInv, RequestsOK
<1> QED BY <1>3, <1>5, <1>8, <1>9 DEF IndInv

-----------------------------------------------------------------------------
(* Time, other processes, the account switch, shutdown.                     *)

LEMMA LoginKeeps ==
    ASSUME IndInv, Login
    PROVE  IndInv' /\ req' = req
<1>1. /\ <<diskAccount, version[diskAccount] + 1>> \in Logins
      /\ version' = [version EXCEPT ![diskAccount] = version[diskAccount] + 1]
      /\ UNCHANGED <<generation, switch, switches, diskAccount, aged, official, mem, req>>
    BY DEF Login
<1>2. AccountOK /\ diskAccount \in Generations /\ version \in [Generations -> Nat]
    BY AccountOnDisk DEF IndInv, AccountOK
<1>3. /\ version' \in [Generations -> Nat]
      /\ \A a \in Generations : <<a, version'[a]>> \in Logins
    BY <1>1, <1>2 DEF AccountOK
<1>4. AccountOK'
    BY <1>1, <1>2, <1>3 DEF AccountOK
<1>5. OfficialOK'
    BY <1>1 DEF IndInv, OfficialOK, Refreshing, official
<1>6. BrokerOK(mem)' /\ FlightsOK(mem)'
    BY <1>1, WaitFollows DEF IndInv, BrokerOK, FlightsOK, WorksOK
<1>7. RequestsOK'
    BY <1>1 DEF IndInv, RequestsOK
<1> QED BY <1>1, <1>4, <1>5, <1>6, <1>7 DEF IndInv

LEMMA AgeKeeps ==
    ASSUME IndInv, Age
    PROVE  IndInv' /\ req' = req
<1>1. /\ aged' = aged \cup {DiskBearer}
      /\ UNCHANGED <<generation, switch, switches, diskAccount, version, official, mem, req>>
    BY DEF Age
<1>2. DiskBearer \in Logins
    BY AccountOnDisk DEF IndInv, AccountOK, DiskBearer
<1>3. AccountOK'
    BY <1>1, <1>2 DEF IndInv, AccountOK
<1>4. OfficialOK'
    BY <1>1 DEF IndInv, OfficialOK, Refreshing, official
<1>5. BrokerOK(mem)' /\ FlightsOK(mem)'
    BY <1>1, WaitFollows DEF IndInv, BrokerOK, FlightsOK, WorksOK
<1>6. RequestsOK'
    BY <1>1 DEF IndInv, RequestsOK
<1> QED BY <1>1, <1>3, <1>4, <1>5, <1>6 DEF IndInv

LEMMA CooldownEndsKeeps ==
    ASSUME IndInv, NEW s, CooldownEnds(s)
    PROVE  IndInv' /\ req' = req
<1> DEFINE src == [mem.sources[s] EXCEPT !.last = None]
<1>1. /\ s \in DOMAIN mem.sources /\ mem' = [mem EXCEPT !.sources[s].last = None]
      /\ UNCHANGED <<world, queue, child, req>>
    BY DEF CooldownEnds
<1>2. BrokerOK(mem) /\ FlightsOK(mem) /\ mem \in Brokers /\ OfficialOK
    BY DEF IndInv, BrokerOK
<1>3. mem.sources[s] \in Sources
    BY <1>1, <1>2, SourceIsTyped
<1>4. src \in Sources /\ src.refreshing = mem.sources[s].refreshing
    BY <1>3 DEF Sources
<1>5. mem' = [mem EXCEPT !.sources[s] = src]
    BY <1>1, <1>2 DEF Brokers
<1> HIDE DEF src
<1>6. SourceIsSet(mem, s, src, mem')
    BY <1>1, <1>2, <1>4, <1>5, SourceSet
<1>7. s \in Refreshing(mem) <=> src.refreshing
    BY <1>1, <1>4 DEF Refreshing
<1>8. /\ BrokerOK(mem') /\ FlightsOK(mem') /\ DOMAIN mem'.sources = DOMAIN mem.sources
      /\ Refreshing(mem') = Refreshing(mem)
    BY <1>4, <1>6, <1>7 DEF SourceIsSet
<1>9. OfficialOK'
    BY <1>1, <1>2, <1>8 DEF OfficialOK, Refreshing, world
<1> QED BY <1>1, <1>8, <1>9, OfficialKeepsAll

LEMMA FreezeKeeps ==
    ASSUME IndInv, Freeze
    PROVE  IndInv' /\ req' = req
<1>1. /\ switch = "open" /\ switches < MaxSwitches /\ switch' = "draining"
      /\ switches' = switches + 1
      /\ UNCHANGED <<generation, diskAccount, version, aged, official, mem, req>>
    BY DEF Freeze
<1>2. AccountOK'
  <2>1. switches \in 0 .. MaxSwitches /\ MaxSwitches \in Nat /\ generation \in 0 .. MaxSwitches
      BY BrokerAssumption DEF IndInv, AccountOK, Generations
  <2>2. switches' \in 0 .. MaxSwitches /\ generation <= switches' /\ generation < switches'
      BY <1>1, <2>1 DEF IndInv, AccountOK
  <2> QED BY <1>1, <2>2 DEF IndInv, AccountOK, Generations
<1>3. OfficialOK'
    BY <1>1 DEF IndInv, OfficialOK, Refreshing, official
<1>4. BrokerOK(mem)' /\ FlightsOK(mem)'
    BY <1>1, WaitFollows DEF IndInv, BrokerOK, FlightsOK, WorksOK
<1>5. RequestsOK'
    BY <1>1 DEF IndInv, RequestsOK
<1> QED BY <1>1, <1>2, <1>3, <1>4, <1>5 DEF IndInv

\* After a drop and what follows, no flight is of this revision any more.
LEMMA DroppedFlights ==
    ASSUME NEW m, BrokerOK(m), NEW n, BrokerOK(n), Onward(Drop(m), n), NEW f \in Flights,
           n.flight[f].acq \in Working
    PROVE  n.flight[f].key.cache # n.cache
<1>1. BrokerOK(Drop(m)) /\ Onward(m, Drop(m)) /\ Drop(m).cache = m.cache + 1
    BY DropGoesOn
<1>2. m.cache \in Nat /\ n.cache \in Nat
    BY DEF BrokerOK, Brokers
<1>3. /\ m.flight[f].acq \in Working /\ m.flight[f].key = n.flight[f].key
    BY <1>1 DEF Onward
<1>4. m.flight[f].key.cache <= m.cache /\ m.flight[f].key.cache \in Nat
    BY <1>3 DEF BrokerOK, KeyOK, Keys, UnderWay
<1>5. m.cache + 1 <= n.cache
    BY <1>1 DEF Onward
<1> QED BY <1>2, <1>3, <1>4, <1>5

\* What is left of m after a stop or a close.
Stopped(m, n, paused, closed) ==
    /\ Continued(m, n) /\ Onward(m, n) /\ m.cache + 1 <= n.cache
    /\ n.paused = paused /\ n.closed = closed /\ n.sources = m.sources
    /\ \A f \in Flights : n.flight[f].acq \in Working => n.flight[f].key.cache # n.cache

\* The drop of a stop or a close, with paused or closed set, and then no source.
LEMMA StopBroker ==
    ASSUME IndInv, NEW paused \in {mem.paused, generation}, NEW closed \in BOOLEAN, NEW n,
           switch \in {"stopping", "moved"} => paused = generation,
           n = Publish([Drop(mem) EXCEPT !.paused = paused, !.closed = closed], None, TRUE)
    PROVE  Stopped(mem, n, paused, closed)
<1> DEFINE d == Drop(mem)
           e == [d EXCEPT !.paused = paused, !.closed = closed]
<1>1. BrokerOK(mem) /\ FlightsOK(mem) /\ mem \in Brokers /\ generation \in Generations
    BY DEF IndInv, BrokerOK, AccountOK
<1>2. /\ BrokerOK(d) /\ Onward(mem, d) /\ d.value = None /\ d.sources = mem.sources
      /\ d.cache = mem.cache + 1
    BY <1>1, DropGoesOn
<1>3. FlightsOK(d)
    BY <1>1, <1>2, OnwardKeepsFlights
<1>4. n = Publish(e, None, TRUE)
    OBVIOUS
<1> HIDE DEF d
<1>5. paused \in Generations \cup {None}
    BY <1>1 DEF Brokers
<1>6. /\ e \in Brokers /\ e.value = None /\ e.cache = d.cache /\ e.selected = d.selected
      /\ e.revision = d.revision /\ e.closed = closed /\ e.paused = paused
      /\ e.sources = d.sources /\ e.flight = d.flight /\ e.inflight = d.inflight
  <2>1. d \in Brokers
      BY <1>2 DEF BrokerOK
  <2> QED BY <1>2, <1>5, <2>1 DEF Brokers
<1> HIDE DEF e
<1>7. BrokerOK(e) /\ FlightsOK(e)
  <2>1. BrokerOK(e) /\ \A f \in Flights : WorksOK(e, e.flight[f])
      BY <1>2, <1>3, <1>6 DEF BrokerOK, ValueOK, OfItsAccount, KeyOK, FlightsOK, WorksOK
  <2>2. WaitOK(e)
      BY <1>3, <1>6 DEF FlightsOK, WaitOK, Apart, WaitsOK, Now, Refreshing
  <2> QED BY <2>1, <2>2 DEF FlightsOK
<1>8. None \in DOMAIN e.sources \cup {None}
    OBVIOUS
<1>9. Published(e, None, n)
    BY <1>4, <1>7, <1>8, PublishGoesOn
<1>10. /\ BrokerOK(n) /\ Onward(e, n) /\ n.paused = e.paused /\ n.sources = e.sources
       /\ n.closed = e.closed
    BY <1>9 DEF Published
<1>11. FlightsOK(n)
    BY <1>7, <1>10, OnwardKeepsFlights
<1>12. Onward(d, e)
    BY <1>2, <1>6 DEF Onward, Refreshing, BrokerOK, Brokers
<1>13. Onward(d, n)
    BY <1>2, <1>7, <1>10, <1>12, OnwardIsTransitive
<1>14. \A f \in Flights : n.flight[f].acq \in Working => n.flight[f].key.cache # n.cache
    BY <1>1, <1>10, <1>13, DroppedFlights DEF d
<1>15. Onward(mem, n)
    BY <1>1, <1>2, <1>10, <1>13, OnwardIsTransitive
<1>16. mem.cache + 1 <= n.cache
    BY <1>2, <1>13 DEF Onward
<1>17. Continued(mem, n)
    BY <1>10, <1>11, <1>15 DEF Continued, Onward
<1> QED BY <1>2, <1>6, <1>10, <1>14, <1>15, <1>16, <1>17 DEF Stopped

LEMMA StopStops ==
    ASSUME IndInv, Stop
    PROVE  Stopped(mem, mem', generation, mem.closed)
<1>1. /\ switch = "draining"
      /\ mem' = Publish([Drop(mem) EXCEPT !.paused = generation], None, TRUE)
    BY DEF Stop
<1>2. BrokerOK(mem) /\ mem \in Brokers
    BY DEF IndInv, BrokerOK
<1>3. Drop(mem).closed = mem.closed /\ Drop(mem) \in Brokers
    BY <1>2, DropGoesOn DEF BrokerOK
<1>4. [Drop(mem) EXCEPT !.paused = generation, !.closed = mem.closed]
        = [Drop(mem) EXCEPT !.paused = generation]
  <2> DEFINE d == Drop(mem)
  <2>1. d \in Brokers /\ d.closed = mem.closed
      BY <1>3
  <2> HIDE DEF d
  <2>2. [d EXCEPT !.paused = generation, !.closed = mem.closed]
          = [d EXCEPT !.paused = generation]
      BY <2>1 DEF Brokers
  <2> QED BY <2>2 DEF d
<1>5. mem.closed \in BOOLEAN
    BY <1>2 DEF Brokers
<1> QED BY <1>1, <1>4, <1>5, StopBroker

LEMMA StopKeeps ==
    ASSUME IndInv, Stop
    PROVE  IndInv' /\ req' = req
<1>1. /\ switch = "draining" /\ switch' = "stopping"
      /\ UNCHANGED <<generation, switches, diskAccount, version, aged, official, req>>
    BY DEF Stop
<1>2. /\ Continued(mem, mem') /\ mem'.paused = generation
      /\ \A f \in Flights :
           mem'.flight[f].acq \in Working => mem'.flight[f].key.cache # mem'.cache
    BY StopStops DEF Stopped
<1>3. AccountOK'
    BY <1>1 DEF IndInv, AccountOK
<1>4. OfficialOK'
  <2>1. DOMAIN mem.sources \subseteq DOMAIN mem'.sources /\ Refreshing(mem') = Refreshing(mem)
      BY <1>2 DEF Continued
  <2>2. OfficialOK
      BY DEF IndInv
  <2>3. /\ switch = "draining" /\ switch' = "stopping" /\ generation' = generation
        /\ queue' = queue /\ child' = child
      BY <1>1 DEF official
  <2> QED BY <2>1, <2>2, <2>3 DEF OfficialOK, Refreshing
<1>5. BrokerOK(mem)' /\ FlightsOK(mem)'
    BY <1>1, <1>2, WaitFollows DEF Continued, BrokerOK, FlightsOK, WorksOK
<1>6. RequestsOK'
    BY <1>1 DEF IndInv, RequestsOK
<1> QED BY <1>1, <1>3, <1>4, <1>5, <1>6 DEF IndInv

LEMMA CloseBrokerStops ==
    ASSUME IndInv, CloseBroker
    PROVE  Stopped(mem, mem', mem.paused, TRUE)
<1>1. mem' = Publish([Drop(mem) EXCEPT !.closed = TRUE], None, TRUE)
    BY DEF CloseBroker
<1>2. BrokerOK(mem) /\ mem \in Brokers
    BY DEF IndInv, BrokerOK
<1>3. Drop(mem).paused = mem.paused /\ Drop(mem) \in Brokers
    BY <1>2, DropGoesOn DEF BrokerOK
<1>4. [Drop(mem) EXCEPT !.paused = mem.paused, !.closed = TRUE]
        = [Drop(mem) EXCEPT !.closed = TRUE]
  <2> DEFINE d == Drop(mem)
  <2>1. d \in Brokers /\ d.paused = mem.paused
      BY <1>3
  <2> HIDE DEF d
  <2>2. [d EXCEPT !.paused = mem.paused, !.closed = TRUE] = [d EXCEPT !.closed = TRUE]
      BY <2>1 DEF Brokers
  <2> QED BY <2>2 DEF d
<1>5. switch \in {"stopping", "moved"} => mem.paused = generation
    BY <1>2 DEF BrokerOK
<1> DEFINE closed == TRUE
<1>6. closed \in BOOLEAN
    OBVIOUS
<1>7. mem' = Publish([Drop(mem) EXCEPT !.paused = mem.paused, !.closed = closed], None, TRUE)
    BY <1>1, <1>4
<1>8. Stopped(mem, mem', mem.paused, closed)
  <2> HIDE DEF closed
  <2> QED BY <1>5, <1>6, <1>7, StopBroker
<1> QED BY <1>8

LEMMA CloseBrokerKeeps ==
    ASSUME IndInv, CloseBroker
    PROVE  IndInv' /\ req' = req
<1>1. UNCHANGED <<world, official, req>>
    BY DEF CloseBroker
<1>2. Continued(mem, mem')
    BY CloseBrokerStops DEF Stopped
<1> QED BY <1>1, <1>2, BrokerKeepsAll

LEMMA MoveKeeps ==
    ASSUME IndInv, Move
    PROVE  IndInv' /\ req' = req
<1>1. /\ switch = "stopping" /\ child = None
      /\ switch' = "moved" /\ diskAccount' = generation + 1
      /\ UNCHANGED <<generation, switches, version, aged, official, mem, req>>
    BY DEF Move
<1>2. AccountOK'
    BY <1>1 DEF IndInv, AccountOK
<1>3. OfficialOK'
    BY <1>1 DEF IndInv, OfficialOK, Refreshing, official
<1>4. BrokerOK(mem)' /\ FlightsOK(mem)'
    BY <1>1, WaitFollows DEF IndInv, BrokerOK, FlightsOK, WorksOK
<1>5. RequestsOK'
    BY <1>1 DEF IndInv, RequestsOK
<1> QED BY <1>1, <1>2, <1>3, <1>4, <1>5 DEF IndInv

LEMMA PublishSwitchKeeps ==
    ASSUME IndInv, PublishSwitch
    PROVE  IndInv' /\ req' = req
<1>1. /\ switch = "moved" /\ switch' = "restart" /\ generation' = generation + 1
      /\ UNCHANGED <<switches, diskAccount, version, aged, official, mem, req>>
    BY DEF PublishSwitch
<1>2. AccountOK'
  <2>1. /\ generation \in 0 .. MaxSwitches /\ switches \in 0 .. MaxSwitches
        /\ generation < switches /\ MaxSwitches \in Nat /\ diskAccount = generation + 1
      BY <1>1, BrokerAssumption DEF IndInv, AccountOK, Generations
  <2>2. generation' \in 0 .. MaxSwitches /\ generation' <= switches
      BY <1>1, <2>1
  <2> QED BY <1>1, <2>1, <2>2 DEF IndInv, AccountOK, Generations
<1>3. OfficialOK'
    BY <1>1 DEF IndInv, OfficialOK, Refreshing, official
<1>4. BrokerOK(mem)' /\ FlightsOK(mem)'
  <2>1. BrokerOK(mem)' /\ \A f \in Flights : WorksOK(mem, mem.flight[f])'
      BY <1>1 DEF IndInv, BrokerOK, FlightsOK, WorksOK
  <2>2. WaitOK(mem)'
    <3>1. Apart(mem)'
        BY <1>1 DEF IndInv, FlightsOK, WaitOK, Apart
    <3>2. ASSUME NEW f \in Flights PROVE WaitsOK(mem, f, mem.flight[f])'
      <4>1. WaitsOK(mem, f, mem.flight[f]) /\ KeyOK(mem, mem.flight[f])
          BY DEF IndInv, BrokerOK, FlightsOK, WaitOK
      <4>2. generation \in Nat
          BY DEF IndInv, AccountOK, Generations
      <4>3. mem.flight[f].acq \in UnderWay => mem.flight[f].key.generation \in Nat
          BY <4>1 DEF KeyOK, Keys, Generations
      <4> QED BY <1>1, <4>1, <4>2, <4>3 DEF WaitsOK, Now, Refreshing
    <3> QED BY <3>1, <3>2 DEF WaitOK
  <2> QED BY <2>1, <2>2 DEF FlightsOK
<1>5. RequestsOK'
    BY <1>1 DEF IndInv, RequestsOK
<1> QED BY <1>1, <1>2, <1>3, <1>4, <1>5 DEF IndInv

LEMMA UndoKeeps ==
    ASSUME IndInv, Undo
    PROVE  IndInv' /\ req' = req
<1>1. /\ switch' \in {"open", "reopened"} /\ diskAccount' = generation
      /\ UNCHANGED <<generation, switches, version, aged, official, mem, req>>
    BY DEF Undo
<1>2. AccountOK'
    BY <1>1 DEF IndInv, AccountOK
<1>3. OfficialOK'
    BY <1>1 DEF IndInv, OfficialOK, Refreshing, official
<1>4. BrokerOK(mem)' /\ FlightsOK(mem)'
    BY <1>1, WaitFollows DEF IndInv, BrokerOK, FlightsOK, WorksOK
<1>5. RequestsOK'
    BY <1>1 DEF IndInv, RequestsOK
<1> QED BY <1>1, <1>2, <1>3, <1>4, <1>5 DEF IndInv

LEMMA RestartKeeps ==
    ASSUME IndInv, Restart
    PROVE  IndInv' /\ req' = req
<1>1. /\ switch \in {"restart", "reopened"} /\ switch' = "open" /\ mem' = Drop(mem)
      /\ UNCHANGED <<generation, switches, diskAccount, version, aged, official, req>>
    BY DEF Restart
<1>2. BrokerOK(mem') /\ Onward(mem, mem')
    BY <1>1, MemContinued, DropGoesOn
<1>3. Continued(mem, mem')
    BY <1>2, MemContinued, OnwardContinues
<1>4. AccountOK'
    BY <1>1 DEF IndInv, AccountOK
<1>5. OfficialOK'
    BY <1>1, <1>3 DEF IndInv, OfficialOK, Refreshing, official, Continued
<1>6. BrokerOK(mem)' /\ FlightsOK(mem)'
    BY <1>1, <1>3, WaitFollows DEF Continued, BrokerOK, FlightsOK, WorksOK
<1>7. RequestsOK'
    BY <1>1 DEF IndInv, RequestsOK
<1> QED BY <1>1, <1>4, <1>5, <1>6, <1>7 DEF IndInv

-----------------------------------------------------------------------------
(* The theorems.                                                            *)

LEMMA InitOK == Init => IndInv
<1> SUFFICES ASSUME Init PROVE IndInv
    OBVIOUS
<1>1. MaxSwitches \in Nat /\ 0 \in Generations
    BY BrokerAssumption DEF Generations
<1>2. AccountOK
    BY <1>1, BrokerAssumption DEF Init, AccountOK, Generations
<1>3. OfficialOK
    BY DEF Init, OfficialOK, Refreshing
<1>4. RequestsOK
  <2>1. 0 \in 0 .. 2 /\ 0 \in 0 .. 1
      OBVIOUS
  <2>2. NoRequest \in RequestStates /\ NoRequest.pc = "new" /\ NoRequest.lease = None
      BY <2>1 DEF NoRequest, RequestStates
  <2>3. RequestOK(NoRequest)
      BY <2>2 DEF RequestOK, OfItsAccount
  <2> QED BY <2>3 DEF Init, RequestsOK
<1> DEFINE flights == [f \in Flights |-> NoFlight]
<1>5. /\ NoFlight \in FlightStates /\ NoFlight.acq = "none" /\ NoFlight.lease = None
      /\ NoFlight.promise = "none"
    BY DEF NoFlight, FlightStates
<1>6. /\ flights \in [Flights -> FlightStates]
      /\ \A f \in Flights : flights[f] = NoFlight
    BY <1>5
<1> HIDE DEF flights
<1>7. mem = [value |-> None, inflight |-> None, cache |-> 0, selected |-> None,
             revision |-> 0, paused |-> None, closed |-> FALSE, sources |-> <<>>,
             flight |-> flights]
    BY DEF Init, flights
<1>8. /\ mem \in Brokers /\ mem.value = None /\ mem.selected = None /\ mem.flight = flights
    BY <1>6, <1>7 DEF Brokers
<1>9. switch = "open"
    BY DEF Init
<1>10. BrokerOK(mem) /\ FlightsOK(mem)
    BY <1>5, <1>6, <1>8, <1>9
       DEF BrokerOK, ValueOK, OfItsAccount, KeyOK, UnderWay, Working, FlightsOK, WorksOK,
           WaitOK, Apart, WaitsOK
<1> QED BY <1>2, <1>3, <1>4, <1>10 DEF IndInv

\* A request that gets a lease in this step gets a current one.
Returns ==
    \A r \in Requests :
      req[r].pc # "got" /\ req'[r].pc = "got" => LeaseCurrent(mem', req'[r].lease)

LEMMA NextKeeps ==
    ASSUME IndInv, [Next]_vars
    PROVE  IndInv' /\ Returns
<1>1. ASSUME NEW r \in Requests, Request(r) PROVE IndInv' /\ Returns
  <2>1. CASE Begin(r)
      BY <2>1, BeginKeeps DEF Returns
  <2>2. CASE Resume(r)
      BY <2>2, ResumeKeeps DEF Returns
  <2>3. CASE Rejected(r)
      BY <2>3, RejectedKeeps DEF Returns
  <2>4. CASE Answered(r)
      BY <2>4, AnsweredKeeps DEF Returns
  <2>5. CASE Abort(r)
      BY <2>5, AbortKeeps DEF Returns
  <2> QED BY <1>1, <2>1, <2>2, <2>3, <2>4, <2>5 DEF Request
<1>2. ASSUME NEW f \in Flights, Acquire(f) PROVE IndInv' /\ Returns
    BY <1>2, ReadKeeps, BrokenKeeps, StoreKeeps DEF Acquire, Returns
<1>3. CASE Official
    BY <1>3, LaunchKeeps, OfficialAnswersKeeps, OfficialFailsKeeps DEF Official, Returns
<1>4. CASE Environment
    BY <1>4, LoginKeeps, AgeKeeps, CooldownEndsKeeps DEF Environment, Returns
<1>5. CASE Switching
    BY <1>5, FreezeKeeps, StopKeeps, MoveKeeps, PublishSwitchKeeps, UndoKeeps, RestartKeeps
       DEF Switching, Returns
<1>6. CASE CloseBroker
    BY <1>6, CloseBrokerKeeps DEF Returns
<1>7. CASE UNCHANGED vars
  <2>1. UNCHANGED <<world, official, mem, req>>
      BY <1>7 DEF vars, world, official
  <2>2. IndInv'
      BY <2>1, MemContinued, BrokerKeepsAll
  <2> QED BY <2>1, <2>2 DEF Returns
<1> QED BY <1>1, <1>2, <1>3, <1>4, <1>5, <1>6, <1>7 DEF Next

\* The inductive invariant holds throughout.
LEMMA Invariance == Spec => []IndInv
<1>1. Init => IndInv
    BY InitOK
<1>2. IndInv /\ [Next]_vars => IndInv'
    BY NextKeeps
<1> QED BY <1>1, <1>2, PTL DEF Spec

\* The type invariant of the broker's run.
THEOREM TypeCorrect == Spec => []TypeOK
<1>1. IndInv => TypeOK
  <2> SUFFICES ASSUME IndInv PROVE TypeOK
      OBVIOUS
  <2>1. AccountOK /\ OfficialOK /\ mem \in Brokers /\ BrokerOK(mem)
      BY DEF IndInv, BrokerOK
  <2>2. diskAccount \in Generations
      BY <2>1, AccountOnDisk
  <2>3. \A r \in Requests :
          /\ req[r].pc \in {"new", "await", "got", "over"}
          /\ req[r].gets \in 0 .. 2 /\ req[r].attempt \in 0 .. 1
          /\ req[r].flight \in Flights \cup {None}
      BY DEF IndInv, RequestsOK, RequestOK, RequestStates
  <2>4. mem.inflight \in Flights \cup {None} /\ mem.selected \in DOMAIN mem.sources \cup {None}
      BY <2>1 DEF BrokerOK, Brokers
  <2> QED BY <2>1, <2>2, <2>3, <2>4 DEF TypeOK, AccountOK, OfficialOK
<1> QED BY <1>1, Invariance, PTL

\* No bearer is kept or handed out under another account than its own, however
\* many switches overtake the flights that brought it.
THEOREM LeasesAreOfTheirAccount == Spec => []LeaseIsOfItsAccount
<1>1. IndInv => LeaseIsOfItsAccount
    BY DEF IndInv, BrokerOK, RequestsOK, RequestOK, OfItsAccount, LeaseIsOfItsAccount
<1> QED BY <1>1, Invariance, PTL

\* A flight that ends late never replaces what came after it.
THEOREM ValueIsCurrent == Spec => []ValueIsOfThisRevision
<1>1. IndInv => ValueIsOfThisRevision
    BY DEF IndInv, BrokerOK, ValueOK, ValueIsOfThisRevision
<1> QED BY <1>1, Invariance, PTL

\* A get never waits for a promise nobody will settle: what it awaits is settled
\* or under way, a source asked to refresh is queued exactly once, and no two
\* flights under way have the same key.
THEOREM AwaitedAlwaysUnderWay == Spec => []AwaitedIsUnderWay
<1>1. IndInv => AwaitedIsUnderWay
  <2> SUFFICES ASSUME IndInv PROVE AwaitedIsUnderWay
      OBVIOUS
  <2>1. /\ RequestsOK /\ FlightsOK(mem) /\ mem \in Brokers
        /\ mem.flight \in [Flights -> FlightStates] /\ mem.sources \in Seq(Sources)
      BY DEF IndInv, BrokerOK, Brokers
  <2>2. ASSUME NEW r \in Requests, req[r].pc = "await"
        PROVE  LET fl == mem.flight[req[r].flight] IN
               \/ fl.promise # "pending"
               \/ fl.acq \in {"reading", "broken", "answer"}
               \/ fl.acq = "refresh" /\ mem.sources[fl.key.source].refreshing
    <3> DEFINE f == req[r].flight
    <3>1. f \in Flights
        BY <2>1, <2>2 DEF RequestsOK, RequestOK
    <3>2. WaitsOK(mem, f, mem.flight[f])
        BY <2>1, <3>1 DEF FlightsOK, WaitOK
    <3> QED BY <3>2 DEF WaitsOK, UnderWay, Working, Refreshing
  <2>3. ASSUME NEW s \in DOMAIN mem.sources
        PROVE  Cardinality({i \in DOMAIN queue : queue[i] = s})
                 = IF mem.sources[s].refreshing THEN 1 ELSE 0
    <3> DEFINE Q == {i \in DOMAIN queue : queue[i] = s}
    <3>1. /\ \A i, j \in DOMAIN queue : queue[i] = queue[j] => i = j
          /\ {queue[i] : i \in DOMAIN queue} = Refreshing(mem)
        BY DEF IndInv, OfficialOK
    <3>2. mem.sources[s].refreshing <=> s \in Refreshing(mem)
        BY DEF Refreshing
    <3>3. CASE s \in Refreshing(mem)
      <4>1. PICK k \in DOMAIN queue : queue[k] = s
          BY <3>1, <3>3
      <4>2. Q = {k}
          BY <3>1, <4>1
      <4>3. Cardinality({k}) = 1
          BY FS_Singleton
      <4> QED BY <3>2, <3>3, <4>2, <4>3
    <3>4. CASE s \notin Refreshing(mem)
      <4>1. Q = {}
          BY <3>1, <3>4
      <4>2. Cardinality({}) = 0
          BY FS_EmptySet
      <4> QED BY <3>2, <3>4, <4>1, <4>2
    <3> QED BY <3>3, <3>4
  <2>4. ASSUME NEW f \in Flights, NEW g \in Flights, f # g,
               mem.flight[f].acq \notin {"none", "over"},
               mem.flight[g].acq \notin {"none", "over"}
        PROVE  mem.flight[f].key # mem.flight[g].key
    <3>1. mem.flight[f].acq \in UnderWay /\ mem.flight[g].acq \in UnderWay
        BY <2>1, <2>4 DEF FlightStates, UnderWay, Working
    <3> QED BY <2>1, <2>4, <3>1 DEF FlightsOK, WaitOK, Apart
  <2> QED BY <2>2, <2>3, <2>4 DEF AwaitedIsUnderWay
<1> QED BY <1>1, Invariance, PTL

\* What get returns is current when it returns.
THEOREM ReturnsAreCurrent == Spec => GetReturnsCurrent
<1> DEFINE A == \A r \in Requests :
                  req[r].pc # "got" /\ req'[r].pc = "got" =>
                    /\ ~mem'.closed /\ mem'.selected # None
                    /\ req'[r].lease.generation = generation
                    /\ req'[r].lease.source = mem'.selected
                    /\ req'[r].lease.revision = mem'.revision
                    /\ req'[r].lease.cache = mem'.cache
<1>1. IndInv /\ [Next]_vars => A
    BY NextKeeps DEF Returns, LeaseCurrent
<1>2. IndInv /\ [Next]_vars => [A]_vars
    BY <1>1
<1> QED BY <1>2, Invariance, PTL DEF Spec, GetReturnsCurrent
-----------------------------------------------------------------------------
(* A refused bearer is read again.                                          *)
(*                                                                         *)
(* The broker compares leases by their source, and a request that reports a *)
(* bearer refused recognises it only under the source's revision: so a lease *)
(* of the selected source must be of the revision there is.  A source is    *)
(* selected once, when it is made, and never again after another.          *)

\* A lease names its source's account, and the present revision if its source
\* is the one selected.
Known(m, lease) ==
    lease # None =>
      /\ lease.source \in DOMAIN m.sources
      /\ lease.generation = m.sources[lease.source].generation
      /\ lease.source = m.selected => lease.revision = m.revision

\* A flight that is told done has a lease, and one that began has a promise.
Told(fl) ==
    /\ fl.promise = "done" => fl.lease # None
    /\ fl.acq # "none" => fl.promise # "none"

\* The flight that may be joined is under way.
Slot(m) == m.inflight # None => m.flight[m.inflight].acq \in UnderWay

Leased(m) ==
    /\ Known(m, m.value) /\ Slot(m)
    /\ \A f \in Flights : Known(m, m.flight[f].lease) /\ Told(m.flight[f])

\* A flight that began for a refused bearer, and its lease.
ReadsForced(fl) ==
    /\ fl.acq \in UnderWay => fl.force
    /\ fl.lease # None => fl.lease.forced

\* The lease has the bearer refused, from the source it was refused of.
Same(refused, lease) ==
    refused # None /\ refused.bearer = lease.bearer /\ refused.source = lease.source

\* What a request knows of what it asked for: the flight a forced get awaits is
\* its own and reads, and what it got is not what it was refused.
Recalls(m, r, q) ==
    /\ Known(m, q.lease) /\ Known(m, q.refused)
    /\ q.pc = "await" =>
         /\ m.flight[q.flight].acq # "none"
         /\ q.force => q.flight[1] = r /\ ReadsForced(m.flight[q.flight])
    /\ q.pc = "got" =>
         /\ q.lease # None
         /\ Same(q.refused, q.lease) => q.lease.forced \/ (q.attempt = 1 /\ ~q.force)

Remembered(m) == Leased(m) /\ \A r \in Requests : Recalls(m, r, req[r])

Recall == Remembered(mem)

\* From m to n the sources keep their accounts, none is selected again, and the
\* value is only dropped.
Retained(m, n) ==
    /\ \A s \in DOMAIN m.sources :
         s \in DOMAIN n.sources /\ n.sources[s].generation = m.sources[s].generation
    /\ \/ n.selected = None \/ n.selected \notin DOMAIN m.sources
       \/ n.selected = m.selected /\ n.revision = m.revision
    /\ n.value \in {m.value, None}

\* Besides, the flights are what they were, but for promises that change.
Quiet(m, n) ==
    /\ Retained(m, n) /\ n.inflight \in {m.inflight, None}
    /\ \A f \in Flights :
         /\ n.flight[f].acq = m.flight[f].acq /\ n.flight[f].force = m.flight[f].force
         /\ n.flight[f].lease = m.flight[f].lease
         /\ n.flight[f].promise \in {m.flight[f].promise, "changed"}

\* Besides, the flights of others than r go on as they began, and those that
\* others await are not forgotten.
Passes(r, m, n) ==
    /\ Retained(m, n) /\ (Slot(m) => Slot(n))
    /\ \A f \in Flights :
         /\ n.flight[f].lease \in {m.flight[f].lease, None}
         /\ Told(m.flight[f]) => Told(n.flight[f])
         /\ f[1] # r /\ n.flight[f].acq \in UnderWay =>
              m.flight[f].acq \in UnderWay /\ n.flight[f].force = m.flight[f].force
         /\ /\ m.flight[f].acq # "none"
            /\ \E q \in Requests \ {r} : req[q].pc = "await" /\ req[q].flight = f
            => n.flight[f].acq # "none"

LEMMA SourcesAreNumbers ==
    ASSUME NEW m, BrokerOK(m)
    PROVE  /\ m \in Brokers /\ m.sources \in Seq(Sources)
           /\ DOMAIN m.sources \subseteq Nat /\ None \notin DOMAIN m.sources
           /\ m.selected \in DOMAIN m.sources \cup {None}
           /\ m.flight \in [Flights -> FlightStates] /\ m.revision \in Nat
           /\ m.inflight \in Flights \cup {None}
<1>1. m \in Brokers /\ m.sources \in Seq(Sources)
    BY DEF BrokerOK, Brokers
<1>2. DOMAIN m.sources = 1 .. Len(m.sources) /\ Len(m.sources) \in Nat
    BY <1>1
<1>3. DOMAIN m.sources \subseteq Nat
    BY <1>2
<1> QED BY <1>1, <1>3, BrokerAssumption DEF BrokerOK, Brokers

\* A lease stays known.
LEMMA RetainedKeepsKnown ==
    ASSUME NEW m, BrokerOK(m), NEW n, Retained(m, n), NEW lease, Known(m, lease)
    PROVE  Known(n, lease)
<1>1. None \notin DOMAIN m.sources
    BY SourcesAreNumbers
<1> QED BY <1>1 DEF Retained, Known

LEMMA PassesKeepsLeased ==
    ASSUME NEW m, BrokerOK(m), NEW r, NEW n, Passes(r, m, n), Leased(m)
    PROVE  Leased(n)
<1>1. Retained(m, n) /\ Slot(n) /\ Known(m, m.value)
    BY DEF Passes, Leased
<1>2. Known(n, n.value)
  <2>1. n.value \in {m.value, None}
      BY <1>1 DEF Retained
  <2>2. Known(n, m.value)
      BY <1>1, RetainedKeepsKnown
  <2> QED BY <2>1, <2>2 DEF Known
<1>3. ASSUME NEW f \in Flights PROVE Known(n, n.flight[f].lease) /\ Told(n.flight[f])
  <2>1. /\ n.flight[f].lease \in {m.flight[f].lease, None}
        /\ Told(n.flight[f])
      BY DEF Passes, Leased
  <2>2. Known(m, m.flight[f].lease)
      BY DEF Leased
  <2>3. Known(n, m.flight[f].lease)
      BY <1>1, <2>2, RetainedKeepsKnown
  <2> QED BY <2>1, <2>3 DEF Known
<1> QED BY <1>1, <1>2, <1>3 DEF Leased

\* What a request knows stays so while others go on.
LEMMA PassesKeepsRecalls ==
    ASSUME NEW m, BrokerOK(m), NEW r, NEW n, Passes(r, m, n), NEW q \in Requests \ {r},
           RequestOK(req[q]), Recalls(m, q, req[q])
    PROVE  Recalls(n, q, req[q])
<1> DEFINE p == req[q]
           f == p.flight
<1>1. Known(n, p.lease) /\ Known(n, p.refused)
  <2>1. Retained(m, n) /\ Known(m, p.lease) /\ Known(m, p.refused)
      BY DEF Passes, Recalls
  <2> QED BY <2>1, RetainedKeepsKnown
<1>2. ASSUME p.pc = "await" PROVE n.flight[f].acq # "none"
    BY <1>2 DEF Recalls, Passes, RequestOK
<1>3. ASSUME p.pc = "await", p.force
      PROVE  f[1] = q /\ ReadsForced(n.flight[f])
  <2>1. f \in Flights /\ f[1] = q /\ q # r /\ ReadsForced(m.flight[f])
      BY <1>3 DEF Recalls, RequestOK
  <2>2. /\ n.flight[f].lease \in {m.flight[f].lease, None}
        /\ n.flight[f].acq \in UnderWay =>
             m.flight[f].acq \in UnderWay /\ n.flight[f].force = m.flight[f].force
      BY <2>1 DEF Passes
  <2> QED BY <2>1, <2>2 DEF ReadsForced
<1> QED BY <1>1, <1>2, <1>3 DEF Recalls

LEMMA RetainedIsTransitive ==
    ASSUME NEW l, NEW m, NEW n, Retained(l, m), Retained(m, n)
    PROVE  Retained(l, n)
BY DEF Retained

LEMMA PassesIsTransitive ==
    ASSUME NEW r, NEW l, NEW m, NEW n, Passes(r, l, m), Passes(r, m, n)
    PROVE  Passes(r, l, n)
<1>1. Retained(l, n) /\ (Slot(l) => Slot(n))
    BY RetainedIsTransitive DEF Passes
<1>2. ASSUME NEW f \in Flights
      PROVE  /\ n.flight[f].lease \in {l.flight[f].lease, None}
             /\ Told(l.flight[f]) => Told(n.flight[f])
             /\ f[1] # r /\ n.flight[f].acq \in UnderWay =>
                  l.flight[f].acq \in UnderWay /\ n.flight[f].force = l.flight[f].force
             /\ /\ l.flight[f].acq # "none"
                /\ \E q \in Requests \ {r} : req[q].pc = "await" /\ req[q].flight = f
                => n.flight[f].acq # "none"
    BY DEF Passes
<1> QED BY <1>1, <1>2 DEF Passes

LEMMA QuietIsTransitive ==
    ASSUME NEW l, NEW m, NEW n, Quiet(l, m), Quiet(m, n)
    PROVE  Quiet(l, n)
<1>1. Retained(l, n)
    BY RetainedIsTransitive DEF Quiet
<1> QED BY <1>1 DEF Quiet

LEMMA QuietIsReflexive ==
    ASSUME NEW m
    PROVE  Quiet(m, m)
BY DEF Quiet, Retained

LEMMA QuietPasses ==
    ASSUME NEW r, NEW m, BrokerOK(m), NEW n, Quiet(m, n)
    PROVE  Passes(r, m, n)
<1>1. Slot(m) => Slot(n)
  <2>1. m.inflight \in Flights \cup {None}
      BY SourcesAreNumbers
  <2> QED BY <2>1 DEF Slot, Quiet
<1> QED BY <1>1 DEF Passes, Quiet, Told

\* Drop, publish and retire are quiet.
LEMMA DropIsQuiet ==
    ASSUME NEW m, BrokerOK(m)
    PROVE  Quiet(m, Drop(m)) /\ Drop(m).inflight = None /\ Drop(m).value = None
<1> DEFINE F == IF m.inflight = None THEN m.flight
                ELSE Settle(m.flight, m.inflight, "changed")
           d == [m EXCEPT !.cache = m.cache + 1, !.value = None, !.inflight = None,
                          !.flight = F]
<1>1. m \in Brokers /\ m.flight \in [Flights -> FlightStates]
    BY SourcesAreNumbers
<1>2. ASSUME NEW f \in Flights
      PROVE  /\ F[f].acq = m.flight[f].acq /\ F[f].force = m.flight[f].force
             /\ F[f].lease = m.flight[f].lease
             /\ F[f].promise \in {m.flight[f].promise, "changed"}
    BY <1>1 DEF Settle, FlightStates
<1>3. Drop(m) = d
    BY DEF Drop
<1> HIDE DEF F
<1>4. /\ d.value = None /\ d.inflight = None /\ d.selected = m.selected
      /\ d.revision = m.revision /\ d.sources = m.sources /\ d.flight = F
    BY <1>1 DEF Brokers
<1> HIDE DEF d
<1> QED BY <1>2, <1>3, <1>4 DEF Quiet, Retained

LEMMA PublishIsQuiet ==
    ASSUME NEW m \in Brokers, NEW source, NEW force \in BOOLEAN, NEW n,
           source = None \/ source \notin DOMAIN m.sources,
           n = Publish(m, source, force)
    PROVE  Quiet(m, n) /\ n.selected = source /\ n.sources = m.sources
<1> DEFINE p == [m EXCEPT !.selected = source, !.revision = m.revision + 1]
<1>1. m \in Brokers /\ m.flight \in [Flights -> FlightStates]
    BY DEF Brokers
<1>2. CASE n = m /\ m.selected = source
    BY <1>2, QuietIsReflexive
<1>3. CASE n = p
  <2>1. /\ p.selected = source /\ p.sources = m.sources /\ p.value = m.value
        /\ p.inflight = m.inflight /\ p.flight = m.flight
      BY <1>1 DEF Brokers
  <2> HIDE DEF p
  <2> QED BY <1>3, <2>1 DEF Quiet, Retained
<1>4. CASE n = Drop(p)
  <2> DEFINE F == IF m.inflight = None THEN m.flight
                  ELSE Settle(m.flight, m.inflight, "changed")
             d == [m EXCEPT !.selected = source, !.revision = m.revision + 1,
                            !.cache = m.cache + 1, !.value = None, !.inflight = None,
                            !.flight = F]
  <2>1. ASSUME NEW f \in Flights
        PROVE  /\ F[f].acq = m.flight[f].acq /\ F[f].force = m.flight[f].force
               /\ F[f].lease = m.flight[f].lease
               /\ F[f].promise \in {m.flight[f].promise, "changed"}
      BY <1>1 DEF Settle, FlightStates
  <2>2. p.inflight = m.inflight /\ p.flight = m.flight /\ p.cache = m.cache
      BY <1>1 DEF Brokers
  <2>3. Drop(p) = [p EXCEPT !.cache = m.cache + 1, !.value = None, !.inflight = None,
                            !.flight = F]
    <3> HIDE DEF p
    <3> QED BY <2>2 DEF Drop
  <2> HIDE DEF F
  <2>4. Drop(p) = d
      BY <1>1, <2>3 DEF Brokers
  <2>5. /\ d.selected = source /\ d.sources = m.sources /\ d.value = None
        /\ d.inflight = None /\ d.flight = F
      BY <1>1 DEF Brokers
  <2> HIDE DEF d
  <2> QED BY <1>4, <2>1, <2>4, <2>5 DEF Quiet, Retained
<1>5. (n = m /\ m.selected = source) \/ n = p \/ n = Drop(p)
    BY DEF Publish
<1> QED BY <1>2, <1>3, <1>4, <1>5

\* What is left of a source is of the account there is.
LEMMA CurrentIsQuiet ==
    ASSUME NEW m, BrokerOK(m)
    PROVE  /\ Quiet(m, Current(m)) /\ Current(m).sources = m.sources
           /\ Current(m).selected # None =>
                Current(m).sources[Current(m).selected].generation = generation
<1>1. CASE m.selected # None /\ m.sources[m.selected].generation # generation
  <2> DEFINE n == Publish(m, None, FALSE)
  <2>1. Current(m) = n
      BY <1>1 DEF Current
  <2>2. n = Publish(m, None, FALSE) /\ FALSE \in BOOLEAN
      OBVIOUS
  <2> HIDE DEF n
  <2>3. Quiet(m, n) /\ n.selected = None /\ n.sources = m.sources
    <3> DEFINE force == FALSE
    <3>1. force \in BOOLEAN /\ n = Publish(m, None, force) /\ m \in Brokers
        BY <2>2, SourcesAreNumbers
    <3> HIDE DEF force
    <3> QED BY <3>1, PublishIsQuiet
  <2> QED BY <2>1, <2>3
<1>2. CASE ~(m.selected # None /\ m.sources[m.selected].generation # generation)
    BY <1>2, QuietIsReflexive DEF Current
<1> QED BY <1>1, <1>2

LEMMA SourceIsQuiet ==
    ASSUME AccountOK, NEW m, BrokerOK(m)
    PROVE  Quiet(m, Source(m).m)
<1>1. CASE m.paused = generation
    BY <1>1, QuietIsReflexive DEF Source
<1>2. CASE m.paused # generation
  <2> DEFINE u == [m EXCEPT !.paused = None]
             c == Current(u)
             src == [generation |-> generation, served |-> None, last |-> None,
                     refreshing |-> FALSE]
             n == [c EXCEPT !.sources = Append(c.sources, src)]
             p == Publish(n, Len(n.sources), FALSE)
  <2>1. Source(m).m = IF c.selected # None THEN c ELSE p
      BY <1>2 DEF Source
  <2>2. BrokerOK(u) /\ Quiet(m, u)
    <3>1. m \in Brokers
        BY DEF BrokerOK
    <3>2. /\ u \in Brokers /\ u.value = m.value /\ u.cache = m.cache
          /\ u.selected = m.selected /\ u.revision = m.revision /\ u.closed = m.closed
          /\ u.sources = m.sources /\ u.flight = m.flight /\ u.inflight = m.inflight
        BY <3>1 DEF Brokers
    <3> HIDE DEF u
    <3>3. switch \notin {"stopping", "moved"}
        BY <1>2 DEF BrokerOK
    <3> QED BY <3>2, <3>3 DEF BrokerOK, ValueOK, KeyOK, Quiet, Retained
  <2> HIDE DEF u
  <2>3. BrokerOK(c) /\ Quiet(m, c)
      BY <2>2, CurrentGoesOn, CurrentIsQuiet, QuietIsTransitive
  <2> HIDE DEF c
  <2>4. CASE c.selected # None
      BY <2>1, <2>3, <2>4
  <2>5. CASE c.selected = None
    <3>1. c \in Brokers /\ c.sources \in Seq(Sources) /\ src \in Sources
        BY <2>3, SourcesAreNumbers DEF Sources, AccountOK
    <3> DEFINE a == Append(c.sources, src)
    <3>2. /\ a \in Seq(Sources) /\ Len(a) \notin DOMAIN c.sources /\ Len(a) \in Nat
          /\ \A s \in DOMAIN c.sources : s \in DOMAIN a /\ a[s] = c.sources[s]
      <4> HIDE DEF src
      <4> QED BY <3>1
    <3>3. n = [c EXCEPT !.sources = a]
        OBVIOUS
    <3> HIDE DEF src, a, n
    <3>4. /\ n.sources = a /\ n.value = c.value /\ n.selected = c.selected
          /\ n.revision = c.revision /\ n.closed = c.closed /\ n.inflight = c.inflight
          /\ n.flight = c.flight /\ n.cache = c.cache /\ DOMAIN n = DOMAIN c
        BY <3>1, <3>3 DEF Brokers
    <3> DEFINE k == Len(n.sources)
               q == [n EXCEPT !.selected = k, !.revision = n.revision + 1]
    <3>5. k \notin DOMAIN c.sources /\ k # None
        BY <3>2, <3>4, BrokerAssumption
    <3>6. p = q \/ p = Drop(q)
      <4>1. n.selected # k
          BY <2>5, <3>4, <3>5
      <4> QED BY <4>1 DEF Publish
    <3>7. /\ q.sources = a /\ q.value = c.value /\ q.selected = k
          /\ q.inflight = c.inflight /\ q.flight = c.flight
          /\ DOMAIN q = DOMAIN c /\ q.cache = c.cache
      <4> HIDE DEF k
      <4> QED BY <3>1, <3>4 DEF Brokers
    <3> HIDE DEF k, q, p
    <3>8. Quiet(c, q)
        BY <3>2, <3>5, <3>7 DEF Quiet, Retained
    <3>9. Quiet(c, Drop(q))
      <4> DEFINE F == IF c.inflight = None THEN c.flight
                      ELSE Settle(c.flight, c.inflight, "changed")
                 d == [q EXCEPT !.cache = c.cache + 1, !.value = None, !.inflight = None,
                                !.flight = F]
      <4>1. c.flight \in [Flights -> FlightStates]
          BY <2>3, SourcesAreNumbers
      <4>2. ASSUME NEW f \in Flights
            PROVE  /\ F[f].acq = c.flight[f].acq /\ F[f].force = c.flight[f].force
                   /\ F[f].lease = c.flight[f].lease
                   /\ F[f].promise \in {c.flight[f].promise, "changed"}
          BY <4>1 DEF Settle, FlightStates
      <4>3. Drop(q) = d
          BY <3>7 DEF Drop
      <4> HIDE DEF F
      <4>4. /\ d.value = None /\ d.inflight = None /\ d.selected = k
            /\ d.sources = a /\ d.flight = F
          BY <3>1, <3>7 DEF Brokers
      <4> HIDE DEF d
      <4> QED BY <3>2, <3>5, <4>2, <4>3, <4>4 DEF Quiet, Retained
    <3> QED BY <2>1, <2>3, <2>5, <3>6, <3>8, <3>9, QuietIsTransitive
  <2> QED BY <2>4, <2>5
<1> QED BY <1>1, <1>2

\* A new flight is its request's own and reads as it was asked to.
LEMMA FlyPasses ==
    ASSUME AccountOK, NEW m, BrokerOK(m), NEW f \in Flights, NEW force \in BOOLEAN,
           Slot(m), NEW fly, fly = Fly(m, f, force)
    PROVE  /\ Passes(f[1], m, fly.m) /\ fly.flight \in Flights
           /\ fly.m.flight[fly.flight].acq # "none"
           /\ m.inflight = None =>
                /\ fly.flight = f
                /\ force => ReadsForced(fly.m.flight[f])
<1> DEFINE joined == m.inflight # None /\ Matches(m, m.flight[m.inflight].key)
           fl == [NoFlight EXCEPT !.acq = "reading", !.promise = "pending",
                                  !.key = Key(m), !.force = force]
           new == [m EXCEPT !.inflight = f, !.flight[f] = fl]
           s == Source(new)
           asks == s.ok /\ Matches(s.m, new.flight[f].key)
           broken == [s.m EXCEPT !.flight[f].acq = "broken"]
<1>1. /\ m \in Brokers /\ m.flight \in [Flights -> FlightStates]
      /\ m.inflight \in Flights \cup {None}
    BY SourcesAreNumbers
<1>2. CASE joined
  <2>1. fly.m = m /\ fly.flight = m.inflight /\ m.inflight # None /\ m.inflight \in Flights
      BY <1>1, <1>2 DEF Fly
  <2>2. m.flight[m.inflight].acq # "none"
      BY <2>1 DEF Slot, UnderWay, Working
  <2>3. Passes(f[1], m, m)
      BY QuietIsReflexive, QuietPasses
  <2> QED BY <2>1, <2>2, <2>3
<1>3. CASE ~joined
  <2>1. fly.flight = f /\ fly.m = IF asks THEN s.m ELSE broken
      BY <1>3 DEF Fly
  <2>2. Key(m) \in Keys /\ Key(m).cache = m.cache /\ m.cache \in Nat
      BY <1>1, KeyIsTyped DEF Brokers
  <2>3. /\ fl \in FlightStates /\ fl.key = Key(m) /\ fl.lease = None /\ fl.acq = "reading"
        /\ fl.promise = "pending" /\ fl.force = force
      BY <2>2 DEF FlightStates, NoFlight
  <2> HIDE DEF fl
  <2> DEFINE u == [m EXCEPT !.inflight = f]
  <2>4. /\ BrokerOK(u) /\ u.sources = m.sources /\ u.flight = m.flight
        /\ u.selected = m.selected /\ u.revision = m.revision /\ u.inflight = f
        /\ u.value = m.value /\ u.cache = m.cache
    <3>1. /\ u \in Brokers /\ u.value = m.value /\ u.cache = m.cache
          /\ u.selected = m.selected /\ u.revision = m.revision /\ u.closed = m.closed
          /\ u.paused = m.paused /\ u.sources = m.sources /\ u.flight = m.flight
          /\ u.inflight = f
        BY <1>1 DEF Brokers
    <3> HIDE DEF u, fl
    <3> QED BY <3>1 DEF BrokerOK, ValueOK, KeyOK
  <2>5. new = [u EXCEPT !.flight[f] = fl]
      BY <1>1 DEF Brokers
  <2>6. u \in Brokers
      BY <2>4 DEF BrokerOK
  <2> HIDE DEF u, new
  <2>7. BrokerOK(new)
      BY <2>2, <2>3, <2>4, <2>5, FlightSet DEF OfItsAccount, KeyOK
  <2>8. /\ new.sources = m.sources /\ new.selected = m.selected
        /\ new.revision = m.revision /\ new.inflight = f /\ new.value = m.value
        /\ new.flight = [m.flight EXCEPT ![f] = fl]
      BY <2>4, <2>5, <2>6 DEF Brokers
  <2> DEFINE w == s.m
             n == fly.m
  <2>9. Quiet(new, w) /\ w \in Brokers /\ w.flight \in [Flights -> FlightStates]
      BY <2>7, SourceIsQuiet, SourceGoesOn, SourcesAreNumbers
  <2>10. n = w \/ n = [w EXCEPT !.flight[f].acq = "broken"]
      BY <2>1
  <2> HIDE DEF w, n
  <2>11. /\ n.sources = w.sources /\ n.selected = w.selected /\ n.revision = w.revision
         /\ n.value = w.value /\ n.inflight = w.inflight
         /\ \A g \in Flights :
              /\ g # f => n.flight[g] = w.flight[g]
              /\ n.flight[g].force = w.flight[g].force
              /\ n.flight[g].lease = w.flight[g].lease
              /\ n.flight[g].promise = w.flight[g].promise
         /\ n.flight[f].acq \in {w.flight[f].acq, "broken"}
    <3>1. CASE n = w
        BY <3>1
    <3>2. CASE n = [w EXCEPT !.flight[f].acq = "broken"]
        BY <2>9, <3>2 DEF Brokers, FlightStates
    <3> QED BY <2>10, <3>1, <3>2
  <2>12. /\ n.flight[f].acq \in {"reading", "broken"} /\ n.flight[f].lease = None
         /\ n.flight[f].force = force /\ n.flight[f].promise \in {"pending", "changed"}
      BY <1>1, <2>3, <2>8, <2>9, <2>11 DEF Quiet
  <2>13. \A g \in Flights \ {f} :
           /\ n.flight[g].acq = m.flight[g].acq /\ n.flight[g].force = m.flight[g].force
           /\ n.flight[g].lease = m.flight[g].lease
           /\ n.flight[g].promise \in {m.flight[g].promise, "changed"}
      BY <1>1, <2>8, <2>9, <2>11 DEF Quiet
  <2>14. Retained(m, n) /\ n.inflight \in {f, None}
      BY <2>8, <2>9, <2>11 DEF Quiet, Retained
  <2>15. Slot(n)
      BY <2>12, <2>14 DEF Slot, UnderWay, Working
  <2>16. Passes(f[1], m, n)
    <3>1. ASSUME NEW g \in Flights
          PROVE  /\ n.flight[g].lease \in {m.flight[g].lease, None}
                 /\ Told(m.flight[g]) => Told(n.flight[g])
                 /\ g[1] # f[1] /\ n.flight[g].acq \in UnderWay =>
                      m.flight[g].acq \in UnderWay /\ n.flight[g].force = m.flight[g].force
                 /\ m.flight[g].acq # "none" => n.flight[g].acq # "none"
      <4>1. CASE g = f
          BY <2>12, <4>1 DEF Told
      <4>2. CASE g # f
          BY <2>13, <4>2 DEF Told
      <4> QED BY <4>1, <4>2
    <3> QED BY <2>14, <2>15, <3>1 DEF Passes
  <2>17. ReadsForced(n.flight[f]) \/ ~force
      BY <2>12 DEF ReadsForced
  <2> QED BY <2>1, <2>12, <2>16, <2>17 DEF n
<1> QED BY <1>2, <1>3

\* A bearer that was refused, and is still the value, is dropped.
LEMMA PrepareIsQuiet ==
    ASSUME NEW m, BrokerOK(m), NEW refused, NEW old \in BOOLEAN, NEW p,
           p = Prepare(m, refused, old)
    PROVE  /\ Quiet(m, p.m)
           /\ p.force => p.m.inflight = None /\ p.m.value = None
<1> DEFINE c == Current(m)
           v == c.value
           rejected == /\ v # None /\ refused # None
                       /\ LeaseCurrent(c, refused) /\ refused.bearer = v.bearer
           due == v # None /\ (~LeaseCurrent(c, v) \/ old \/ v.bearer \in aged)
<1>1. p.m = (IF rejected \/ due THEN Drop(c) ELSE c) /\ p.force = rejected
    BY DEF Prepare
<1>2. BrokerOK(c) /\ Quiet(m, c)
    BY CurrentGoesOn, CurrentIsQuiet
<1>3. CASE rejected \/ due
  <2>1. p.m = Drop(c)
      BY <1>1, <1>3
  <2> HIDE DEF c
  <2> QED BY <1>2, <2>1, DropIsQuiet, QuietIsTransitive
<1>4. CASE ~(rejected \/ due)
    BY <1>1, <1>2, <1>4
<1> QED BY <1>3, <1>4

\* An attempt that is forced, or finds the bearer refused in the cache, awaits a
\* flight of its own that reads.
LEMMA AttemptPasses ==
    ASSUME AccountOK, NEW m, BrokerOK(m), Slot(m), NEW f \in Flights, NEW refused,
           NEW forced \in BOOLEAN, NEW old \in BOOLEAN, NEW a,
           a = Attempt(m, f, refused, forced, old),
           forced => m.inflight = None /\ m.value = None
    PROVE  /\ Passes(f[1], m, a.m)
           /\ a.kind = "lease" => ~a.force /\ a.lease = a.m.value /\ a.lease # None
           /\ a.kind = "await" =>
                /\ a.m.flight[a.flight].acq # "none"
                /\ a.force => a.flight = f /\ ReadsForced(a.m.flight[f])
<1> DEFINE p == Prepare(m, refused, old)
           force == p.force \/ forced
           s == Fly(Current(p.m), f, force)
<1>1. CASE m.closed
  <2>1. a = [kind |-> "failed", m |-> m]
      BY <1>1 DEF Attempt
  <2> QED BY <2>1, QuietIsReflexive, QuietPasses
<1>2. CASE ~m.closed
  <2>1. a = IF p.m.value # None
            THEN [kind |-> "lease", m |-> p.m, lease |-> p.m.value, force |-> force]
            ELSE [kind |-> "await", m |-> s.m, flight |-> s.flight, force |-> force]
      BY <1>2 DEF Attempt
  <2>2. /\ BrokerOK(p.m) /\ p.force \in BOOLEAN /\ Quiet(m, p.m)
        /\ p.force => p.m.inflight = None /\ p.m.value = None
      BY PrepareGoesOn, PrepareIsQuiet
  <2>3. force => p.m.inflight = None /\ p.m.value = None
      BY <2>2 DEF Quiet, Retained
  <2>4. force \in BOOLEAN
      BY <2>2
  <2>5. CASE p.m.value # None
    <3> HIDE DEF p, force
    <3>1. Passes(f[1], m, p.m)
        BY <2>2, QuietPasses
    <3> QED BY <2>1, <2>3, <2>5, <3>1
  <2>6. CASE p.m.value = None
    <3> DEFINE c == Current(p.m)
    <3>1. /\ a.kind = "await" /\ a.m = s.m /\ a.flight = s.flight /\ a.force = force
        BY <2>1, <2>6
    <3> HIDE DEF p, force
    <3>2. BrokerOK(c) /\ Quiet(m, c) /\ Quiet(p.m, c)
        BY <2>2, CurrentGoesOn, CurrentIsQuiet, QuietIsTransitive
    <3>3. Passes(f[1], m, c)
        BY <3>2, QuietPasses
    <3>4. Slot(c) /\ (force => c.inflight = None)
        BY <2>3, <3>2, <3>3 DEF Passes, Quiet
    <3> DEFINE fly == s
    <3>5. fly = Fly(c, f, force)
        OBVIOUS
    <3> HIDE DEF c
    <3> HIDE DEF fly
    <3>6. /\ Passes(f[1], c, fly.m)
          /\ fly.m.flight[fly.flight].acq # "none"
          /\ c.inflight = None =>
               fly.flight = f /\ (force => ReadsForced(fly.m.flight[f]))
        BY <2>4, <3>2, <3>4, <3>5, FlyPasses
    <3>7. Passes(f[1], m, fly.m)
        BY <3>3, <3>6, PassesIsTransitive
    <3>8. a.m = fly.m /\ a.flight = fly.flight
        BY <3>1 DEF fly
    <3> QED BY <3>1, <3>4, <3>6, <3>7, <3>8
  <2> QED BY <2>5, <2>6
<1> QED BY <1>1, <1>2

\* A get of r went on from m.
Asked(r, m) == Passes(r, m, mem') /\ Recalls(mem', r, req'[r])

\* A lease that is current has the bearer refused only if the request sees it.
LEMMA RefusedIsSeen ==
    ASSUME NEW m, NEW refused, NEW lease, Known(m, refused), Known(m, lease),
           lease # None, LeaseCurrent(m, lease), Same(refused, lease)
    PROVE  Refuses(refused, lease)
BY DEF Known, LeaseCurrent, Same, Refuses

LEMMA OverRecalls ==
    ASSUME NEW m, NEW r
    PROVE  Recalls(m, r, Over)
<1>1. Over.lease = None /\ Over.refused = None /\ Over.pc = "over"
    BY DEF Over, NoRequest
<1> QED BY <1>1 DEF Recalls, Known

LEMMA AwaitAsks ==
    ASSUME NEW r \in Requests, RequestsOK, NEW q, RequestOK(q), NEW attempt \in 0 .. 1,
           NEW m, NEW a, Attempted(m, a), Await(r, q, attempt, a),
           Passes(r, m, a.m), Known(a.m, q.lease), Known(a.m, q.refused),
           a.kind = "await" =>
             /\ a.m.flight[a.flight].acq # "none"
             /\ a.force => a.flight[1] = r /\ ReadsForced(a.m.flight[a.flight]),
           a.kind = "lease" =>
             /\ a.lease # None /\ Known(a.m, a.lease)
             /\ Same(q.refused, a.lease) => a.lease.forced \/ (attempt = 1 /\ ~a.force)
    PROVE  Asked(r, m)
<1> DEFINE tried == [q EXCEPT !.attempt = attempt, !.force = a.force]
           w == [tried EXCEPT !.pc = "await", !.flight = a.flight]
           g == [tried EXCEPT !.pc = "got", !.flight = None, !.lease = a.lease]
<1>1. mem' = a.m /\ q \in RequestStates /\ DOMAIN req = Requests
    BY DEF Await, RequestOK, RequestsOK
<1>2. req'[r] = CASE a.kind = "failed" -> Over
                  [] a.kind = "await"  -> w
                  [] a.kind = "lease"  -> IF ~q.holds THEN Over ELSE g
    BY <1>1 DEF Await
<1>3. CASE a.kind = "failed" \/ (a.kind = "lease" /\ ~q.holds)
  <2>1. req'[r] = Over
      BY <1>2, <1>3
  <2> QED BY <1>1, <2>1, OverRecalls DEF Asked
<1>4. CASE a.kind = "await"
  <2>1. req'[r] = w
      BY <1>2, <1>4
  <2>2. /\ w.lease = q.lease /\ w.refused = q.refused /\ w.pc = "await"
        /\ w.flight = a.flight /\ w.force = a.force
      BY <1>1 DEF RequestStates
  <2> HIDE DEF w
  <2> QED BY <1>1, <1>4, <2>1, <2>2 DEF Asked, Recalls
<1>5. CASE a.kind = "lease" /\ q.holds
  <2>1. req'[r] = g
      BY <1>2, <1>5
  <2>2. /\ g.lease = a.lease /\ g.refused = q.refused /\ g.pc = "got"
        /\ g.force = a.force /\ g.attempt = attempt
      BY <1>1 DEF RequestStates
  <2> HIDE DEF g
  <2> QED BY <1>1, <1>5, <2>1, <2>2 DEF Asked, Recalls
<1> QED BY <1>3, <1>4, <1>5 DEF Attempted

\* What an attempt comes to is what the request may await or take.
LEMMA AttemptAsks ==
    ASSUME AccountOK, NEW r \in Requests, RequestsOK, NEW q, RequestOK(q), q.gets > 0,
           NEW attempt \in 0 .. 1, NEW m, BrokerOK(m), FlightsOK(m), Leased(m),
           Known(m, q.lease), Known(m, q.refused), NEW forced \in BOOLEAN,
           NEW old \in BOOLEAN, NEW a,
           a = Attempt(m, FlightOf(r, q, attempt), q.refused, forced, old),
           Await(r, q, attempt, a),
           forced => m.inflight = None /\ m.value = None,
           a.kind = "lease" /\ attempt = 0 => ~Refuses(q.refused, a.lease)
    PROVE  Asked(r, m)
<1> DEFINE f == FlightOf(r, q, attempt)
<1>1. f \in Flights /\ f[1] = r
    BY FlightOfGet DEF FlightOf
<1>2. a = Attempt(m, f, q.refused, forced, old)
    OBVIOUS
<1> HIDE DEF f
<1>3. Attempted(m, a)
    BY <1>1, <1>2, AttemptEnds
<1>4. /\ Passes(r, m, a.m)
      /\ a.kind = "lease" => ~a.force /\ a.lease = a.m.value /\ a.lease # None
      /\ a.kind = "await" =>
           /\ a.m.flight[a.flight].acq # "none"
           /\ a.force => a.flight = f /\ ReadsForced(a.m.flight[f])
  <2>1. Slot(m)
      BY DEF Leased
  <2>2. /\ Passes(f[1], m, a.m)
        /\ a.kind = "lease" => ~a.force /\ a.lease = a.m.value /\ a.lease # None
        /\ a.kind = "await" =>
             /\ a.m.flight[a.flight].acq # "none"
             /\ a.force => a.flight = f /\ ReadsForced(a.m.flight[f])
      BY <1>1, <1>2, <2>1, AttemptPasses
  <2> QED BY <1>1, <2>2
<1>5. Leased(a.m) /\ Known(a.m, q.lease) /\ Known(a.m, q.refused)
  <2>1. Retained(m, a.m)
      BY <1>4 DEF Passes
  <2> QED BY <1>4, <2>1, PassesKeepsLeased, RetainedKeepsKnown
<1>6. ASSUME a.kind = "lease"
      PROVE  /\ a.lease # None /\ Known(a.m, a.lease)
             /\ Same(q.refused, a.lease) => a.lease.forced \/ (attempt = 1 /\ ~a.force)
  <2>1. a.lease # None /\ a.lease = a.m.value /\ ~a.force /\ LeaseCurrent(a.m, a.lease)
      BY <1>3, <1>4, <1>6 DEF Attempted
  <2>2. Known(a.m, a.lease)
      BY <1>5, <2>1 DEF Leased
  <2>3. attempt = 0 => ~Same(q.refused, a.lease)
      BY <1>5, <1>6, <2>1, <2>2, RefusedIsSeen
  <2> QED BY <2>1, <2>2, <2>3
<1> QED BY <1>1, <1>3, <1>4, <1>5, <1>6, AwaitAsks

LEMMA GetAsks ==
    ASSUME AccountOK, NEW r \in Requests, RequestsOK, NEW q, RequestOK(q), q.gets > 0,
           NEW attempt \in 0 .. 1, NEW m, BrokerOK(m), FlightsOK(m), Leased(m),
           Known(m, q.lease), Known(m, q.refused), NEW forced \in BOOLEAN,
           forced => m.inflight = None /\ m.value = None,
           Get(r, q, m, attempt, forced)
    PROVE  Asked(r, m)
<1>1. PICK old \in BOOLEAN :
        LET a == Attempt(m, FlightOf(r, q, attempt), q.refused, forced, old)
            again == Attempt(Drop(a.m), FlightOf(r, q, 1), q.refused, TRUE, old)
        IN IF /\ a.kind = "lease" /\ attempt = 0
              /\ ~a.force /\ Refuses(q.refused, a.lease)
           THEN Await(r, q, 1, again)
           ELSE Await(r, q, attempt, a)
    BY DEF Get
<1> DEFINE a == Attempt(m, FlightOf(r, q, attempt), q.refused, forced, old)
           d == Drop(a.m)
           again == Attempt(d, FlightOf(r, q, 1), q.refused, TRUE, old)
           seen == a.kind = "lease" /\ attempt = 0 /\ ~a.force /\ Refuses(q.refused, a.lease)
<1>2. FlightOf(r, q, attempt) \in Flights /\ FlightOf(r, q, attempt)[1] = r
    BY FlightOfGet DEF FlightOf
<1>3. Attempted(m, a)
    BY <1>2, AttemptEnds
<1>4. /\ Passes(r, m, a.m)
      /\ a.kind = "lease" => ~a.force
  <2> DEFINE f == FlightOf(r, q, attempt)
  <2>1. Slot(m)
      BY DEF Leased
  <2> DEFINE x == a
  <2>2. x = Attempt(m, f, q.refused, forced, old)
      OBVIOUS
  <2>3. f \in Flights /\ f[1] = r
      BY <1>2
  <2> HIDE DEF f, x
  <2>4. /\ Passes(f[1], m, x.m)
        /\ x.kind = "lease" => ~x.force /\ x.lease = x.m.value /\ x.lease # None
      BY <2>1, <2>2, <2>3, AttemptPasses
  <2> QED BY <2>3, <2>4 DEF x
<1>5. CASE ~seen
  <2>1. Await(r, q, attempt, a)
      BY <1>1, <1>5
  <2>2. a.kind = "lease" /\ attempt = 0 => ~Refuses(q.refused, a.lease)
      BY <1>4, <1>5
  <2> DEFINE x == a
  <2>3. /\ x = Attempt(m, FlightOf(r, q, attempt), q.refused, forced, old)
        /\ Await(r, q, attempt, x)
        /\ x.kind = "lease" /\ attempt = 0 => ~Refuses(q.refused, x.lease)
      BY <2>1, <2>2
  <2> HIDE DEF x, a
  <2> QED BY <2>3, AttemptAsks
<1>6. CASE seen
  <2>1. Await(r, q, 1, again)
      BY <1>1, <1>6
  <2> HIDE DEF a
  <2>2. BrokerOK(a.m) /\ FlightsOK(a.m) /\ Passes(r, m, a.m)
      BY <1>3, <1>4 DEF Attempted, Continued
  <2>3. BrokerOK(d) /\ FlightsOK(d) /\ Passes(r, m, d)
    <3>1. BrokerOK(d) /\ Onward(a.m, d) /\ Quiet(a.m, d)
        BY <2>2, DropGoesOn, DropIsQuiet
    <3> HIDE DEF d
    <3>2. Passes(r, a.m, d)
        BY <2>2, <3>1, QuietPasses
    <3> QED BY <2>2, <3>1, <3>2, OnwardKeepsFlights, PassesIsTransitive
  <2>4. d.inflight = None /\ d.value = None
      BY <2>2, DropIsQuiet
  <2> HIDE DEF d
  <2>5. Leased(d) /\ Known(d, q.lease) /\ Known(d, q.refused)
    <3>1. Retained(m, d)
        BY <2>3 DEF Passes
    <3> QED BY <2>3, <3>1, PassesKeepsLeased, RetainedKeepsKnown
  <2> DEFINE x == again
             one == 1
             true == TRUE
  <2>6. x = Attempt(d, FlightOf(r, q, one), q.refused, true, old) /\ Await(r, q, one, x)
      BY <2>1, Zenon
  <2>a. one \in 0 .. 1 /\ true \in BOOLEAN /\ one # 0
      OBVIOUS
  <2> HIDE DEF x, again, one, true
  <2>7. Asked(r, d)
      BY <2>3, <2>4, <2>5, <2>6, <2>a, AttemptAsks
  <2> QED BY <2>3, <2>7, PassesIsTransitive DEF Asked
<1> QED BY <1>5, <1>6

\* A get that went on from what was left of the broker keeps everyone's memory.
LEMMA AskedKeepsRecall ==
    ASSUME IndInv, Recall, NEW r \in Requests, NEW m, BrokerOK(m), Passes(r, mem, m),
           Asked(r, m), \A q \in Requests \ {r} : req'[q] = req[q]
    PROVE  Recall'
<1>1. Passes(r, mem, mem') /\ Recalls(mem', r, req'[r]) /\ BrokerOK(mem)
    BY PassesIsTransitive DEF Asked, IndInv
<1>2. Leased(mem')
    BY <1>1, PassesKeepsLeased DEF Recall, Remembered
<1>3. ASSUME NEW q \in Requests \ {r} PROVE Recalls(mem', q, req'[q])
  <2>1. RequestOK(req[q]) /\ Recalls(mem, q, req[q]) /\ req'[q] = req[q]
      BY DEF IndInv, RequestsOK, Recall, Remembered
  <2> QED BY <1>1, <2>1, PassesKeepsRecalls
<1> QED BY <1>1, <1>2, <1>3 DEF Recall, Remembered, Leased, Slot

\* What anyone remembers holds while the broker goes on by itself.
LEMMA PassesKeepsRemembered ==
    ASSUME RequestsOK, NEW m, BrokerOK(m), NEW n, Passes(None, m, n), Remembered(m)
    PROVE  Remembered(n)
<1>1. Leased(n)
    BY PassesKeepsLeased DEF Remembered
<1>2. ASSUME NEW q \in Requests PROVE Recalls(n, q, req[q])
  <2>1. RequestOK(req[q]) /\ Recalls(m, q, req[q])
      BY DEF RequestsOK, Remembered
  <2>2. q \in Requests \ {None}
      BY BrokerAssumption
  <2> QED BY <2>1, <2>2, PassesKeepsRecalls
<1> QED BY <1>1, <1>2 DEF Remembered

LEMMA RememberedIsRecalled ==
    ASSUME Remembered(mem'), req' = req
    PROVE  Recall'
BY DEF Recall, Remembered, Leased, Slot

LEMMA RecallKnown ==
    ASSUME IndInv, Recall, NEW r \in Requests
    PROVE  /\ BrokerOK(mem) /\ FlightsOK(mem) /\ AccountOK /\ RequestsOK /\ Leased(mem)
           /\ RequestOK(req[r]) /\ Known(mem, req[r].lease) /\ Known(mem, req[r].refused)
BY DEF IndInv, RequestsOK, Recall, Remembered, Recalls

LEMMA BeginRecalls ==
    ASSUME IndInv, Recall, NEW r \in Requests, Begin(r)
    PROVE  Recall'
<1> DEFINE q == [NoRequest EXCEPT !.holds = TRUE, !.gets = 1]
           no == FALSE
           zero == 0
<1>1. Get(r, q, mem, zero, no)
    BY DEF Begin
<1>2. RequestOK(q) /\ q.gets > 0 /\ q.lease = None /\ q.refused = None
  <2>1. 0 \in 0 .. 2 /\ 1 \in 0 .. 2 /\ 0 \in 0 .. 1 /\ 1 > 0
      OBVIOUS
  <2>2. /\ q \in RequestStates /\ q.gets = 1 /\ q.lease = None /\ q.pc = "new"
        /\ q.refused = None
      BY <2>1 DEF NoRequest, RequestStates
  <2> QED BY <2>1, <2>2 DEF RequestOK, OfItsAccount
<1>3. zero \in 0 .. 1 /\ no \in BOOLEAN /\ ~no
    OBVIOUS
<1>4. Known(mem, q.lease) /\ Known(mem, q.refused)
    BY <1>2 DEF Known
<1> HIDE DEF q, no, zero
<1>5. Asked(r, mem)
    BY <1>1, <1>2, <1>3, <1>4, RecallKnown, GetAsks
<1>6. \A p \in Requests \ {r} : req'[p] = req[p]
    BY BeginKeeps
<1>7. BrokerOK(mem) /\ Passes(r, mem, mem)
    BY MemContinued, QuietIsReflexive, QuietPasses
<1> QED BY <1>5, <1>6, <1>7, AskedKeepsRecall

LEMMA RejectedRecalls ==
    ASSUME IndInv, Recall, NEW r \in Requests, Rejected(r)
    PROVE  Recall'
<1> DEFINE q == [req[r] EXCEPT !.gets = 2, !.refused = req[r].lease]
           no == FALSE
           zero == 0
<1>1. Get(r, q, mem, zero, no)
    BY DEF Rejected
<1>2. /\ RequestOK(q) /\ q.gets > 0 /\ q.lease = req[r].lease
      /\ q.refused = req[r].lease
  <2>1. RequestOK(req[r]) /\ req[r] \in RequestStates
      BY DEF IndInv, RequestsOK, RequestOK
  <2>2. 2 \in 0 .. 2 /\ 2 > 0
      OBVIOUS
  <2>3. /\ q \in RequestStates /\ q.gets = 2 /\ q.lease = req[r].lease
        /\ q.pc = req[r].pc /\ q.flight = req[r].flight /\ q.refused = req[r].lease
      BY <2>1, <2>2 DEF RequestStates
  <2> HIDE DEF q
  <2> QED BY <2>1, <2>2, <2>3 DEF RequestOK
<1>3. zero \in 0 .. 1 /\ no \in BOOLEAN /\ ~no
    OBVIOUS
<1>4. Known(mem, q.lease) /\ Known(mem, q.refused)
    BY <1>2, RecallKnown
<1> HIDE DEF q, no, zero
<1>5. Asked(r, mem)
    BY <1>1, <1>2, <1>3, <1>4, RecallKnown, GetAsks
<1>6. \A p \in Requests \ {r} : req'[p] = req[p]
    BY RejectedKeeps
<1>7. BrokerOK(mem) /\ Passes(r, mem, mem)
    BY MemContinued, QuietIsReflexive, QuietPasses
<1> QED BY <1>5, <1>6, <1>7, AskedKeepsRecall

\* What is left of a request that is over, or waits on unheld.
LEMMA AnsweredRecalls ==
    ASSUME IndInv, Recall, NEW r \in Requests, Answered(r)
    PROVE  Recall'
<1>1. req' = [req EXCEPT ![r] = Over] /\ mem' = mem /\ DOMAIN req = Requests
    BY DEF Answered, IndInv, RequestsOK
<1>2. BrokerOK(mem) /\ Passes(r, mem, mem)
    BY MemContinued, QuietIsReflexive, QuietPasses
<1>3. Asked(r, mem)
    BY <1>1, <1>2, OverRecalls DEF Asked
<1> QED BY <1>1, <1>2, <1>3, AskedKeepsRecall

LEMMA AbortRecalls ==
    ASSUME IndInv, Recall, NEW r \in Requests, Abort(r)
    PROVE  Recall'
<1> DEFINE n == [req[r] EXCEPT !.holds = FALSE]
<1>1. req' = [req EXCEPT ![r] = n] /\ mem' = mem /\ DOMAIN req = Requests
    BY DEF Abort, IndInv, RequestsOK
<1>2. req[r] \in RequestStates /\ Recalls(mem, r, req[r])
    BY DEF IndInv, RequestsOK, RequestOK, Recall, Remembered
<1>3. /\ n.pc = req[r].pc /\ n.lease = req[r].lease /\ n.refused = req[r].refused
      /\ n.flight = req[r].flight /\ n.force = req[r].force /\ n.attempt = req[r].attempt
    BY <1>2 DEF RequestStates
<1> HIDE DEF n
<1>4. Recalls(mem', r, req'[r])
    BY <1>1, <1>2, <1>3 DEF Recalls
<1>5. BrokerOK(mem) /\ Passes(r, mem, mem)
    BY MemContinued, QuietIsReflexive, QuietPasses
<1>6. Asked(r, mem)
    BY <1>1, <1>4, <1>5 DEF Asked
<1> QED BY <1>1, <1>5, <1>6, AskedKeepsRecall

\* A flight is forgotten by whoever heard of it last.
LEMMA DeliveredPasses ==
    ASSUME IndInv, Recall, NEW r \in Requests, req[r].pc = "await"
    PROVE  Passes(r, mem, Delivered(r))
<1> DEFINE f == req[r].flight
           n == [mem EXCEPT !.flight[f] = NoFlight]
<1>1. f \in Flights /\ BrokerOK(mem)
    BY DEF IndInv, RequestsOK, RequestOK
<1>2. CASE Delivered(r) = mem
    BY <1>1, <1>2, QuietIsReflexive, QuietPasses
<1>3. CASE /\ Delivered(r) = n /\ mem.flight[f].acq = "over"
           /\ \A q \in Requests \ {r} : req[q].flight # f
  <2>1. mem \in Brokers /\ mem.flight \in [Flights -> FlightStates]
      BY <1>1, SourcesAreNumbers
  <2>2. /\ n.sources = mem.sources /\ n.selected = mem.selected /\ n.value = mem.value
        /\ n.revision = mem.revision /\ n.inflight = mem.inflight
        /\ n.flight = [mem.flight EXCEPT ![f] = NoFlight]
      BY <2>1 DEF Brokers
  <2>3. NoFlight.lease = None /\ NoFlight.acq = "none" /\ NoFlight.promise = "none"
      BY DEF NoFlight
  <2>4. mem.inflight # f /\ mem.inflight \in Flights \cup {None}
    <3>1. f # None
        BY <1>1, BrokerAssumption DEF Flights
    <3> QED BY <1>1, <1>3, <3>1, SourcesAreNumbers
        DEF Recall, Remembered, Leased, Slot, UnderWay, Working
  <2> HIDE DEF n, f
  <2>5. Retained(mem, n) /\ (Slot(mem) => Slot(n))
      BY <2>1, <2>2, <2>4 DEF Retained, Slot
  <2>6. ASSUME NEW g \in Flights
        PROVE  /\ n.flight[g].lease \in {mem.flight[g].lease, None}
               /\ Told(mem.flight[g]) => Told(n.flight[g])
               /\ n.flight[g].acq \in UnderWay =>
                    mem.flight[g].acq \in UnderWay /\ n.flight[g].force = mem.flight[g].force
               /\ g # f => n.flight[g].acq = mem.flight[g].acq
    <3>1. CASE g = f
        BY <1>1, <2>1, <2>2, <2>3, <3>1 DEF Told, UnderWay, Working
    <3>2. CASE g # f
        BY <2>1, <2>2, <3>2
    <3> QED BY <3>1, <3>2
  <2> QED BY <1>3, <2>5, <2>6 DEF Passes
<1> QED BY <1>2, <1>3 DEF Delivered

\* A get that hears of its flight takes a lease it did not refuse, or asks again.
LEMMA ResumeRecalls ==
    ASSUME IndInv, Recall, NEW r \in Requests, Resume(r)
    PROVE  Recall'
<1> DEFINE q == req[r]
           fl == mem.flight[q.flight]
           n == Delivered(r)
           c == Current(n)
           lost == fl.promise = "changed" \/ ~LeaseCurrent(c, fl.lease)
           m == IF fl.promise = "changed" THEN n ELSE c
           won == [kind |-> "lease", m |-> m, lease |-> fl.lease, force |-> q.force]
           sees == ~q.force /\ q.attempt = 0 /\ Refuses(q.refused, fl.lease)
<1>1. /\ q.pc = "await" /\ fl.promise # "pending"
      /\ \/ fl.promise = "failed" /\ mem' = n /\ req' = [req EXCEPT ![r] = Over]
         \/ lost /\ q.attempt = 0 /\ Get(r, q, m, q.attempt + 1, FALSE)
         \/ lost /\ mem' = m /\ req' = [req EXCEPT ![r] = Over]
         \/ ~lost /\ Get(r, q, Drop(m), 1, TRUE)
         \/ ~lost /\ fl.promise # "failed" /\ ~sees /\ Await(r, q, q.attempt, won)
    BY DEF Resume, TriesAgain
<1>2. RequestOK(q) /\ q \in RequestStates /\ q.gets > 0 /\ q.flight \in Flights
    BY <1>1 DEF IndInv, RequestsOK, RequestOK
<1>3. Continued(mem, n) /\ Passes(r, mem, n)
    BY <1>1, DeliveredContinues, DeliveredPasses
<1>4. BrokerOK(n) /\ FlightsOK(n)
    BY <1>3 DEF Continued
<1> HIDE DEF n
<1>5. BrokerOK(c) /\ FlightsOK(c) /\ Passes(r, mem, c)
  <2>1. BrokerOK(c) /\ Onward(n, c) /\ Quiet(n, c)
      BY <1>4, CurrentGoesOn, CurrentIsQuiet
  <2> HIDE DEF c
  <2>2. Passes(r, n, c)
      BY <1>4, <2>1, QuietPasses
  <2> QED BY <1>3, <1>4, <2>1, <2>2, OnwardKeepsFlights, PassesIsTransitive
<1> HIDE DEF c
<1>6. BrokerOK(m) /\ FlightsOK(m) /\ Passes(r, mem, m)
    BY <1>3, <1>4, <1>5
<1>7. /\ AccountOK /\ RequestsOK /\ DOMAIN req = Requests /\ BrokerOK(mem)
      /\ Leased(mem) /\ Known(mem, q.lease) /\ Known(mem, q.refused)
    BY RecallKnown DEF RequestsOK
<1>8. Leased(m) /\ Known(m, q.lease) /\ Known(m, q.refused) /\ Retained(mem, m)
  <2>1. Retained(mem, m)
      BY <1>6 DEF Passes
  <2> HIDE DEF m, q
  <2> QED BY <1>6, <1>7, <2>1, PassesKeepsLeased, RetainedKeepsKnown
<1>9. \A p \in Requests \ {r} : req'[p] = req[p]
    BY ResumeKeeps
<1>10. CASE req' = [req EXCEPT ![r] = Over] /\ (mem' = n \/ mem' = m)
  <2>1. req'[r] = Over
      BY <1>7, <1>10
  <2>2. BrokerOK(mem') /\ Passes(r, mem, mem')
      BY <1>3, <1>4, <1>6, <1>10
  <2>3. Passes(r, mem', mem')
      BY <2>2, QuietIsReflexive, QuietPasses
  <2> HIDE DEF m
  <2> DEFINE b == mem'
  <2>4. BrokerOK(b) /\ Passes(r, mem, b) /\ Asked(r, b)
      BY <2>1, <2>2, <2>3, OverRecalls DEF Asked
  <2> HIDE DEF b
  <2> QED BY <1>9, <2>4, AskedKeepsRecall
<1> HIDE DEF m
<1>11. CASE q.attempt = 0 /\ Get(r, q, m, q.attempt + 1, FALSE)
  <2> DEFINE no == FALSE
             one == 1
  <2>1. q.attempt + 1 = one /\ one \in 0 .. 1
      BY <1>11
  <2>2. Get(r, q, m, one, no)
      BY <1>11, <2>1, Zenon
  <2>3. no \in BOOLEAN /\ ~no
      OBVIOUS
  <2> HIDE DEF q, no, one
  <2>4. Asked(r, m)
      BY <1>2, <1>6, <1>7, <1>8, <2>1, <2>2, <2>3, GetAsks
  <2> QED BY <1>6, <1>9, <2>4, AskedKeepsRecall
<1>12. CASE Get(r, q, Drop(m), 1, TRUE)
  <2> DEFINE yes == TRUE
             one == 1
             d == Drop(m)
  <2>1. one \in 0 .. 1 /\ yes \in BOOLEAN
      OBVIOUS
  <2>2. Get(r, q, d, one, yes)
      BY <1>12, Zenon
  <2>3. BrokerOK(d) /\ Onward(m, d) /\ Quiet(m, d) /\ d.inflight = None /\ d.value = None
      BY <1>6, DropGoesOn, DropIsQuiet
  <2> HIDE DEF q, yes, one, d
  <2>4. FlightsOK(d) /\ Passes(r, m, d)
      BY <1>6, <2>3, OnwardKeepsFlights, QuietPasses
  <2>5. Passes(r, mem, d)
      BY <1>6, <2>4, PassesIsTransitive
  <2>6. Leased(d) /\ Known(d, q.lease) /\ Known(d, q.refused)
    <3>1. Retained(m, d)
        BY <2>4 DEF Passes
    <3> QED BY <1>6, <1>8, <2>4, <3>1, PassesKeepsLeased, RetainedKeepsKnown
  <2>7. Asked(r, d)
      BY <1>2, <1>7, <2>1, <2>2, <2>3, <2>4, <2>6, GetAsks
  <2> QED BY <1>9, <2>3, <2>5, <2>7, AskedKeepsRecall
<1>13. CASE ~lost /\ fl.promise # "failed" /\ ~sees /\ Await(r, q, q.attempt, won)
  <2>1. mem.flight \in [Flights -> FlightStates] /\ mem \in Brokers
      BY <1>7, SourcesAreNumbers
  <2>2. fl \in FlightStates
      BY <1>2, <2>1
  <2>3. Told(fl) /\ Known(mem, fl.lease) /\ OfItsAccount(fl.lease)
      BY <1>2, <1>7 DEF Leased, BrokerOK
  <2>4. /\ fl.acq # "none"
        /\ q.force => ReadsForced(fl)
      BY <1>1 DEF Recall, Remembered, Recalls
  <2>5. fl.lease # None /\ fl.lease \in Leases
    <3>1. fl.promise = "done"
        BY <1>1, <1>13, <2>2, <2>3, <2>4 DEF FlightStates, Told
    <3> QED BY <2>2, <2>3, <3>1 DEF FlightStates, Told
  <2>6. LeaseCurrent(m, fl.lease) /\ Known(m, fl.lease)
    <3>1. LeaseCurrent(m, fl.lease)
        BY <1>13 DEF m
    <3> QED BY <1>7, <1>8, <2>3, <3>1, RetainedKeepsKnown
  <2> HIDE DEF fl
  <2>7. /\ won.kind = "lease" /\ won.m = m /\ won.lease = fl.lease /\ won.force = q.force
      OBVIOUS
  <2>8. q.force \in BOOLEAN /\ q.attempt \in 0 .. 1
      BY <1>2 DEF RequestStates
  <2> HIDE DEF won
  <2>9. Attempted(m, won)
    <3>1. Continued(m, m)
        BY <1>6 DEF Continued
    <3> QED BY <2>3, <2>5, <2>6, <2>7, <2>8, <3>1 DEF Attempted
  <2>10. Passes(r, m, won.m)
      BY <1>6, <2>7, QuietIsReflexive, QuietPasses
  <2>11. Same(q.refused, fl.lease) => fl.lease.forced \/ (q.attempt = 1 /\ ~q.force)
    <3>1. CASE q.force
        BY <2>4, <2>5, <3>1 DEF ReadsForced
    <3>2. CASE ~q.force /\ q.attempt = 1
        BY <3>2
    <3>3. CASE ~q.force /\ q.attempt = 0
      <4>1. ~Refuses(q.refused, fl.lease)
          BY <1>13, <3>3
      <4> HIDE DEF q
      <4> QED BY <1>8, <2>5, <2>6, <4>1, RefusedIsSeen
    <3> QED BY <2>8, <3>1, <3>2, <3>3
  <2>12. Await(r, q, q.attempt, won)
      BY <1>13
  <2> DEFINE attempt == q.attempt
  <2>13. /\ Await(r, q, attempt, won) /\ attempt \in 0 .. 1
         /\ Same(q.refused, fl.lease) => fl.lease.forced \/ (attempt = 1 /\ ~q.force)
      BY <2>8, <2>11, <2>12
  <2> HIDE DEF q, attempt
  <2>14. Asked(r, m)
      BY <1>2, <1>7, <1>8, <2>5, <2>6, <2>7, <2>9, <2>10, <2>13, AwaitAsks
  <2> QED BY <1>6, <1>9, <2>14, AskedKeepsRecall
<1> HIDE DEF lost, sees, won, fl, q
<1> QED BY <1>1, <1>10, <1>11, <1>12, <1>13

\* Nothing else changes but where flights at work are and what their sources
\* know.
Works(m, n) ==
    /\ n.value = m.value /\ n.selected = m.selected /\ n.revision = m.revision
    /\ n.inflight = m.inflight /\ DOMAIN n.sources = DOMAIN m.sources
    /\ \A s \in DOMAIN m.sources : n.sources[s].generation = m.sources[s].generation
    /\ \A f \in Flights :
         /\ n.flight[f].force = m.flight[f].force /\ n.flight[f].lease = m.flight[f].lease
         /\ n.flight[f].promise = m.flight[f].promise
         /\ \/ n.flight[f].acq = m.flight[f].acq
            \/ n.flight[f].acq \in UnderWay /\ m.flight[f].acq \in UnderWay

LEMMA WorksPasses ==
    ASSUME NEW r, NEW m, BrokerOK(m), NEW n, Works(m, n)
    PROVE  Passes(r, m, n)
<1>1. m.inflight \in Flights \cup {None}
    BY SourcesAreNumbers
<1>2. Retained(m, n)
    BY DEF Works, Retained
<1>3. Slot(m) => Slot(n)
    BY <1>1 DEF Works, Slot
<1>4. ASSUME NEW f \in Flights
      PROVE  /\ n.flight[f].lease \in {m.flight[f].lease, None}
             /\ Told(m.flight[f]) => Told(n.flight[f])
             /\ n.flight[f].acq \in UnderWay =>
                  m.flight[f].acq \in UnderWay /\ n.flight[f].force = m.flight[f].force
             /\ m.flight[f].acq # "none" => n.flight[f].acq # "none"
    BY DEF Works, Told, UnderWay, Working
<1> QED BY <1>2, <1>3, <1>4 DEF Passes

LEMMA WorksKeepsRecall ==
    ASSUME IndInv, Recall, Works(mem, mem'), req' = req
    PROVE  Recall'
<1>1. RequestsOK /\ BrokerOK(mem) /\ Remembered(mem)
    BY DEF IndInv, Recall
<1>2. Passes(None, mem, mem')
    BY <1>1, WorksPasses
<1>3. Remembered(mem')
    BY <1>1, <1>2, PassesKeepsRemembered
<1> QED BY <1>3, RememberedIsRecalled

\* A flight that ends stays for those who await it.
LEMMA FailPasses ==
    ASSUME NEW m, BrokerOK(m), NEW f \in Flights, m.flight[f].acq \in UnderWay,
           Told(m.flight[f]), NEW outcome \in {"changed", "failed", "done"},
           outcome = "done" => m.flight[f].lease # None
    PROVE  Passes(None, m, Fail(m, f, outcome))
<1> DEFINE set == Settle(m.flight, f, outcome)
           p == [m EXCEPT !.flight = set]
           fl == Ended(p, f)
           i == IF m.inflight = f THEN None ELSE m.inflight
           n == [p EXCEPT !.flight[f] = fl, !.inflight = IF p.inflight = f THEN None
                                                         ELSE p.inflight]
<1>1. Fail(m, f, outcome) = n
    BY DEF Fail, End
<1>2. /\ m \in Brokers /\ m.flight \in [Flights -> FlightStates]
      /\ m.inflight \in Flights \cup {None}
    BY SourcesAreNumbers
<1>3. /\ set \in [Flights -> FlightStates]
      /\ \A g \in Flights \ {f} : set[g] = m.flight[g]
      /\ set[f].acq = m.flight[f].acq /\ set[f].lease = m.flight[f].lease
      /\ set[f].promise \in {m.flight[f].promise, outcome} /\ set[f].promise # "pending"
    BY <1>2 DEF Settle, FlightStates
<1> HIDE DEF set
<1>4. /\ p.flight = set /\ p.inflight = m.inflight /\ p.value = m.value
      /\ p.selected = m.selected /\ p.revision = m.revision /\ p.sources = m.sources
      /\ p \in Brokers
    BY <1>2, <1>3 DEF Brokers
<1>5. /\ fl.acq \in {"none", "over"} /\ fl.lease \in {m.flight[f].lease, None}
      /\ Told(fl)
      /\ (\E q \in Requests : req[q].flight = f) => fl.acq # "none"
  <2>1. NoFlight.lease = None /\ NoFlight.acq = "none" /\ NoFlight.promise = "none"
      BY DEF NoFlight
  <2>2. CASE ~\E q \in Requests : req[q].flight = f
    <3>1. fl = NoFlight
        BY <2>2 DEF Ended
    <3> QED BY <2>1, <2>2, <3>1 DEF Told
  <2>3. CASE \E q \in Requests : req[q].flight = f
    <3>1. fl = [NoFlight EXCEPT !.acq = "over", !.promise = set[f].promise,
                                !.lease = set[f].lease]
        BY <1>4, <2>3 DEF Ended
    <3>2. fl.acq = "over" /\ fl.promise = set[f].promise /\ fl.lease = set[f].lease
        BY <3>1 DEF NoFlight
    <3> HIDE DEF fl
    <3>3. m.flight[f].promise # "none"
        BY DEF Told, UnderWay, Working
    <3> QED BY <1>3, <3>2, <3>3 DEF Told
  <2> QED BY <2>2, <2>3
<1> HIDE DEF fl, p
<1>6. /\ n.flight = [set EXCEPT ![f] = fl] /\ n.inflight = i /\ n.value = m.value
      /\ n.selected = m.selected /\ n.revision = m.revision /\ n.sources = m.sources
    BY <1>4 DEF Brokers
<1> HIDE DEF n
<1>7. Retained(m, n)
    BY <1>6 DEF Retained
<1>8. Slot(m) => Slot(n)
    BY <1>2, <1>3, <1>6 DEF Slot
<1>9. ASSUME NEW g \in Flights
      PROVE  /\ n.flight[g].lease \in {m.flight[g].lease, None}
             /\ Told(m.flight[g]) => Told(n.flight[g])
             /\ n.flight[g].acq \in UnderWay =>
                  m.flight[g].acq \in UnderWay /\ n.flight[g].force = m.flight[g].force
             /\ m.flight[g].acq # "none" /\ (\E q \in Requests : req[q].flight = g) =>
                  n.flight[g].acq # "none"
  <2>1. CASE g = f
    <3>1. n.flight[g] = fl
        BY <1>3, <1>6, <2>1
    <3> QED BY <1>5, <2>1, <3>1 DEF UnderWay, Working
  <2>2. CASE g # f
    <3>1. n.flight[g] = m.flight[g]
        BY <1>3, <1>6, <2>2
    <3> QED BY <3>1
  <2> QED BY <2>1, <2>2
<1> QED BY <1>1, <1>7, <1>8, <1>9 DEF Passes

LEMMA GuardedIsQuiet ==
    ASSUME NEW m, BrokerOK(m), NEW f, NEW g, g = Guarded(m, f)
    PROVE  /\ Quiet(m, g.m)
           /\ g.ok /\ g.m.selected # None =>
                g.m.sources[g.m.selected].generation = generation
<1> DEFINE c == IF m.closed THEN m ELSE Current(m)
<1>1. g.m = c /\ g.ok = Matches(c, m.flight[f].key)
    BY DEF Guarded
<1>2. CASE m.closed
  <2>1. c = m /\ ~g.ok
      BY <1>1, <1>2 DEF Matches
  <2> QED BY <1>1, <2>1, QuietIsReflexive
<1>3. CASE ~m.closed
    BY <1>1, <1>3, CurrentIsQuiet
<1> QED BY <1>2, <1>3

LEMMA BrokenRecalls ==
    ASSUME IndInv, Recall, NEW f \in Flights, Broken(f)
    PROVE  Recall'
<1> DEFINE g == Guarded(mem, f)
           o == IF g.ok THEN "failed" ELSE "changed"
<1>1. mem' = Fail(g.m, f, o) /\ req' = req /\ mem.flight[f].acq = "broken"
    BY DEF Broken
<1>2. o \in {"changed", "failed", "done"} /\ o # "done"
    OBVIOUS
<1>3. BrokerOK(mem) /\ RequestsOK /\ Remembered(mem)
    BY DEF IndInv, Recall
<1>4. BrokerOK(g.m) /\ Quiet(mem, g.m)
    BY MemContinued, GuardedGoesOn, GuardedIsQuiet
<1> DEFINE b == g.m
<1> HIDE DEF g, o
<1>5. BrokerOK(b) /\ Quiet(mem, b) /\ Passes(None, mem, b) /\ mem' = Fail(b, f, o)
    BY <1>1, <1>3, <1>4, QuietPasses
<1> HIDE DEF b
<1>6. Told(b.flight[f]) /\ b.flight[f].acq \in UnderWay
  <2>1. Leased(b)
      BY <1>3, <1>5, PassesKeepsLeased DEF Remembered
  <2> QED BY <1>1, <1>5, <2>1 DEF Leased, Quiet, UnderWay
<1>7. Passes(None, b, mem')
    BY <1>2, <1>5, <1>6, FailPasses
<1>8. Remembered(mem')
  <2> DEFINE n == mem'
  <2>1. Passes(None, mem, n)
      BY <1>5, <1>7, PassesIsTransitive
  <2> HIDE DEF n
  <2>2. Remembered(n)
      BY <1>3, <2>1, PassesKeepsRemembered
  <2> QED BY <2>2 DEF n
<1> QED BY <1>1, <1>8, RememberedIsRecalled

\* What a flight stores is known, and forced if the flight was.
LEMMA StoreRecalls ==
    ASSUME IndInv, Recall, NEW f \in Flights, Store(f)
    PROVE  Recall'
<1> DEFINE fl == mem.flight[f]
           g == Guarded(mem, f)
           b == g.m
           lease == [bearer |-> fl.bearer, generation |-> fl.key.generation,
                     source |-> fl.key.source, revision |-> fl.key.revision,
                     cache |-> fl.key.cache, forced |-> fl.force]
           stored == [b EXCEPT !.value = lease, !.flight[f].lease = lease]
<1>1. /\ fl.acq = "answer" /\ req' = req
      /\ \/ mem' = Fail(b, f, "changed")
         \/ mem' = Fail(b, f, "failed")
         \/ mem' = [b EXCEPT !.flight[f].acq = "reading", !.flight[f].again = TRUE]
         \/ g.ok /\ mem' = Fail(stored, f, "done")
    BY DEF Store
<1>2. BrokerOK(mem) /\ FlightsOK(mem) /\ RequestsOK /\ Remembered(mem) /\ AccountOK
    BY DEF IndInv, Recall
<1>3. /\ BrokerOK(b) /\ FlightsOK(b) /\ Onward(mem, b) /\ Quiet(mem, b)
      /\ g.ok => Matches(b, fl.key)
      /\ g.ok /\ b.selected # None => b.sources[b.selected].generation = generation
    BY <1>2, GuardedGoesOn, GuardedIsQuiet
<1>4. b \in Brokers /\ b.flight \in [Flights -> FlightStates]
    BY <1>3, SourcesAreNumbers
<1>5. /\ b.flight[f].acq = "answer" /\ b.flight[f].key = fl.key
      /\ b.flight[f].bearer = fl.bearer /\ b.flight[f].force = fl.force
    BY <1>1, <1>3 DEF Onward, Quiet
<1>6. WorksOK(b, b.flight[f]) /\ b.flight[f] \in FlightStates
    BY <1>3, <1>4 DEF FlightsOK
<1> HIDE DEF b, fl
<1>7. Remembered(b)
  <2>1. Passes(None, mem, b)
      BY <1>2, <1>3, QuietPasses
  <2> QED BY <1>2, <2>1, PassesKeepsRemembered
<1>8. Told(b.flight[f]) /\ b.flight[f].acq \in UnderWay
    BY <1>5, <1>7 DEF Remembered, Leased, UnderWay, Working
<1>9. CASE mem' = Fail(b, f, "changed") \/ mem' = Fail(b, f, "failed")
  <2> DEFINE n == mem'
  <2>1. Passes(None, b, n)
      BY <1>3, <1>8, <1>9, FailPasses
  <2> HIDE DEF n
  <2>2. Remembered(n)
      BY <1>2, <1>3, <1>7, <2>1, PassesKeepsRemembered
  <2> QED BY <1>1, <2>2, RememberedIsRecalled DEF n
<1>10. CASE mem' = [b EXCEPT !.flight[f].acq = "reading", !.flight[f].again = TRUE]
  <2> DEFINE n == [b EXCEPT !.flight[f].acq = "reading", !.flight[f].again = TRUE]
             r == [b.flight[f] EXCEPT !.acq = "reading", !.again = TRUE]
  <2>1. n = [b EXCEPT !.flight[f] = r]
      BY <1>4 DEF Brokers
  <2>2. /\ r.acq = "reading" /\ r.force = b.flight[f].force
        /\ r.lease = b.flight[f].lease /\ r.promise = b.flight[f].promise
      BY <1>6 DEF FlightStates
  <2> HIDE DEF r, n
  <2>3. /\ n.flight = [b.flight EXCEPT ![f] = r] /\ n.inflight = b.inflight
        /\ n.value = b.value /\ n.selected = b.selected /\ n.revision = b.revision
        /\ n.sources = b.sources
      BY <1>4, <2>1 DEF Brokers
  <2>4. Works(b, n)
      BY <1>4, <1>8, <2>2, <2>3 DEF Works, UnderWay, Working
  <2>5. Remembered(n)
      BY <1>2, <1>3, <1>7, <2>4, WorksPasses, PassesKeepsRemembered
  <2> QED BY <1>1, <1>10, <2>5, RememberedIsRecalled DEF n
<1>11. CASE g.ok /\ mem' = Fail(stored, f, "done")
  <2>1. fl.key = Key(b)
      BY <1>3, <1>11 DEF Matches
  <2>2. /\ fl.key.generation = generation /\ fl.key.source = b.selected
        /\ fl.key.revision = b.revision /\ fl.key.cache = b.cache
      BY <2>1 DEF Key
  <2>3. /\ fl.key.source \in DOMAIN b.sources /\ fl.bearer \in Logins
        /\ fl.bearer[1] = generation
      BY <1>5, <1>6, <2>2 DEF WorksOK, Working
  <2>4. /\ lease.bearer = fl.bearer /\ lease.generation = generation
        /\ lease.source = b.selected /\ lease.revision = b.revision
        /\ lease.cache = b.cache /\ lease.forced = b.flight[f].force
      BY <1>5, <2>2
  <2>5. lease \in Leases /\ lease # None
    <3>1. fl.key.source \in Nat
        BY <1>3, <2>3, SourcesAreNumbers
    <3>2. /\ b.revision \in Nat /\ b.cache \in Nat /\ generation \in Generations
          /\ b.flight[f].force \in BOOLEAN
        BY <1>2, <1>4, <1>6 DEF Brokers, AccountOK, FlightStates
    <3>3. lease \in Leases
        BY <1>5, <2>2, <2>3, <3>1, <3>2 DEF Leases
    <3> QED BY <3>3, LeaseAssumption
  <2> HIDE DEF lease
  <2>6. Known(b, lease)
      BY <1>3, <1>11, <2>2, <2>3, <2>4, SourcesAreNumbers DEF Known
  <2> DEFINE w == [b.flight[f] EXCEPT !.lease = lease]
  <2>7. /\ stored.flight = [b.flight EXCEPT ![f] = w] /\ stored.inflight = b.inflight
        /\ stored.value = lease /\ stored.selected = b.selected
        /\ stored.revision = b.revision /\ stored.sources = b.sources
      BY <1>4 DEF Brokers
  <2>8. /\ w.lease = lease /\ w.acq = b.flight[f].acq /\ w.promise = b.flight[f].promise
        /\ w.force = b.flight[f].force
      BY <1>6 DEF FlightStates
  <2> HIDE DEF w
  <2>9. BrokerOK(stored)
    <3>1. w \in FlightStates
        BY <1>6, <2>5 DEF w, FlightStates
    <3> DEFINE u == [b EXCEPT !.value = lease]
    <3>2. /\ u \in Brokers /\ u.value = lease /\ u.cache = b.cache /\ u.paused = b.paused
          /\ u.selected = b.selected /\ u.revision = b.revision /\ u.closed = b.closed
          /\ u.sources = b.sources /\ u.flight = b.flight /\ u.inflight = b.inflight
        BY <1>4, <2>5 DEF Brokers
    <3>3. stored = [u EXCEPT !.flight[f] = w]
        BY <1>4 DEF Brokers, w
    <3>4. ~b.closed
        BY <1>3, <1>11 DEF Matches
    <3> HIDE DEF u, stored
    <3>5. OfItsAccount(lease)
        BY <2>3, <2>4 DEF OfItsAccount
    <3>6. BrokerOK(u)
        BY <1>3, <2>4, <3>2, <3>4, <3>5 DEF BrokerOK, ValueOK, KeyOK
    <3>7. KeyOK(u, w)
      <4>1. w.key = b.flight[f].key /\ KeyOK(b, b.flight[f])
          BY <1>3, <1>6 DEF w, FlightStates, BrokerOK
      <4> QED BY <2>8, <3>2, <4>1 DEF KeyOK
    <3> QED BY <2>8, <3>1, <3>3, <3>5, <3>6, <3>7, FlightSet
  <2> HIDE DEF stored
  <2>10. ASSUME NEW l, Known(b, l) PROVE Known(stored, l)
      BY <2>7, <2>10 DEF Known
  <2>11. \A h \in Flights \ {f} : stored.flight[h] = b.flight[h]
      BY <1>4, <2>7
  <2>12. stored.flight[f] = w
      BY <1>4, <2>7
  <2>13. Leased(stored)
    <3>1. Leased(b)
        BY <1>7 DEF Remembered
    <3>2. Slot(stored)
      <4>1. b.inflight \in Flights \cup {None}
          BY <1>3, SourcesAreNumbers
      <4> QED BY <2>7, <2>8, <2>11, <2>12, <3>1, <4>1 DEF Leased, Slot
    <3>3. ASSUME NEW h \in Flights PROVE Known(stored, stored.flight[h].lease)
        BY <2>6, <2>8, <2>10, <2>11, <2>12, <3>1 DEF Leased
    <3>4. ASSUME NEW h \in Flights PROVE Told(stored.flight[h])
        BY <1>8, <2>5, <2>8, <2>11, <2>12, <3>1 DEF Leased, Told
    <3> QED BY <2>6, <2>7, <2>10, <3>2, <3>3, <3>4 DEF Leased
  <2>14. ASSUME NEW r \in Requests PROVE Recalls(stored, r, req[r])
    <3> DEFINE q == req[r]
    <3>1. Recalls(b, r, q) /\ RequestOK(q)
        BY <1>2, <1>7 DEF Remembered, RequestsOK
    <3>2. Known(stored, q.lease) /\ Known(stored, q.refused)
        BY <2>10, <3>1 DEF Recalls
    <3>3. q.pc = "await" => stored.flight[q.flight].acq # "none"
        BY <2>5, <2>8, <2>11, <2>12, <3>1 DEF Recalls, RequestOK
    <3>4. q.pc = "await" /\ q.force => q.flight[1] = r /\ ReadsForced(stored.flight[q.flight])
      <4>1. CASE q.flight = f
          BY <1>8, <2>4, <2>5, <2>8, <2>12, <3>1, <4>1 DEF Recalls, ReadsForced
      <4>2. CASE q.flight # f
          BY <2>11, <3>1, <4>2 DEF Recalls, RequestOK
      <4> QED BY <4>1, <4>2
    <3> HIDE DEF q
    <3>5. Recalls(stored, r, q)
        BY <3>1, <3>2, <3>3, <3>4 DEF Recalls
    <3> QED BY <3>5 DEF q
  <2>15. Remembered(stored)
      BY <2>13, <2>14 DEF Remembered
  <2> DEFINE n == mem'
  <2>16. Passes(None, stored, n)
    <3>1. /\ stored.flight[f].acq \in UnderWay /\ Told(stored.flight[f])
          /\ stored.flight[f].lease # None
        BY <1>8, <2>5, <2>8, <2>12, <2>13 DEF Leased
    <3> QED BY <1>11, <2>9, <3>1, FailPasses
  <2> HIDE DEF n
  <2>17. Remembered(n)
      BY <1>2, <2>9, <2>15, <2>16, PassesKeepsRemembered
  <2> QED BY <1>1, <2>17, RememberedIsRecalled DEF n
<1> QED BY <1>1, <1>9, <1>10, <1>11

LEMMA QuietKeepsRecall ==
    ASSUME IndInv, Recall, Quiet(mem, mem'), req' = req
    PROVE  Recall'
<1>1. RequestsOK /\ BrokerOK(mem) /\ Remembered(mem)
    BY DEF IndInv, Recall
<1> DEFINE n == mem'
<1>2. Quiet(mem, n)
    OBVIOUS
<1> HIDE DEF n
<1>3. Passes(None, mem, n)
    BY <1>1, <1>2, QuietPasses
<1>4. Remembered(n)
    BY <1>1, <1>3, PassesKeepsRemembered
<1> QED BY <1>4, RememberedIsRecalled DEF n

\* One flight goes on, and the sources keep their accounts.
LEMMA AtWorks ==
    ASSUME NEW m \in Brokers, NEW n, NEW f \in Flights, NEW w,
           m.flight[f].acq \in UnderWay /\ w.acq \in UnderWay,
           w.force = m.flight[f].force /\ w.lease = m.flight[f].lease,
           w.promise = m.flight[f].promise, DOMAIN n.sources = DOMAIN m.sources,
           \A i \in DOMAIN m.sources : n.sources[i].generation = m.sources[i].generation,
           n.flight = [m.flight EXCEPT ![f] = w],
           n.value = m.value /\ n.selected = m.selected /\ n.revision = m.revision,
           n.inflight = m.inflight
    PROVE  Works(m, n)
<1>1. m.flight \in [Flights -> FlightStates]
    BY DEF Brokers
<1>2. ASSUME NEW g \in Flights
      PROVE  /\ n.flight[g].force = m.flight[g].force /\ n.flight[g].lease = m.flight[g].lease
             /\ n.flight[g].promise = m.flight[g].promise
             /\ \/ n.flight[g].acq = m.flight[g].acq
                \/ n.flight[g].acq \in UnderWay /\ m.flight[g].acq \in UnderWay
  <2>1. CASE g = f
    <3>1. n.flight[g] = w
        BY <1>1, <2>1
    <3> QED BY <2>1, <3>1
  <2>2. CASE g # f
    <3>1. n.flight[g] = m.flight[g]
        BY <1>1, <2>2
    <3> QED BY <3>1
  <2> QED BY <2>1, <2>2
<1> QED BY <1>2 DEF Works

LEMMA ReadRecalls ==
    ASSUME IndInv, Recall, NEW f \in Flights, Read(f)
    PROVE  Recall'
<1> DEFINE fl == mem.flight[f]
           s == fl.key.source
           ans == [fl EXCEPT !.acq = "answer", !.bearer = DiskBearer]
           brk == [fl EXCEPT !.acq = "broken"]
           wts == [fl EXCEPT !.acq = "refresh"]
           srv == [mem.sources[s] EXCEPT !.served = DiskBearer]
           rfr == [mem.sources[s] EXCEPT !.refreshing = TRUE]
<1>1. /\ BrokerOK(mem) /\ FlightsOK(mem) /\ mem \in Brokers
      /\ mem.flight \in [Flights -> FlightStates]
    BY DEF IndInv, BrokerOK, Brokers
<1>2. fl.acq = "reading" /\ req' = req
    BY DEF Read
<1>3. fl \in FlightStates /\ WorksOK(mem, fl)
    BY <1>1 DEF FlightsOK
<1>4. s \in DOMAIN mem.sources
    BY <1>2, <1>3 DEF WorksOK, Working
<1>5. mem.sources[s] \in Sources
    BY <1>1, <1>4, SourceIsTyped
<1>6. \A w \in {ans, brk, wts} :
        /\ w.acq \in UnderWay /\ w.force = fl.force /\ w.lease = fl.lease
        /\ w.promise = fl.promise
    BY <1>3 DEF FlightStates, UnderWay, Working
<1>7. /\ srv.generation = mem.sources[s].generation
      /\ rfr.generation = mem.sources[s].generation
    BY <1>5 DEF Sources
<1>8. \/ mem' = [mem EXCEPT !.sources[s] = srv, !.flight[f] = ans]
      \/ mem' = [mem EXCEPT !.flight[f] = brk]
      \/ mem' = [mem EXCEPT !.flight[f] = wts]
      \/ mem' = [mem EXCEPT !.sources[s] = rfr, !.flight[f] = wts]
  <2>1. \/ Served(f, DiskBearer)
        \/ mem' = [mem EXCEPT !.flight[f].acq = "broken"]
        \/ mem' = [mem EXCEPT !.flight[f].acq = "refresh"]
        \/ mem' = [[mem EXCEPT !.flight[f].acq = "refresh"]
                     EXCEPT !.sources[s].refreshing = TRUE]
      BY DEF Read
  <2>2. CASE Served(f, DiskBearer)
    <3>1. mem' = [mem EXCEPT !.sources[s] = srv, !.flight[f] = ans]
        BY <1>1, <2>2 DEF Served, Brokers
    <3> QED BY <3>1
  <2>3. CASE mem' = [mem EXCEPT !.flight[f].acq = "broken"]
    <3>1. mem' = [mem EXCEPT !.flight[f] = brk]
        BY <1>1, <2>3 DEF Brokers
    <3> QED BY <3>1
  <2> DEFINE w == [mem EXCEPT !.flight[f].acq = "refresh"]
  <2>4. w = [mem EXCEPT !.flight[f] = wts] /\ w.sources = mem.sources
      BY <1>1 DEF Brokers
  <2>5. CASE mem' = w
      BY <2>4, <2>5
  <2>6. CASE mem' = [w EXCEPT !.sources[s].refreshing = TRUE]
    <3> HIDE DEF w
    <3>1. mem' = [w EXCEPT !.sources[s] = rfr]
        BY <1>1, <2>4, <2>6 DEF Brokers
    <3> HIDE DEF rfr, wts
    <3>2. mem' = [mem EXCEPT !.sources[s] = rfr, !.flight[f] = wts]
        BY <1>1, <2>4, <3>1 DEF Brokers
    <3> QED BY <3>2
  <2> QED BY <2>1, <2>2, <2>3, <2>5, <2>6
<1> DEFINE n == mem'
<1>9. /\ \E w \in {ans, brk, wts} : n.flight = [mem.flight EXCEPT ![f] = w]
      /\ \/ n.sources = mem.sources
         \/ \E src \in {srv, rfr} : n.sources = [mem.sources EXCEPT ![s] = src]
      /\ n.value = mem.value /\ n.selected = mem.selected /\ n.revision = mem.revision
      /\ n.inflight = mem.inflight
  <2> HIDE DEF ans, brk, wts, srv, rfr
  <2>1. CASE n = [mem EXCEPT !.sources[s] = srv, !.flight[f] = ans]
      BY <1>1, <2>1 DEF Brokers
  <2>2. CASE n = [mem EXCEPT !.flight[f] = brk]
      BY <1>1, <2>2 DEF Brokers
  <2>3. CASE n = [mem EXCEPT !.flight[f] = wts]
      BY <1>1, <2>3 DEF Brokers
  <2>4. CASE n = [mem EXCEPT !.sources[s] = rfr, !.flight[f] = wts]
      BY <1>1, <2>4 DEF Brokers
  <2>5. \/ n = [mem EXCEPT !.sources[s] = srv, !.flight[f] = ans]
        \/ n = [mem EXCEPT !.flight[f] = brk]
        \/ n = [mem EXCEPT !.flight[f] = wts]
        \/ n = [mem EXCEPT !.sources[s] = rfr, !.flight[f] = wts]
      BY <1>8, Zenon
  <2> HIDE DEF n
  <2> QED BY <2>1, <2>2, <2>3, <2>4, <2>5
<1> HIDE DEF ans, brk, wts, srv, rfr, n
<1>10. Works(mem, n)
  <2>1. PICK w \in {ans, brk, wts} : n.flight = [mem.flight EXCEPT ![f] = w]
      BY <1>9
  <2>2. PICK src \in {srv, rfr} :
            n.sources = mem.sources \/ n.sources = [mem.sources EXCEPT ![s] = src]
      BY <1>9
  <2>3. src.generation = mem.sources[s].generation
      BY <1>7
  <2>4. fl.acq \in UnderWay
      BY <1>2 DEF UnderWay, Working
  <2>5. /\ w.acq \in UnderWay /\ w.force = fl.force /\ w.lease = fl.lease
        /\ w.promise = fl.promise
      BY <1>6
  <2>6. /\ DOMAIN n.sources = DOMAIN mem.sources
        /\ \A i \in DOMAIN mem.sources :
             n.sources[i].generation = mem.sources[i].generation
      BY <2>2, <2>3
  <2> QED BY <1>1, <1>9, <2>1, <2>4, <2>5, <2>6, AtWorks
<1> QED BY <1>2, <1>10, WorksKeepsRecall DEF n

\* The end of a refresh sets the flights that shared it to work again.
LEMMA RefreshedRecalls ==
    ASSUME IndInv, Recall, queue # <<>>, NEW bearer, NEW ok \in BOOLEAN, Refreshed(bearer, ok)
    PROVE  Recall'
<1> DEFINE s == Head(queue)
           served == IF ok THEN bearer ELSE mem.sources[s].served
           waits(f) == mem.flight[f].acq = "refresh" /\ mem.flight[f].key.source = s
           last == [bearer |-> served, ok |-> ok]
           now == IF \E f \in Flights : waits(f) THEN served ELSE mem.sources[s].served
           src == [mem.sources[s] EXCEPT !.refreshing = FALSE, !.last = last, !.served = now]
           flights == [f \in Flights |->
              IF ~waits(f) THEN mem.flight[f]
              ELSE IF ok THEN [mem.flight[f] EXCEPT !.acq = "answer", !.bearer = bearer]
              ELSE [mem.flight[f] EXCEPT !.acq = "broken"]]
<1>1. /\ BrokerOK(mem) /\ OfficialOK /\ mem \in Brokers
      /\ mem.flight \in [Flights -> FlightStates] /\ mem.sources \in Seq(Sources)
    BY DEF IndInv, BrokerOK, Brokers
<1>2. s \in DOMAIN mem.sources
    BY <1>1 DEF OfficialOK
<1>3. mem.sources[s] \in Sources
    BY <1>1, <1>2, SourceIsTyped
<1>4. src.generation = mem.sources[s].generation
    BY <1>3 DEF Sources
<1>5. ASSUME NEW f \in Flights
      PROVE  /\ flights[f].force = mem.flight[f].force
             /\ flights[f].lease = mem.flight[f].lease
             /\ flights[f].promise = mem.flight[f].promise
             /\ \/ flights[f].acq = mem.flight[f].acq
                \/ flights[f].acq \in UnderWay /\ mem.flight[f].acq \in UnderWay
  <2>1. mem.flight[f] \in FlightStates
      BY <1>1
  <2>2. CASE ~waits(f)
      BY <2>2
  <2>3. CASE waits(f) /\ ok
    <3>1. flights[f] = [mem.flight[f] EXCEPT !.acq = "answer", !.bearer = bearer]
        BY <2>3
    <3> HIDE DEF flights
    <3> QED BY <2>1, <2>3, <3>1 DEF FlightStates, UnderWay, Working
  <2>4. CASE waits(f) /\ ~ok
    <3>1. flights[f] = [mem.flight[f] EXCEPT !.acq = "broken"]
        BY <2>4
    <3> HIDE DEF flights
    <3> QED BY <2>1, <2>4, <3>1 DEF FlightStates, UnderWay, Working
  <2> QED BY <2>2, <2>3, <2>4
<1>6. mem' = [mem EXCEPT !.sources[s].refreshing = FALSE, !.sources[s].last = last,
                         !.sources[s].served = IF \E f \in Flights : waits(f) THEN served
                                               ELSE @,
                         !.flight = flights]
    BY DEF Refreshed
<1>7. mem' = [mem EXCEPT !.sources[s] = src, !.flight = flights]
  <2> DEFINE waited == \E f \in Flights : waits(f)
  <2>1. mem' = [mem EXCEPT !.sources[s].refreshing = FALSE, !.sources[s].last = last,
                           !.sources[s].served = IF waited THEN served ELSE @,
                           !.flight = flights]
      BY <1>6
  <2>2. now = IF waited THEN served ELSE mem.sources[s].served
      OBVIOUS
  <2> DEFINE old == mem.sources[s]
  <2> HIDE DEF flights, waited, served, last, now
  <2>3. [mem.sources EXCEPT ![s].refreshing = FALSE, ![s].last = last,
                            ![s].served = IF waited THEN served ELSE @]
          = [mem.sources EXCEPT ![s] = src]
      BY <1>1, <1>2, <1>3, <2>2 DEF Sources
  <2> HIDE DEF src, s
  <2> QED BY <1>1, <2>1, <2>3 DEF Brokers
<1> DEFINE n == mem'
<1> HIDE DEF src, flights, s
<1>8. /\ n.value = mem.value /\ n.selected = mem.selected /\ n.revision = mem.revision
      /\ n.inflight = mem.inflight /\ n.sources = [mem.sources EXCEPT ![s] = src]
      /\ n.flight = flights
    BY <1>1, <1>7 DEF Brokers
<1> HIDE DEF n
<1>9. /\ DOMAIN n.sources = DOMAIN mem.sources
      /\ \A i \in DOMAIN mem.sources : n.sources[i].generation = mem.sources[i].generation
    BY <1>4, <1>8
<1>10. Works(mem, n)
    BY <1>5, <1>8, <1>9 DEF Works
<1>11. req' = req
    BY DEF Refreshed
<1> QED BY <1>10, <1>11, WorksKeepsRecall DEF n

LEMMA OfficialRecalls ==
    ASSUME IndInv, Recall, OfficialAnswers \/ OfficialFails
    PROVE  Recall'
<1> DEFINE yes == TRUE
           no == FALSE
<1>1. \/ child # None /\ \E bearer : Refreshed(bearer, yes)
      \/ queue # <<>> /\ Refreshed(None, no)
  <2>1. ASSUME OfficialAnswers PROVE child # None /\ \E bearer : Refreshed(bearer, TRUE)
      BY <2>1 DEF OfficialAnswers
  <2>2. ASSUME OfficialFails PROVE queue # <<>> /\ Refreshed(None, FALSE)
      BY <2>2 DEF OfficialFails
  <2> QED BY <2>1, <2>2, Zenon
<1>2. queue # <<>>
    BY <1>1 DEF IndInv, OfficialOK
<1>3. yes \in BOOLEAN /\ no \in BOOLEAN
    OBVIOUS
<1> HIDE DEF yes, no
<1> QED BY <1>1, <1>2, <1>3, RefreshedRecalls

LEMMA CooldownEndsRecalls ==
    ASSUME IndInv, Recall, NEW s, CooldownEnds(s)
    PROVE  Recall'
<1> DEFINE src == [mem.sources[s] EXCEPT !.last = None]
<1>1. /\ s \in DOMAIN mem.sources /\ mem' = [mem EXCEPT !.sources[s].last = None]
      /\ req' = req
    BY DEF CooldownEnds
<1>2. BrokerOK(mem) /\ mem \in Brokers
    BY DEF IndInv, BrokerOK
<1>3. mem.sources[s] \in Sources
    BY <1>1, <1>2, SourceIsTyped
<1>4. src.generation = mem.sources[s].generation
    BY <1>3 DEF Sources
<1>5. mem' = [mem EXCEPT !.sources[s] = src]
    BY <1>1, <1>2 DEF Brokers
<1> DEFINE n == mem'
<1> HIDE DEF src
<1>6. /\ n.value = mem.value /\ n.selected = mem.selected /\ n.revision = mem.revision
      /\ n.inflight = mem.inflight /\ n.sources = [mem.sources EXCEPT ![s] = src]
      /\ n.flight = mem.flight
    BY <1>2, <1>5 DEF Brokers
<1> HIDE DEF n
<1>7. Works(mem, n)
    BY <1>4, <1>6 DEF Works
<1> QED BY <1>1, <1>7, WorksKeepsRecall DEF n

\* A stop, a close and a restart only drop what there was.
LEMMA StopIsQuiet ==
    ASSUME IndInv, Stop \/ CloseBroker \/ Restart
    PROVE  Quiet(mem, mem')
<1> DEFINE d == Drop(mem)
           stopped == [d EXCEPT !.paused = generation]
           closed == [d EXCEPT !.closed = TRUE]
           force == TRUE
<1>1. BrokerOK(mem) /\ BrokerOK(d) /\ Quiet(mem, d)
    BY DropGoesOn, DropIsQuiet DEF IndInv
<1>2. generation \in Generations /\ force \in BOOLEAN
    BY DEF IndInv, AccountOK
<1>3. \/ mem' = d
      \/ \E e \in {stopped, closed} : mem' = Publish(e, None, force)
    BY DEF Stop, CloseBroker, Restart
<1> HIDE DEF d, force
<1>4. ASSUME NEW e \in {stopped, closed} PROVE e \in Brokers /\ Quiet(d, e)
  <2>1. d \in Brokers
      BY <1>1, SourcesAreNumbers
  <2>2. /\ e \in Brokers /\ e.value = d.value /\ e.selected = d.selected
        /\ e.revision = d.revision /\ e.sources = d.sources /\ e.flight = d.flight
        /\ e.inflight = d.inflight
      BY <1>2, <2>1 DEF Brokers
  <2> HIDE DEF stopped, closed
  <2> QED BY <2>2 DEF Quiet, Retained
<1> HIDE DEF stopped, closed
<1>5. CASE mem' = d
    BY <1>1, <1>5
<1>6. CASE \E e \in {stopped, closed} : mem' = Publish(e, None, force)
  <2>1. PICK e \in {stopped, closed} : mem' = Publish(e, None, force)
      BY <1>6
  <2> DEFINE n == mem'
  <2>2. n = Publish(e, None, force)
      BY <2>1
  <2> HIDE DEF n
  <2>3. Quiet(e, n)
      BY <1>2, <1>4, <2>2, PublishIsQuiet
  <2>4. Quiet(mem, n)
      BY <1>1, <1>4, <2>3, QuietIsTransitive
  <2> QED BY <2>4 DEF n
<1> QED BY <1>3, <1>5, <1>6

LEMMA StopRecalls ==
    ASSUME IndInv, Recall, Stop \/ CloseBroker \/ Restart
    PROVE  Recall'
<1>1. req' = req
    BY DEF Stop, CloseBroker, Restart
<1> QED BY <1>1, StopIsQuiet, QuietKeepsRecall

LEMMA InitRecalls ==
    ASSUME Init
    PROVE  Recall
<1>1. /\ NoFlight.acq = "none" /\ NoFlight.promise = "none" /\ NoFlight.lease = None
      /\ NoRequest.pc = "new" /\ NoRequest.lease = None /\ NoRequest.refused = None
    BY DEF NoFlight, NoRequest
<1>2. /\ mem.value = None /\ mem.inflight = None
      /\ \A f \in Flights : mem.flight[f] = NoFlight
      /\ \A r \in Requests : req[r] = NoRequest
    BY DEF Init
<1>3. Leased(mem)
    BY <1>1, <1>2 DEF Leased, Known, Slot, Told
<1>4. \A r \in Requests : Recalls(mem, r, req[r])
    BY <1>1, <1>2 DEF Recalls, Known
<1> QED BY <1>3, <1>4 DEF Recall, Remembered

LEMMA NextRecalls ==
    ASSUME IndInv, Recall, [Next]_vars
    PROVE  Recall'
<1>1. ASSUME NEW r \in Requests, Request(r) PROVE Recall'
    BY <1>1, BeginRecalls, ResumeRecalls, RejectedRecalls, AnsweredRecalls, AbortRecalls
       DEF Request
<1>2. ASSUME NEW f \in Flights, Acquire(f) PROVE Recall'
    BY <1>2, ReadRecalls, BrokenRecalls, StoreRecalls DEF Acquire
<1>3. CASE Stop \/ CloseBroker \/ Restart
    BY <1>3, StopRecalls
<1>4. CASE OfficialAnswers \/ OfficialFails
    BY <1>4, OfficialRecalls
<1>5. CASE \E s \in DOMAIN mem.sources : CooldownEnds(s)
    BY <1>5, CooldownEndsRecalls
<1>6. CASE Launch \/ Login \/ Age \/ Freeze \/ Move \/ PublishSwitch \/ Undo \/ UNCHANGED vars
  <2>1. mem' = mem /\ req' = req
      BY <1>6 DEF Launch, Login, Age, Freeze, Move, PublishSwitch, Undo, vars
  <2> QED BY <2>1, QuietIsReflexive, QuietKeepsRecall
<1> QED BY <1>1, <1>2, <1>3, <1>4, <1>5, <1>6 DEF Next, Official, Environment, Switching

\* A bearer that a request reports as refused is not handed back to it from the
\* same source unless a read made for a refused bearer says it is the login,
\* whoever else drops, joins and forgets flights meanwhile; only a get whose
\* first flight was dropped under it reads plainly and may hand it back.
THEOREM RefusedAlwaysReadAgain == Spec => []RefusedIsReadAgain
<1>1. Init => IndInv /\ Recall
    BY InitOK, InitRecalls
<1>2. (IndInv /\ Recall) /\ [Next]_vars => (IndInv /\ Recall)'
    BY NextKeeps, NextRecalls
<1>3. Recall => RefusedIsReadAgain
    BY DEF Recall, Remembered, Recalls, Same, RefusedIsReadAgain
<1> QED BY <1>1, <1>2, <1>3, PTL DEF Spec
=============================================================================
