------------------------ MODULE TokenBrokerRefreshes ------------------------
(***************************************************************************)
(* A bearer handed out is refreshed at most once in a window, for any       *)
(* requests and logins, while no more than one account switch is begun.     *)
(*                                                                         *)
(* A source remembers in served the bearer it last handed out, and in last  *)
(* what its last refresh left; the account's refresh token is spent for     *)
(* the bearer served.  Once spent, the source has moved past that bearer,   *)
(* or is refreshing, or cools down.  Two things could undo this: a second   *)
(* source of the same account, and a flight of the old account that hands   *)
(* its source the login of the new one, so that the source starts again     *)
(* from a bearer it served before.  The first never happens; the second     *)
(* does, but a source that served a foreign login was left: no flight reads *)
(* from it again, as the only flight of its account is the one that did.    *)
(* That it is the only one is where one switch matters: flights that a drop *)
(* left behind pile up once a switch was given up.                         *)
(***************************************************************************)
EXTENDS TokenBrokerProofs

AccountOf(m, s) == m.sources[s].generation

\* Each account has one source, which is the one selected while it may be asked.
Own(m) ==
    /\ \A s \in DOMAIN m.sources :
         /\ AccountOf(m, s) <= generation
         /\ AccountOf(m, s) = generation =>
              m.selected = s \/ m.paused = generation \/ m.closed
    /\ \A s, t \in DOMAIN m.sources : AccountOf(m, s) = AccountOf(m, t) => s = t

\* A flight at work asks the source of its account, and one of this revision of
\* the cache no paused one.
Aim(m, fl) ==
    fl.acq \in Working =>
      /\ fl.key.generation = AccountOf(m, fl.key.source)
      /\ fl.key.cache = m.cache => m.paused # generation

Waits(m, f, s) == m.flight[f].acq = "refresh" /\ m.flight[f].key.source = s

\* Somebody waits for every refresh.
Waited(m) == \A s \in Refreshing(m) : \E f \in Flights : Waits(m, f, s)

\* Nobody will ask the source again.
Left(m, s) ==
    /\ AccountOf(m, s) # generation \/ m.paused = generation \/ m.closed
    /\ \A f \in Flights : m.flight[f].acq = "reading" => m.flight[f].key.source # s

\* A source that may be asked served a login its account has, or had.
ServedOK(m, s) ==
    \/ m.sources[s].served = None \/ Left(m, s)
    \/ /\ m.sources[s].served[1] = AccountOf(m, s)
       /\ m.sources[s].served[2] <= version[AccountOf(m, s)]

\* The source will not spend the bearer in this window.
Past(source, bearer) ==
    /\ source.served # None
    /\ source.served[1] = bearer[1] /\ bearer[2] <= source.served[2]
    /\ source.served = bearer => source.refreshing \/ Cooling(source)

\* The source the bearer is spent of: left, or past it.
SpentOf(m, s, bearer) ==
    AccountOf(m, s) = bearer[1] /\ (Left(m, s) \/ Past(m.sources[s], bearer))

Once(m) ==
    \A b \in Logins :
      \/ spent[b] = 0
      \/ spent[b] = 1 /\ \E s \in DOMAIN m.sources : SpentOf(m, s, b)

\* No switch has begun, or it has not been given up.
MayMove == generation # 0 \/ switches = 0 \/ switch \in {"draining", "stopping", "moved"}

\* The router has never been told of a switch.
Early == generation = 0 /\ (switches = 0 \/ switch = "draining")

AtWork(m) == {f \in Flights : m.flight[f].acq \in Working}

\* One flight at most is at work for the first account.
OneOf(m) ==
    MayMove => \A f, g \in AtWork(m) :
      m.flight[f].key.generation = 0 /\ m.flight[g].key.generation = 0 => f = g

\* Until the router is told of a switch nothing is dropped but a value, and
\* there is none while a flight is under way: it can only be joined.
Alone(m) ==
    Early /\ ~m.closed =>
      /\ \A f \in AtWork(m) : f = m.inflight
      /\ m.inflight # None => m.value = None /\ m.flight[m.inflight].key = Key(m)
      /\ \A f \in Flights :
           m.flight[f].lease # None /\ m.flight[f].lease.cache = m.cache => m.value # None

\* No flight holds a lease of a revision of the cache to come.
Given(m) ==
    \A f \in Flights : m.flight[f].lease # None => m.flight[f].lease.cache <= m.cache

\* What a get must keep, and can.
Steady(m) == Own(m) /\ Alone(m) /\ Given(m)

\* What follows as the broker goes on.
Sound(m) ==
    /\ Waited(m) /\ OneOf(m) /\ Once(m)
    /\ \A f \in Flights : Aim(m, m.flight[f])
    /\ \A s \in DOMAIN m.sources : ServedOK(m, s)

\* The flights of r from the k-th on have not begun.
Free(m, r, k) == \A i \in 1 .. 4 : i >= k => m.flight[<<r, i>>].acq \notin UnderWay

\* So are those the request q of r may still begin.
Unused(m, r, q) ==
    /\ q.pc = "new" => Free(m, r, 1)
    /\ q.pc \in {"await", "got"} => Free(m, r, 2 * q.gets + q.attempt)

Windows ==
    /\ switches = 0 => switch = "open"
    /\ Steady(mem) /\ Sound(mem)
    /\ \A r \in Requests : Unused(mem, r, req[r])

-----------------------------------------------------------------------------
(* The broker goes on.                                                      *)

\* A flight at work that has begun, or reads again, for the account there is.
Fresh(m, fl) ==
    /\ fl.acq = "reading" /\ ~m.closed /\ m.paused # generation
    /\ fl.key.generation = generation
    /\ fl.key.source \in DOMAIN m.sources /\ AccountOf(m, fl.key.source) = generation

\* The sources are what they were, and new ones are unused.
Sourced(m, n) ==
    /\ \A s \in DOMAIN m.sources : s \in DOMAIN n.sources /\ n.sources[s] = m.sources[s]
    /\ \A s \in DOMAIN n.sources \ DOMAIN m.sources : n.sources[s].served = None

\* From m to n the flights in began, others went on, or ended.
Goes(m, n, began) ==
    /\ n.closed = m.closed /\ m.cache <= n.cache
    /\ n.paused = generation <=> m.paused = generation
    /\ Sourced(m, n) /\ Refreshing(n) = Refreshing(m)
    /\ \A f \in Flights :
         /\ n.flight[f].acq \in Working =>
              \/ n.flight[f].acq = m.flight[f].acq /\ n.flight[f].key = m.flight[f].key
              \/ Fresh(n, n.flight[f])
         /\ m.flight[f].acq = "refresh" =>
              n.flight[f].acq = "refresh" /\ n.flight[f].key = m.flight[f].key
         /\ n.flight[f].acq \in UnderWay => m.flight[f].acq \in UnderWay \/ f \in began

LEMMA GoesIsReflexive ==
    ASSUME NEW m, m.cache \in Nat, NEW began
    PROVE  Goes(m, m, began)
<1>1. Sourced(m, m)
    BY DEF Sourced
<1>2. m.cache <= m.cache
    OBVIOUS
<1> QED BY <1>1, <1>2 DEF Goes

LEMMA FreshStays ==
    ASSUME NEW m, NEW n, NEW began, Goes(m, n, began), NEW fl, Fresh(m, fl),
           NEW gl, gl.acq = fl.acq, gl.key = fl.key
    PROVE  Fresh(n, gl)
BY DEF Fresh, Goes, Sourced, AccountOf

LEMMA GoesIsTransitive ==
    ASSUME NEW l, NEW m, NEW n, BrokerOK(l), BrokerOK(m), BrokerOK(n), NEW began,
           Goes(l, m, began), Goes(m, n, began)
    PROVE  Goes(l, n, began)
<1>1. l.cache \in Nat /\ m.cache \in Nat /\ n.cache \in Nat
    BY DEF BrokerOK, Brokers
<1>2. /\ n.closed = l.closed /\ l.cache <= n.cache /\ m.cache <= n.cache
      /\ n.paused = generation <=> l.paused = generation
      /\ Refreshing(n) = Refreshing(l)
    BY <1>1 DEF Goes
<1>3. Sourced(l, n)
  <2>1. Sourced(l, m) /\ Sourced(m, n)
      BY DEF Goes
  <2> QED BY <2>1 DEF Sourced
<1>4. ASSUME NEW f \in Flights, n.flight[f].acq \in Working
      PROVE  \/ n.flight[f].acq = l.flight[f].acq /\ n.flight[f].key = l.flight[f].key
             \/ Fresh(n, n.flight[f])
  <2>1. CASE Fresh(n, n.flight[f])
      BY <2>1
  <2>2. CASE n.flight[f].acq = m.flight[f].acq /\ n.flight[f].key = m.flight[f].key
    <3>1. \/ m.flight[f].acq = l.flight[f].acq /\ m.flight[f].key = l.flight[f].key
          \/ Fresh(m, m.flight[f])
        BY <1>4, <2>2 DEF Goes
    <3> DEFINE fl == m.flight[f]
               gl == n.flight[f]
    <3>2. gl.acq = fl.acq /\ gl.key = fl.key
        BY <2>2
    <3> HIDE DEF fl, gl
    <3>3. Fresh(m, fl) => Fresh(n, gl)
        BY <3>2, FreshStays
    <3> QED BY <2>2, <3>1, <3>3 DEF fl, gl
  <2> QED BY <1>4, <2>1, <2>2 DEF Goes
<1>5. ASSUME NEW f \in Flights
      PROVE  /\ l.flight[f].acq = "refresh" =>
                  n.flight[f].acq = "refresh" /\ n.flight[f].key = l.flight[f].key
             /\ n.flight[f].acq \in UnderWay => l.flight[f].acq \in UnderWay \/ f \in began
    BY DEF Goes
<1> QED BY <1>2, <1>3, <1>4, <1>5 DEF Goes

\* What is left stays so.
LEMMA LeftStays ==
    ASSUME NEW m, NEW n, NEW began, Goes(m, n, began), NEW s \in DOMAIN m.sources,
           Left(m, s)
    PROVE  Left(n, s)
<1>1. AccountOf(n, s) = AccountOf(m, s)
    BY DEF Goes, Sourced, AccountOf
<1>2. AccountOf(n, s) # generation \/ n.paused = generation \/ n.closed
    BY <1>1 DEF Left, Goes
<1>3. ASSUME NEW f \in Flights, n.flight[f].acq = "reading"
      PROVE  n.flight[f].key.source # s
  <2>1. \/ n.flight[f].acq = m.flight[f].acq /\ n.flight[f].key = m.flight[f].key
        \/ Fresh(n, n.flight[f])
      BY <1>3 DEF Goes, Working
  <2> QED BY <1>2, <1>3, <2>1 DEF Left, Fresh
<1> QED BY <1>2, <1>3 DEF Left

LEMMA GoesKeepsOneOf ==
    ASSUME AccountOK, NEW m, NEW n, NEW began, Goes(m, n, began), OneOf(m), Alone(n),
           switch \in {"stopping", "moved"} => n.paused = generation
    PROVE  OneOf(n)
<1> SUFFICES ASSUME MayMove, NEW f \in AtWork(n), NEW g \in AtWork(n),
                    n.flight[f].key.generation = 0, n.flight[g].key.generation = 0
             PROVE  f = g
    BY DEF OneOf
<1>1. CASE Early /\ ~n.closed
    BY <1>1 DEF Alone
<1>2. CASE ~Early \/ n.closed
  <2>1. generation # 0 \/ n.closed \/ n.paused = generation
    <3>1. switches = 0 => generation = 0
        BY DEF AccountOK, Generations
    <3> QED BY <1>2, <3>1 DEF Early, MayMove
  <2>2. ASSUME NEW h \in AtWork(n), n.flight[h].key.generation = 0
        PROVE  h \in AtWork(m) /\ m.flight[h].key.generation = 0
    <3>1. ~Fresh(n, n.flight[h])
        BY <2>1, <2>2 DEF Fresh
    <3>2. n.flight[h].acq \in Working /\ h \in Flights
        BY DEF AtWork
    <3>3. n.flight[h].acq = m.flight[h].acq /\ n.flight[h].key = m.flight[h].key
        BY <3>1, <3>2 DEF Goes
    <3> QED BY <2>2, <3>2, <3>3 DEF AtWork
  <2> QED BY <2>2 DEF OneOf
<1> QED BY <1>1, <1>2

LEMMA GoesKeepsSound ==
    ASSUME AccountOK, NEW m, BrokerOK(m), FlightsOK(m), NEW n, BrokerOK(n), NEW began,
           Goes(m, n, began), Alone(n), Sound(m)
    PROVE  Sound(n)
<1>1. OneOf(n)
    BY GoesKeepsOneOf DEF BrokerOK, Sound
<1>2. Waited(n)
  <2> SUFFICES ASSUME NEW s \in Refreshing(n) PROVE \E f \in Flights : Waits(n, f, s)
      BY DEF Waited
  <2>1. PICK f \in Flights : Waits(m, f, s)
      BY DEF Goes, Sound, Waited
  <2>2. Waits(n, f, s)
      BY <2>1 DEF Waits, Goes
  <2> QED BY <2>2
<1>3. ASSUME NEW f \in Flights PROVE Aim(n, n.flight[f])
  <2>1. Aim(m, m.flight[f]) /\ WorksOK(m, m.flight[f]) /\ KeyOK(m, m.flight[f])
      BY DEF Sound, FlightsOK, BrokerOK
  <2>2. m.cache \in Nat /\ n.cache \in Nat /\ m.cache <= n.cache
      BY DEF BrokerOK, Brokers, Goes
  <2>3. ASSUME n.flight[f].acq \in Working
        PROVE  /\ n.flight[f].key.generation = AccountOf(n, n.flight[f].key.source)
               /\ n.flight[f].key.cache = n.cache => n.paused # generation
    <3>1. CASE Fresh(n, n.flight[f])
        BY <3>1 DEF Fresh
    <3>2. CASE n.flight[f].acq = m.flight[f].acq /\ n.flight[f].key = m.flight[f].key
      <4>1. /\ m.flight[f].acq \in Working /\ m.flight[f].key.source \in DOMAIN m.sources
            /\ m.flight[f].key.cache \in Nat /\ m.flight[f].key.cache <= m.cache
          BY <2>1, <2>3, <3>2 DEF WorksOK, KeyOK, Keys, UnderWay
      <4>2. AccountOf(n, m.flight[f].key.source) = AccountOf(m, m.flight[f].key.source)
          BY <4>1 DEF Goes, Sourced, AccountOf
      <4>3. m.flight[f].key.cache = n.cache => m.paused # generation
          BY <2>1, <2>2, <4>1 DEF Aim
      <4>4. n.paused = generation <=> m.paused = generation
          BY DEF Goes
      <4> QED BY <2>1, <3>2, <4>1, <4>2, <4>3, <4>4 DEF Aim
    <3> QED BY <2>3, <3>1, <3>2 DEF Goes
  <2> QED BY <2>3 DEF Aim
<1>4. ASSUME NEW s \in DOMAIN n.sources PROVE ServedOK(n, s)
  <2>1. CASE s \in DOMAIN m.sources
    <3>1. ServedOK(m, s) /\ n.sources[s] = m.sources[s]
        BY <2>1 DEF Sound, Goes, Sourced
    <3>2. Left(m, s) => Left(n, s)
        BY <2>1, LeftStays
    <3> QED BY <3>1, <3>2 DEF ServedOK, AccountOf
  <2>2. CASE s \notin DOMAIN m.sources
      BY <2>2 DEF Goes, Sourced, ServedOK
  <2> QED BY <2>1, <2>2
<1>5. Once(n)
  <2> SUFFICES ASSUME NEW b \in Logins, spent[b] # 0
               PROVE  spent[b] = 1 /\ \E s \in DOMAIN n.sources : SpentOf(n, s, b)
      BY DEF Once
  <2>1. spent[b] = 1 /\ \E s \in DOMAIN m.sources : SpentOf(m, s, b)
      BY DEF Sound, Once
  <2>2. PICK s \in DOMAIN m.sources : SpentOf(m, s, b)
      BY <2>1
  <2>3. s \in DOMAIN n.sources /\ n.sources[s] = m.sources[s]
      BY DEF Goes, Sourced
  <2>4. Left(m, s) => Left(n, s)
      BY LeftStays
  <2> QED BY <2>1, <2>2, <2>3, <2>4 DEF SpentOf, AccountOf
<1> QED BY <1>1, <1>2, <1>3, <1>4, <1>5 DEF Sound

-----------------------------------------------------------------------------
(* The broker's functions.                                                  *)

LEMMA QuietGoes ==
    ASSUME NEW m, NEW n, Onward(m, n), Quiet(m, n), n.closed = m.closed,
           n.paused = generation <=> m.paused = generation, Sourced(m, n), NEW began
    PROVE  Goes(m, n, began)
BY DEF Goes, Onward, Quiet

LEMMA QuietKeepsGiven ==
    ASSUME NEW m, NEW n, BrokerOK(m), BrokerOK(n), m.cache <= n.cache,
           \A f \in Flights : n.flight[f].lease \in {m.flight[f].lease, None}, Given(m)
    PROVE  Given(n)
<1> SUFFICES ASSUME NEW f \in Flights, n.flight[f].lease # None
             PROVE  n.flight[f].lease.cache <= n.cache
    BY DEF Given
<1>1. /\ n.flight[f].lease = m.flight[f].lease /\ m.flight[f].lease.cache <= m.cache
    BY DEF Given
<1>2. m.flight[f].lease \in Leases /\ m.cache \in Nat /\ n.cache \in Nat
    BY <1>1 DEF BrokerOK, Brokers, FlightStates
<1>3. m.flight[f].lease.cache \in Nat
    BY <1>2 DEF Leases
<1> QED BY <1>1, <1>2, <1>3

\* Nothing is under way that a drop could leave behind.
Droppable(m) == Early /\ ~m.closed => m.inflight = None

LEMMA DropMoves ==
    ASSUME NEW m, BrokerOK(m), Steady(m), Droppable(m), NEW began
    PROVE  Goes(m, Drop(m), began) /\ Steady(Drop(m))
<1> DEFINE n == Drop(m)
<1>1. /\ BrokerOK(n) /\ Onward(m, n) /\ n.value = None /\ n.cache = m.cache + 1
      /\ n.selected = m.selected /\ n.revision = m.revision /\ n.paused = m.paused
      /\ n.closed = m.closed /\ n.sources = m.sources
    BY DropGoesOn
<1>2. Quiet(m, n) /\ n.inflight = None
    BY DropIsQuiet
<1> HIDE DEF n
<1>3. Goes(m, n, began)
  <2>1. Sourced(m, n)
      BY <1>1 DEF Sourced
  <2> QED BY <1>1, <1>2, <2>1, QuietGoes
<1>4. Own(n)
    BY <1>1 DEF Steady, Own, AccountOf
<1>5. m.cache \in Nat
    BY DEF BrokerOK, Brokers
<1>6. Given(n)
  <2>1. m.cache <= n.cache /\ Given(m)
      BY <1>1, <1>5 DEF Steady
  <2>2. \A f \in Flights : n.flight[f].lease \in {m.flight[f].lease, None}
      BY <1>2 DEF Quiet
  <2> QED BY <1>1, <2>1, <2>2, QuietKeepsGiven
<1>7. Alone(n)
  <2> SUFFICES ASSUME Early, ~n.closed
               PROVE  /\ \A f \in AtWork(n) : f = n.inflight
                      /\ \A f \in Flights :
                           n.flight[f].lease # None => n.flight[f].lease.cache # n.cache
      BY <1>2 DEF Alone
  <2>1. AtWork(n) = AtWork(m)
      BY <1>2 DEF AtWork, Quiet
  <2>2. \A f \in AtWork(m) : f = n.inflight
      BY <1>1, <1>2 DEF Steady, Alone, Droppable
  <2>3. ASSUME NEW f \in Flights, n.flight[f].lease # None
        PROVE  n.flight[f].lease.cache # n.cache
    <3>1. n.flight[f].lease = m.flight[f].lease
        BY <1>2, <2>3 DEF Quiet
    <3>2. m.flight[f].lease \in Leases /\ m.flight[f].lease.cache <= m.cache
        BY <2>3, <3>1 DEF Steady, Given, BrokerOK, Brokers, FlightStates
    <3>3. m.flight[f].lease.cache \in Nat
        BY <3>2 DEF Leases
    <3> QED BY <1>1, <1>5, <3>1, <3>2, <3>3
  <2> QED BY <2>1, <2>2, <2>3
<1> QED BY <1>3, <1>4, <1>6, <1>7 DEF Steady, n

\* What an open broker hears of a new source empties the slot.
LEMMA PublishDrops ==
    ASSUME NEW m \in Brokers, ~m.closed, NEW source, NEW n, n = Publish(m, source, FALSE)
    PROVE  n = m \/ n.inflight = None
<1> DEFINE p == [m EXCEPT !.selected = source, !.revision = m.revision + 1]
<1>1. n = m \/ n = Drop(p)
    BY DEF Publish
<1>2. DOMAIN p = DOMAIN m /\ "inflight" \in DOMAIN m
    BY DEF Brokers
<1> HIDE DEF p
<1>3. Drop(p).inflight = None
    BY <1>2 DEF Drop
<1> QED BY <1>1, <1>3

\* Retiring a source disturbs no account that may still be asked.
LEMMA CurrentMoves ==
    ASSUME AccountOK, NEW m, BrokerOK(m), Steady(m), NEW began
    PROVE  /\ Goes(m, Current(m), began) /\ Steady(Current(m))
           /\ Early => Current(m) = m
<1> DEFINE n == Current(m)
<1>1. /\ BrokerOK(n) /\ Onward(m, n) /\ n.paused = m.paused /\ n.sources = m.sources
      /\ n.closed = m.closed /\ n.selected \in {m.selected, None}
      /\ n.revision # m.revision \/ n = m
    BY CurrentGoesOn
<1>2. Quiet(m, n)
    BY CurrentIsQuiet
<1>3. \/ n = m
      \/ m.selected # None /\ AccountOf(m, m.selected) # generation
    BY DEF Current, AccountOf
<1>4. Early => n = m
  <2> SUFFICES ASSUME Early, m.selected # None PROVE AccountOf(m, m.selected) = generation
      BY <1>3
  <2>1. m.selected \in DOMAIN m.sources
      BY DEF BrokerOK
  <2>2. AccountOf(m, m.selected) <= 0 /\ generation = 0
      BY <2>1 DEF Steady, Own, Early
  <2>3. AccountOf(m, m.selected) \in Nat
    <3>1. m.sources \in Seq(Sources)
        BY SourcesAreNumbers
    <3>2. m.sources[m.selected] \in Sources
        BY <2>1, <3>1
    <3> QED BY <3>2 DEF Sources, AccountOf, Generations
  <2> QED BY <2>2, <2>3
<1> HIDE DEF n
<1>5. Goes(m, n, began)
  <2>1. Sourced(m, n)
      BY <1>1 DEF Sourced
  <2> QED BY <1>1, <1>2, <2>1, QuietGoes
<1>6. Own(n)
    BY <1>1, <1>3 DEF Steady, Own, AccountOf
<1>7. Given(n)
  <2>1. /\ m.cache <= n.cache /\ Given(m)
        /\ \A f \in Flights : n.flight[f].lease \in {m.flight[f].lease, None}
      BY <1>1, <1>2 DEF Steady, Onward, Quiet
  <2> QED BY <1>1, <2>1, QuietKeepsGiven
<1>8. Alone(n)
    BY <1>4 DEF Steady, Alone
<1> QED BY <1>4, <1>5, <1>6, <1>7, <1>8 DEF Steady, n

\* A source that is asked is of the account there is, and is the first of it.
LEMMA SourceMoves ==
    ASSUME AccountOK, NEW m, BrokerOK(m), Own(m), ~m.closed, NEW began
    PROVE  /\ Goes(m, Source(m).m, began) /\ Own(Source(m).m)
           /\ Source(m).m.inflight = None \/ Key(Source(m).m) = Key(m)
           /\ Source(m).ok =>
                /\ Source(m).m.paused # generation
                /\ Source(m).m.selected \in DOMAIN Source(m).m.sources
                /\ AccountOf(Source(m).m, Source(m).m.selected) = generation
<1>1. m \in Brokers /\ m.cache \in Nat /\ m.sources \in Seq(Sources) /\ m.closed = FALSE
    BY DEF BrokerOK, Brokers
<1>2. CASE m.paused = generation
  <2>1. Source(m).m = m /\ ~Source(m).ok
      BY <1>2 DEF Source
  <2> QED BY <1>1, <2>1, GoesIsReflexive
<1>3. CASE m.paused # generation
  <2> DEFINE u == [m EXCEPT !.paused = None]
             c == Current(u)
             src == [generation |-> generation, served |-> None, last |-> None,
                     refreshing |-> FALSE]
             n == [c EXCEPT !.sources = Append(c.sources, src)]
             p == Publish(n, Len(n.sources), FALSE)
             w == Source(m).m
  <2>1. w = (IF c.selected # None THEN c ELSE p) /\ Source(m).ok
      BY <1>3 DEF Source
  <2>2. None # generation
      BY BrokerAssumption DEF AccountOK, Generations
  <2>3. /\ BrokerOK(u) /\ u.selected = m.selected /\ u.sources = m.sources /\ u.paused = None
        /\ ~u.closed /\ Key(u) = Key(m) /\ u.inflight = m.inflight
    <3>1. /\ u \in Brokers /\ u.value = m.value /\ u.cache = m.cache
          /\ u.selected = m.selected /\ u.revision = m.revision /\ u.closed = m.closed
          /\ u.sources = m.sources /\ u.flight = m.flight /\ u.inflight = m.inflight
          /\ u.paused = None
        BY <1>1 DEF Brokers
    <3> HIDE DEF u
    <3>2. switch \notin {"stopping", "moved"}
        BY <1>3 DEF BrokerOK
    <3> QED BY <3>1, <3>2 DEF BrokerOK, ValueOK, KeyOK, Key
  <2> HIDE DEF u
  <2>4. /\ BrokerOK(c) /\ c.paused = None /\ c.sources = m.sources /\ ~c.closed
        /\ c.selected # None => AccountOf(c, c.selected) = generation
        /\ c.selected \in DOMAIN c.sources \cup {None}
    <3>1. /\ BrokerOK(c) /\ c.paused = u.paused /\ c.sources = u.sources
          /\ c.closed = u.closed
        BY <2>3, CurrentGoesOn
    <3>2. c.selected # None => AccountOf(c, c.selected) = generation
        BY <2>3, CurrentIsQuiet DEF AccountOf
    <3> QED BY <2>3, <3>1, <3>2 DEF BrokerOK
  <2>5. c.inflight = None \/ Key(c) = Key(m)
    <3>1. c = u \/ c = Publish(u, None, FALSE)
        BY DEF Current
    <3>2. u \in Brokers
        BY <2>3 DEF BrokerOK
    <3> HIDE DEF c
    <3>3. c = u \/ c.inflight = None
        BY <2>3, <3>1, <3>2, PublishDrops
    <3> QED BY <2>3, <3>3
  <2>6. c.selected = m.selected \/ AccountOf(m, m.selected) # generation \/ m.selected = None
      BY <2>3 DEF Current, AccountOf
  <2> HIDE DEF c
  <2>7. \A s \in DOMAIN m.sources : AccountOf(m, s) = generation => c.selected = s
    <3> SUFFICES ASSUME NEW s \in DOMAIN m.sources, AccountOf(m, s) = generation
                 PROVE  c.selected = s
        OBVIOUS
    <3>1. m.selected = s /\ s # None
        BY <1>3, SourcesAreNumbers DEF Own
    <3> QED BY <2>6, <3>1
  <2>8. Onward(m, w) /\ Quiet(m, w)
      BY SourceGoesOn, SourceIsQuiet
  <2> HIDE DEF w
  <2>9. CASE c.selected # None
    <3>1. w = c
        BY <2>1, <2>9
    <3>2. Sourced(m, w)
        BY <2>4, <3>1 DEF Sourced
    <3>3. Goes(m, w, began)
      <4>1. w.closed = m.closed /\ (w.paused = generation <=> m.paused = generation)
          BY <1>1, <1>3, <2>2, <2>4, <3>1 DEF BrokerOK, Brokers
      <4> QED BY <2>8, <3>2, <4>1, QuietGoes
    <3>4. Own(w)
        BY <2>4, <2>7, <3>1 DEF Own, AccountOf
    <3> QED BY <2>1, <2>2, <2>4, <2>5, <2>9, <3>1, <3>3, <3>4 DEF w
  <2>10. CASE c.selected = None
    <3>1. c \in Brokers /\ c.sources \in Seq(Sources) /\ src \in Sources
        BY <2>4, SourcesAreNumbers DEF Sources, AccountOK
    <3> DEFINE a == Append(c.sources, src)
               k == Len(a)
    <3>a. src.generation = generation /\ src.served = None
        OBVIOUS
    <3>2. /\ a \in Seq(Sources) /\ k \notin DOMAIN c.sources /\ k \in Nat
          /\ k \in DOMAIN a /\ a[k] = src
          /\ \A s \in DOMAIN c.sources : s \in DOMAIN a /\ a[s] = c.sources[s]
          /\ \A s \in DOMAIN a : s \in DOMAIN c.sources \/ s = k
      <4> HIDE DEF src
      <4> QED BY <3>1
    <3>3. n = [c EXCEPT !.sources = a]
        OBVIOUS
    <3> HIDE DEF src, a, n
    <3>4. /\ n.sources = a /\ n.selected = None /\ n.closed = FALSE
          /\ n.paused = None /\ DOMAIN n = DOMAIN c
        BY <2>4, <2>10, <3>1, <3>3 DEF Brokers
    <3> DEFINE q == [n EXCEPT !.selected = k, !.revision = n.revision + 1]
    <3>5. k # None
        BY <3>2, BrokerAssumption
    <3>6. p = Drop(q)
        BY <3>4, <3>5 DEF Publish
    <3>7. /\ q.sources = a /\ q.selected = k /\ q.closed = FALSE /\ q.paused = None
          /\ DOMAIN q = DOMAIN c
      <4> HIDE DEF k
      <4> QED BY <3>1, <3>4 DEF Brokers
    <3> HIDE DEF k, q, p
    <3>8. /\ p.sources = a /\ p.selected = k /\ p.closed = FALSE /\ p.paused = None
          /\ p.inflight = None
        BY <3>1, <3>6, <3>7 DEF Drop, Brokers
    <3>9. w = p
        BY <2>1, <2>10
    <3>10. Sourced(m, w)
        BY <2>4, <3>a, <3>2, <3>8, <3>9 DEF Sourced
    <3>11. Goes(m, w, began)
      <4>1. w.closed = m.closed /\ (w.paused = generation <=> m.paused = generation)
          BY <1>1, <1>3, <2>2, <3>8, <3>9
      <4> QED BY <2>8, <3>10, <4>1, QuietGoes
    <3>12. AccountOf(w, k) = generation /\ k \in DOMAIN w.sources
        BY <3>a, <3>2, <3>8, <3>9 DEF AccountOf
    <3>13. Own(w)
      <4>1. \A s \in DOMAIN w.sources : s = k \/ s \in DOMAIN m.sources
          BY <2>4, <3>2, <3>8, <3>9
      <4>2. \A s \in DOMAIN m.sources : /\ AccountOf(w, s) = AccountOf(m, s)
                                        /\ AccountOf(m, s) # generation
        <5>1. \A s \in DOMAIN m.sources : AccountOf(w, s) = AccountOf(m, s)
            BY <3>10 DEF Sourced, AccountOf
        <5> QED BY <2>7, <2>10, <5>1, SourcesAreNumbers
      <4>3. generation <= generation
          BY DEF AccountOK, Generations
      <4>4. w.selected = k
          BY <3>8, <3>9
      <4> HIDE DEF w
      <4> QED BY <3>12, <4>1, <4>2, <4>3, <4>4 DEF Own
    <3> QED BY <2>1, <2>2, <3>8, <3>9, <3>11, <3>12, <3>13 DEF w
  <2> QED BY <2>9, <2>10
<1> QED BY <1>2, <1>3

\* A flight begins where no other is, unless a drop left one behind.
LEMMA FlyMoves ==
    ASSUME AccountOK, NEW m, BrokerOK(m), Steady(m), ~m.closed, m.value = None,
           NEW f \in Flights, m.flight[f].acq \notin UnderWay,
           NEW force \in BOOLEAN, NEW fly, fly = Fly(m, f, force)
    PROVE  Goes(m, fly.m, {f}) /\ Steady(fly.m)
<1> DEFINE joined == m.inflight # None /\ Matches(m, m.flight[m.inflight].key)
           fl == [NoFlight EXCEPT !.acq = "reading", !.promise = "pending",
                                  !.key = Key(m), !.force = force]
           new == [m EXCEPT !.inflight = f, !.flight[f] = fl]
           s == Source(new)
           asks == s.ok /\ Matches(s.m, new.flight[f].key)
           broken == [s.m EXCEPT !.flight[f].acq = "broken"]
<1>1. /\ m \in Brokers /\ m.flight \in [Flights -> FlightStates]
      /\ m.inflight \in Flights \cup {None} /\ m.cache \in Nat
    BY SourcesAreNumbers DEF Brokers
<1>2. CASE joined
  <2>1. fly.m = m
      BY <1>2 DEF Fly
  <2> QED BY <1>1, <2>1, GoesIsReflexive
<1>3. CASE ~joined
  <2>1. fly.m = IF asks THEN s.m ELSE broken
      BY <1>3 DEF Fly
  <2>2. Key(m) \in Keys /\ Key(m).cache = m.cache /\ m.cache \in Nat
      BY <1>1, KeyIsTyped
  <2>3. /\ fl \in FlightStates /\ fl.key = Key(m) /\ fl.lease = None /\ fl.acq = "reading"
      BY <2>2 DEF FlightStates, NoFlight
  <2> HIDE DEF fl
  <2> DEFINE u == [m EXCEPT !.inflight = f]
  <2>4. /\ BrokerOK(u) /\ u.cache = m.cache
    <3>1. /\ u \in Brokers /\ u.value = m.value /\ u.cache = m.cache
          /\ u.selected = m.selected /\ u.revision = m.revision /\ u.closed = m.closed
          /\ u.paused = m.paused /\ u.sources = m.sources /\ u.flight = m.flight
        BY <1>1 DEF Brokers
    <3> HIDE DEF u, fl
    <3> QED BY <3>1 DEF BrokerOK, ValueOK, KeyOK
  <2>5. new = [u EXCEPT !.flight[f] = fl]
      BY <1>1 DEF Brokers
  <2>6. /\ new.sources = m.sources /\ new.selected = m.selected
        /\ new.revision = m.revision /\ new.inflight = f /\ new.value = m.value
        /\ new.cache = m.cache /\ new.paused = m.paused /\ new.closed = m.closed
        /\ new.flight = [m.flight EXCEPT ![f] = fl]
      BY <1>1 DEF Brokers
  <2> HIDE DEF u, new
  <2>7. BrokerOK(new) /\ Own(new) /\ Key(new) = Key(m)
    <3>1. BrokerOK(new)
        BY <2>2, <2>3, <2>4, <2>5, FlightSet DEF OfItsAccount, KeyOK
    <3>2. Own(new) /\ Key(new) = Key(m)
        BY <2>6 DEF Steady, Own, AccountOf, Key
    <3> QED BY <3>1, <3>2
  <2> DEFINE w == s.m
             n == fly.m
  <2>8. /\ Goes(new, w, {f}) /\ Own(w) /\ (w.inflight = None \/ Key(w) = Key(m))
        /\ s.ok => /\ w.paused # generation /\ w.selected \in DOMAIN w.sources
                   /\ AccountOf(w, w.selected) = generation
    <3> DEFINE began == {f}
    <3>1. BrokerOK(new) /\ Own(new) /\ ~new.closed
        BY <2>6, <2>7
    <3> HIDE DEF began
    <3>2. /\ Goes(new, s.m, began) /\ Own(s.m) /\ (s.m.inflight = None \/ Key(s.m) = Key(new))
          /\ s.ok => /\ s.m.paused # generation /\ s.m.selected \in DOMAIN s.m.sources
                     /\ AccountOf(s.m, s.m.selected) = generation
        BY <3>1, SourceMoves
    <3> HIDE DEF s
    <3> QED BY <2>7, <3>2 DEF began
  <2>9. /\ BrokerOK(w) /\ Onward(new, w) /\ Quiet(new, w)
        /\ w \in Brokers /\ w.flight \in [Flights -> FlightStates]
      BY <2>7, SourceGoesOn, SourceIsQuiet, SourcesAreNumbers
  <2>10. /\ n = w \/ n = [w EXCEPT !.flight[f].acq = "broken"]
         /\ n = w => \/ s.ok /\ Matches(w, fl.key)
                    \/ n.flight[f].acq = "broken"
    <3>1. new.flight[f] = fl
        BY <1>1, <2>6
    <3>2. broken.flight[f].acq = "broken"
      <4> HIDE DEF s
      <4> QED BY <2>9 DEF w, Brokers, FlightStates
    <3> HIDE DEF s
    <3> QED BY <2>1, <3>1, <3>2 DEF w
  <2> HIDE DEF w, n
  <2>11. /\ n.sources = w.sources /\ n.selected = w.selected /\ n.revision = w.revision
         /\ n.value = w.value /\ n.inflight = w.inflight /\ n.cache = w.cache
         /\ n.paused = w.paused /\ n.closed = w.closed
         /\ \A g \in Flights :
              /\ g # f => n.flight[g] = w.flight[g]
              /\ n.flight[g].lease = w.flight[g].lease /\ n.flight[g].key = w.flight[g].key
         /\ n.flight[f].acq = "broken" \/ n.flight[f] = w.flight[f]
    <3>1. CASE n = w
        BY <3>1
    <3>2. CASE n = [w EXCEPT !.flight[f].acq = "broken"]
        BY <2>9, <3>2 DEF Brokers, FlightStates
    <3> QED BY <2>10, <3>1, <3>2
  <2>12. Key(n) = Key(w)
      BY <2>11 DEF Key
  <2>13. /\ n.flight[f].acq \in {"reading", "broken"} /\ n.flight[f].key = Key(m)
         /\ n.flight[f].lease = None
      BY <1>1, <2>3, <2>6, <2>9, <2>11 DEF Onward, Quiet
  <2>14. n.flight[f].acq = "reading" =>
           /\ Key(n) = Key(m) /\ s.ok
    <3> SUFFICES ASSUME n.flight[f].acq = "reading" PROVE s.ok /\ Key(n) = Key(m)
        OBVIOUS
    <3>1. n = w
      <4>1. [w EXCEPT !.flight[f].acq = "broken"].flight[f].acq = "broken"
          BY <2>9 DEF Brokers, FlightStates
      <4> QED BY <2>10, <4>1
    <3> QED BY <2>3, <2>10, <2>12, <3>1 DEF Matches
  <2>15. \A g \in Flights \ {f} :
           /\ n.flight[g].acq = m.flight[g].acq /\ n.flight[g].key = m.flight[g].key
           /\ n.flight[g].lease = m.flight[g].lease
      BY <1>1, <2>6, <2>9, <2>11 DEF Onward, Quiet
  <2>16. Fresh(n, n.flight[f]) \/ n.flight[f].acq = "broken"
    <3> SUFFICES ASSUME n.flight[f].acq = "reading" PROVE Fresh(n, n.flight[f])
        BY <2>13
    <3>1. n.flight[f].key = Key(n) /\ s.ok
        BY <2>13, <2>14
    <3>2. n.flight[f].key.generation = generation /\ n.flight[f].key.source = n.selected
        BY <3>1 DEF Key
    <3>3. ~n.closed
        BY <2>6, <2>8, <2>11 DEF Goes
    <3>4. /\ n.paused # generation /\ n.selected \in DOMAIN n.sources
          /\ AccountOf(n, n.selected) = generation
        BY <2>8, <2>11, <3>1 DEF AccountOf
    <3> HIDE DEF s
    <3> QED BY <3>2, <3>3, <3>4 DEF Fresh
  <2>17. Goes(m, n, {f})
    <3>1. /\ n.closed = m.closed /\ m.cache <= n.cache
          /\ n.paused = generation <=> m.paused = generation
          /\ Sourced(m, n) /\ Refreshing(n) = Refreshing(m)
        BY <2>6, <2>8, <2>11 DEF Goes, Sourced, Refreshing
    <3>2. ASSUME NEW g \in Flights
          PROVE  /\ n.flight[g].acq \in Working =>
                      \/ n.flight[g].acq = m.flight[g].acq /\ n.flight[g].key = m.flight[g].key
                      \/ Fresh(n, n.flight[g])
                 /\ m.flight[g].acq = "refresh" =>
                      n.flight[g].acq = "refresh" /\ n.flight[g].key = m.flight[g].key
                 /\ n.flight[g].acq \in UnderWay => m.flight[g].acq \in UnderWay \/ g \in {f}
      <4>1. CASE g = f
        <5>1. n.flight[f].acq = "broken" => n.flight[f].acq \notin Working
            BY DEF Working
        <5>2. m.flight[f].acq # "refresh"
            BY DEF UnderWay, Working
        <5> QED BY <2>16, <4>1, <5>1, <5>2
      <4>2. CASE g # f
          BY <2>15, <4>2
      <4> QED BY <4>1, <4>2
    <3> QED BY <3>1, <3>2 DEF Goes
  <2>18. Own(n)
      BY <2>8, <2>11 DEF Own, AccountOf
  <2>19. BrokerOK(n)
    <3>1. n.flight[f] \in FlightStates /\ n \in Brokers
      <4>1. [w EXCEPT !.flight[f].acq = "broken"] \in Brokers
        <5> DEFINE bl == [w.flight[f] EXCEPT !.acq = "broken"]
        <5>1. bl \in FlightStates
            BY <2>9 DEF FlightStates
        <5>2. [w EXCEPT !.flight[f].acq = "broken"] = [w EXCEPT !.flight[f] = bl]
            BY <2>9 DEF Brokers
        <5> HIDE DEF bl
        <5> QED BY <2>9, <5>1, <5>2 DEF Brokers
      <4>2. n \in Brokers
          BY <2>9, <2>10, <4>1
      <4> QED BY <4>2 DEF Brokers
    <3>2. ASSUME NEW g \in Flights PROVE OfItsAccount(n.flight[g].lease) /\ KeyOK(n, n.flight[g])
      <4>1. OfItsAccount(w.flight[g].lease) /\ KeyOK(w, w.flight[g])
          BY <2>9 DEF BrokerOK
      <4>2. /\ n.flight[g].acq \in UnderWay => w.flight[g].acq \in UnderWay
            /\ n.flight[g].key = w.flight[g].key /\ n.flight[g].lease = w.flight[g].lease
        <5>1. w.flight[f].acq = "reading"
            BY <1>1, <2>3, <2>6, <2>9 DEF Quiet
        <5> QED BY <2>11, <5>1 DEF UnderWay, Working
      <4> QED BY <2>11, <4>1, <4>2 DEF KeyOK
    <3> QED BY <2>9, <2>11, <3>1, <3>2 DEF BrokerOK, ValueOK
  <2>20. Given(n)
    <3>1. /\ m.cache <= n.cache /\ Given(m)
          /\ \A g \in Flights : n.flight[g].lease \in {m.flight[g].lease, None}
        BY <2>13, <2>15, <2>17 DEF Steady, Goes
    <3> QED BY <2>19, <3>1, QuietKeepsGiven
  <2>21. Alone(n)
    <3> SUFFICES ASSUME Early, ~n.closed
                 PROVE  /\ \A g \in AtWork(n) : g = n.inflight
                        /\ n.inflight # None => n.value = None /\ n.flight[n.inflight].key = Key(n)
                        /\ \A g \in Flights :
                             n.flight[g].lease # None => n.flight[g].lease.cache # n.cache
        BY DEF Alone
    <3>1. m.inflight = None
        BY <1>3 DEF Steady, Alone, Matches
    <3>2. \A g \in AtWork(m) : g \notin Flights
        BY <3>1, BrokerAssumption DEF Steady, Alone, AtWork, Flights
    <3>3. ASSUME NEW g \in AtWork(n) PROVE g = n.inflight
      <4>1. g = f
          BY <2>15, <3>2, <3>3 DEF AtWork
      <4>2. n.flight[f].acq = "reading"
          BY <2>13, <3>3, <4>1 DEF AtWork, Working
      <4>3. n.cache = m.cache
          BY <2>14, <4>2 DEF Key
      <4>4. w.inflight = f
          BY <1>1, <2>6, <2>9, <2>11, <4>3 DEF Onward
      <4> QED BY <2>11, <4>1, <4>4
    <3>4. ASSUME n.inflight # None PROVE n.value = None /\ n.flight[n.inflight].key = Key(n)
      <4>1. n.inflight = f /\ n.value = None
          BY <2>6, <2>9, <2>11, <3>4 DEF Quiet, Retained
      <4>2. Key(n) = Key(m)
          BY <2>8, <2>11, <2>12, <3>4
      <4> QED BY <2>13, <4>1, <4>2
    <3>5. ASSUME NEW g \in Flights, n.flight[g].lease # None
          PROVE  n.flight[g].lease.cache # n.cache
      <4>1. n.flight[g].lease = m.flight[g].lease /\ m.flight[g].lease # None
          BY <2>13, <2>15, <3>5
      <4>2. m.flight[g].lease.cache # m.cache /\ m.flight[g].lease.cache <= m.cache
          BY <4>1 DEF Steady, Alone, Given
      <4>3. m.flight[g].lease \in Leases
          BY <1>1, <4>1 DEF FlightStates
      <4>4. m.flight[g].lease.cache \in Nat /\ n.cache \in Nat /\ m.cache <= n.cache
          BY <2>9, <2>11, <2>17, <4>3 DEF Leases, Goes, Brokers
      <4> QED BY <1>1, <4>1, <4>2, <4>4
    <3> QED BY <3>3, <3>4, <3>5
  <2> QED BY <2>17, <2>18, <2>20, <2>21 DEF Steady, n
<1> QED BY <1>2, <1>3

\* A value may go, as no flight is under way beside it.
LEMMA PrepareMoves ==
    ASSUME AccountOK, NEW m, BrokerOK(m), Steady(m), NEW refused, NEW old \in BOOLEAN,
           NEW p, p = Prepare(m, refused, old), NEW began
    PROVE  Goes(m, p.m, began) /\ Steady(p.m)
<1> DEFINE c == Current(m)
           v == c.value
           rejected == /\ v # None /\ refused # None
                       /\ LeaseCurrent(c, refused) /\ refused.bearer = v.bearer
           due == v # None /\ (~LeaseCurrent(c, v) \/ old \/ v.bearer \in aged)
<1>1. p.m = (IF rejected \/ due THEN Drop(c) ELSE c)
    BY DEF Prepare
<1>2. BrokerOK(c) /\ Goes(m, c, began) /\ Steady(c)
    BY CurrentGoesOn, CurrentMoves
<1>3. CASE rejected \/ due
  <2>1. p.m = Drop(c) /\ c.value # None
      BY <1>1, <1>3
  <2> HIDE DEF c
  <2>2. Droppable(c)
      BY <1>2, <2>1 DEF Steady, Alone, Droppable
  <2>3. Goes(c, p.m, began) /\ Steady(p.m) /\ BrokerOK(p.m)
      BY <1>2, <2>1, <2>2, DropMoves, DropGoesOn
  <2> QED BY <1>2, <2>3, GoesIsTransitive
<1>4. CASE ~(rejected \/ due)
    BY <1>1, <1>2, <1>4
<1> QED BY <1>3, <1>4

\* An attempt begins no flight but its own.
LEMMA AttemptMoves ==
    ASSUME AccountOK, NEW m, BrokerOK(m), FlightsOK(m), Steady(m), NEW f \in Flights,
           m.flight[f].acq \notin UnderWay, NEW refused, NEW forced \in BOOLEAN,
           NEW old \in BOOLEAN, NEW a, a = Attempt(m, f, refused, forced, old)
    PROVE  /\ Goes(m, a.m, {f}) /\ Steady(a.m)
           /\ a.kind = "lease" => a.m.value # None /\ \A began : Goes(m, a.m, began)
<1> DEFINE p == Prepare(m, refused, old)
           force == p.force \/ forced
           s == Fly(Current(p.m), f, force)
<1>1. CASE m.closed
  <2>1. a = [kind |-> "failed", m |-> m]
      BY <1>1 DEF Attempt
  <2>2. m.cache \in Nat
      BY DEF BrokerOK, Brokers
  <2> QED BY <2>1, <2>2, GoesIsReflexive
<1>2. CASE ~m.closed
  <2>1. a = IF p.m.value # None
            THEN [kind |-> "lease", m |-> p.m, lease |-> p.m.value, force |-> force]
            ELSE [kind |-> "await", m |-> s.m, flight |-> s.flight, force |-> force]
      BY <1>2 DEF Attempt
  <2>2. /\ BrokerOK(p.m) /\ p.force \in BOOLEAN /\ Onward(m, p.m) /\ p.m.closed = m.closed
        /\ Steady(p.m) /\ \A began : Goes(m, p.m, began)
      BY PrepareGoesOn, PrepareMoves
  <2>3. force \in BOOLEAN
      BY <2>2
  <2>4. CASE p.m.value # None
    <3> HIDE DEF p, force
    <3> QED BY <2>1, <2>2, <2>4
  <2>5. CASE p.m.value = None
    <3> DEFINE c == Current(p.m)
    <3>1. a.kind = "await" /\ a.m = s.m
        BY <2>1, <2>5
    <3> HIDE DEF p, force
    <3>2. /\ BrokerOK(c) /\ Onward(m, c) /\ ~c.closed /\ c.value = None
      <4>1. BrokerOK(c) /\ Onward(p.m, c) /\ c.closed = p.m.closed /\ Quiet(p.m, c)
          BY <2>2, CurrentGoesOn, CurrentIsQuiet
      <4>2. c.value = None
          BY <2>5, <4>1 DEF Quiet, Retained
      <4> QED BY <1>2, <2>2, <4>1, <4>2, OnwardIsTransitive
    <3>3. Steady(c) /\ Goes(m, c, {f})
      <4>1. Steady(c) /\ Goes(p.m, c, {f}) /\ Goes(m, p.m, {f})
          BY <2>2, CurrentMoves
      <4> QED BY <2>2, <3>2, <4>1, GoesIsTransitive
    <3>4. c.flight[f].acq \notin UnderWay
        BY <3>2 DEF Onward
    <3> DEFINE fly == s
    <3>5. fly = Fly(c, f, force)
        OBVIOUS
    <3> HIDE DEF c
    <3>6. FlightsOK(c)
        BY <3>2, OnwardKeepsFlights
    <3> HIDE DEF fly
    <3>7. Goes(c, fly.m, {f}) /\ Steady(fly.m)
        BY <2>3, <3>2, <3>3, <3>4, <3>5, FlyMoves
    <3>8. BrokerOK(fly.m)
        BY <2>3, <3>2, <3>5, <3>6, FlyContinues DEF Continued
    <3>9. a.m = fly.m
        BY <3>1 DEF fly
    <3>10. Goes(m, fly.m, {f})
      <4> DEFINE began == {f}
      <4>1. Goes(m, c, began) /\ Goes(c, fly.m, began)
          BY <3>3, <3>7
      <4> HIDE DEF began
      <4>2. Goes(m, fly.m, began)
          BY <3>2, <3>8, <4>1, GoesIsTransitive
      <4> QED BY <4>2 DEF began
    <3> QED BY <3>1, <3>7, <3>9, <3>10
  <2> QED BY <2>4, <2>5
<1> QED BY <1>1, <1>2

-----------------------------------------------------------------------------
(* Requests.                                                                *)

Mine(r) == {<<r, k>> : k \in 1 .. 4}

\* A get of r goes on from m.
Turned(r, m) ==
    Goes(m, mem', Mine(r)) /\ Steady(mem') /\ Unused(mem', r, req'[r])

\* The flight of an attempt, and those after it, have not begun.
Unbegun(m, r, q, attempt) == Free(m, r, 2 * q.gets + attempt - 1)

\* An attempt began its flight, or none.
Begins(m, n, r, q, attempt) ==
    Goes(m, n, {FlightOf(r, q, attempt)}) /\ Steady(n) /\ Unbegun(m, r, q, attempt)

\* Nor have those after it.
Spare(m, r, q, attempt) == Free(m, r, 2 * q.gets + attempt)

LEMMA AwaitLeaves ==
    ASSUME NEW r \in Requests, RequestsOK, NEW q, RequestOK(q), NEW attempt \in 0 .. 1,
           NEW m, NEW a, a.kind \in {"failed", "lease", "await"}, Await(r, q, attempt, a),
           Goes(m, a.m, Mine(r)), Steady(a.m), Spare(a.m, r, q, attempt)
    PROVE  Turned(r, m)
<1> DEFINE tried == [q EXCEPT !.attempt = attempt, !.force = a.force]
           w == [tried EXCEPT !.pc = "await", !.flight = a.flight]
           g == [tried EXCEPT !.pc = "got", !.flight = None, !.lease = a.lease]
<1>1. mem' = a.m /\ q \in RequestStates /\ DOMAIN req = Requests
    BY DEF Await, RequestOK, RequestsOK
<1>2. req'[r] = CASE a.kind = "failed" -> Over
                  [] a.kind = "await"  -> w
                  [] a.kind = "lease"  -> IF ~q.holds THEN Over ELSE g
    BY <1>1 DEF Await
<1>3. req'[r] \in {Over, w, g}
    BY <1>2
<1>4. \/ req'[r].pc = "over"
      \/ req'[r].pc # "new" /\ req'[r].gets = q.gets /\ req'[r].attempt = attempt
  <2>1. /\ w.gets = q.gets /\ w.attempt = attempt /\ w.pc # "new"
        /\ g.gets = q.gets /\ g.attempt = attempt /\ g.pc # "new"
      BY <1>1 DEF RequestStates
  <2> HIDE DEF w, g
  <2> QED BY <1>3, <2>1, OverIsOK
<1> QED BY <1>1, <1>4 DEF Turned, Unused, Spare

LEMMA AwaitTurns ==
    ASSUME NEW r \in Requests, RequestsOK, NEW q, RequestOK(q), q.gets > 0,
           NEW attempt \in 0 .. 1, NEW m, NEW a,
           a.kind \in {"failed", "lease", "await"}, Await(r, q, attempt, a),
           Begins(m, a.m, r, q, attempt)
    PROVE  Turned(r, m)
<1> DEFINE f == FlightOf(r, q, attempt)
<1>1. f \in Mine(r) /\ f = <<r, 2 * q.gets + attempt - 1>> /\ q.gets \in 1 .. 2
  <2>1. q.gets \in 1 .. 2
      BY DEF RequestOK, RequestStates
  <2>2. 2 * q.gets + attempt - 1 \in 1 .. 4
      BY <2>1
  <2> QED BY <2>1, <2>2 DEF FlightOf, Mine
<1>2. Goes(m, a.m, {f}) /\ Steady(a.m) /\ Free(m, r, 2 * q.gets + attempt - 1)
    BY DEF Begins, Unbegun
<1> HIDE DEF f
<1>3. Goes(m, a.m, Mine(r))
    BY <1>1, <1>2 DEF Goes
<1>4. Spare(a.m, r, q, attempt)
  <2> SUFFICES ASSUME NEW i \in 1 .. 4, i >= 2 * q.gets + attempt
               PROVE  a.m.flight[<<r, i>>].acq \notin UnderWay
      BY DEF Free, Spare
  <2>1. m.flight[<<r, i>>].acq \notin UnderWay
      BY <1>1, <1>2 DEF Free
  <2>2. <<r, i>> # f
      BY <1>1
  <2>3. <<r, i>> \in Flights
      BY DEF Flights
  <2> QED BY <1>2, <2>1, <2>2, <2>3 DEF Goes
<1> QED BY <1>2, <1>3, <1>4, AwaitLeaves

LEMMA GetTurns ==
    ASSUME AccountOK, NEW r \in Requests, RequestsOK, NEW q, RequestOK(q), q.gets > 0,
           NEW attempt \in 0 .. 1, NEW m, BrokerOK(m), FlightsOK(m), Steady(m),
           Unbegun(m, r, q, attempt), NEW forced \in BOOLEAN,
           Get(r, q, m, attempt, forced)
    PROVE  Turned(r, m)
<1>1. PICK old \in BOOLEAN :
        LET a == Attempt(m, FlightOf(r, q, attempt), q.refused, forced, old)
            again == Attempt(Drop(a.m), FlightOf(r, q, 1), q.refused, TRUE, old)
        IN IF /\ a.kind = "lease" /\ attempt = 0
              /\ ~a.force /\ Refuses(q.refused, a.lease)
           THEN Await(r, q, 1, again)
           ELSE Await(r, q, attempt, a)
    BY DEF Get
<1> DEFINE f == FlightOf(r, q, attempt)
           h == FlightOf(r, q, 1)
           a == Attempt(m, f, q.refused, forced, old)
           d == Drop(a.m)
           again == Attempt(d, h, q.refused, TRUE, old)
           seen == a.kind = "lease" /\ attempt = 0 /\ ~a.force /\ Refuses(q.refused, a.lease)
<1>2. /\ q.gets \in 1 .. 2 /\ f \in Flights /\ h \in Flights
      /\ m.flight[f].acq \notin UnderWay /\ m.flight[h].acq \notin UnderWay
  <2>1. q.gets \in 1 .. 2
      BY DEF RequestOK, RequestStates
  <2>2. 2 * q.gets + attempt - 1 \in 1 .. 4 /\ 2 * q.gets + 1 - 1 \in 1 .. 4
      BY <2>1
  <2>3. 2 * q.gets + 1 - 1 >= 2 * q.gets + attempt - 1
      BY <2>1
  <2>4. 2 * q.gets + attempt - 1 >= 2 * q.gets + attempt - 1
      BY <2>2
  <2> QED BY <2>1, <2>2, <2>3, <2>4 DEF FlightOf, Flights, Unbegun, Free
<1>3. Attempted(m, a)
    BY <1>2, AttemptEnds
<1>4. /\ Goes(m, a.m, {f}) /\ Steady(a.m)
      /\ a.kind = "lease" => a.m.value # None /\ \A began : Goes(m, a.m, began)
  <2> DEFINE x == a
             g == f
  <2>1. x = Attempt(m, g, q.refused, forced, old) /\ g \in Flights
        /\ m.flight[g].acq \notin UnderWay
      BY <1>2
  <2> HIDE DEF x, g
  <2>2. /\ Goes(m, x.m, {g}) /\ Steady(x.m)
        /\ x.kind = "lease" => x.m.value # None /\ \A began : Goes(m, x.m, began)
      BY <2>1, AttemptMoves
  <2> QED BY <2>2 DEF x, g
<1>5. CASE ~seen
  <2>1. Await(r, q, attempt, a)
      BY <1>1, <1>5
  <2> DEFINE x == a
  <2>2. /\ Await(r, q, attempt, x) /\ x.kind \in {"failed", "lease", "await"}
        /\ Begins(m, x.m, r, q, attempt)
      BY <1>3, <1>4, <2>1 DEF Attempted, Begins
  <2> HIDE DEF x, a
  <2> QED BY <2>2, AwaitTurns
<1>6. CASE seen
  <2>1. Await(r, q, 1, again) /\ attempt = 0
      BY <1>1, <1>6
  <2>2. BrokerOK(a.m) /\ FlightsOK(a.m) /\ a.m.value # None /\ Goes(m, a.m, {h})
      BY <1>3, <1>4, <1>6 DEF Attempted, Continued
  <2> DEFINE b == a.m
  <2>3. BrokerOK(b) /\ FlightsOK(b) /\ b.value # None /\ Goes(m, b, {h}) /\ Steady(b)
        /\ d = Drop(b)
      BY <1>4, <2>2
  <2> HIDE DEF a, b, d, f, h
  <2>4. Droppable(b)
      BY <2>3 DEF Steady, Alone, Droppable
  <2>5. BrokerOK(d) /\ FlightsOK(d) /\ Goes(m, d, {h}) /\ Steady(d)
    <3>1. BrokerOK(d) /\ Onward(b, d)
        BY <2>3, DropGoesOn
    <3>2. FlightsOK(d)
        BY <2>3, <3>1, OnwardKeepsFlights
    <3>3. Goes(b, d, {h}) /\ Steady(d)
        BY <2>3, <2>4, DropMoves
    <3>4. Goes(m, d, {h})
        BY <2>3, <3>1, <3>3, GoesIsTransitive
    <3> QED BY <3>1, <3>2, <3>3, <3>4
  <2>6. d.flight[h].acq \notin UnderWay
    <3>1. \A began : Goes(m, d, began)
      <4> SUFFICES ASSUME NEW began PROVE Goes(m, d, began)
          OBVIOUS
      <4>1. Goes(m, b, began)
          BY <1>4, <1>6 DEF b
      <4>2. Goes(b, d, began)
          BY <2>3, <2>4, DropMoves
      <4> QED BY <2>3, <2>5, <4>1, <4>2, GoesIsTransitive
    <3>2. Goes(m, d, {})
        BY <3>1
    <3> QED BY <1>2, <3>2 DEF Goes
  <2> DEFINE x == again
             one == 1
             yes == TRUE
  <2>7. x = Attempt(d, h, q.refused, yes, old) /\ Await(r, q, one, x)
      BY <2>1, Zenon
  <2>8. one \in 0 .. 1 /\ yes \in BOOLEAN /\ h = FlightOf(r, q, one)
      BY DEF h
  <2>9. Unbegun(m, r, q, one)
      BY <1>2, <2>1 DEF Unbegun, Free
  <2> HIDE DEF x, again, one, yes
  <2>10. Goes(d, x.m, {h}) /\ Steady(x.m) /\ Attempted(d, x)
      BY <1>2, <2>5, <2>6, <2>7, <2>8, AttemptMoves, AttemptEnds
  <2>11. Goes(m, x.m, {h}) /\ x.kind \in {"failed", "lease", "await"}
      BY <2>5, <2>10, GoesIsTransitive DEF Attempted, Continued
  <2>12. Begins(m, x.m, r, q, one)
      BY <2>8, <2>9, <2>10, <2>11 DEF Begins
  <2> QED BY <2>7, <2>8, <2>11, <2>12, AwaitTurns
<1> QED BY <1>5, <1>6

\* The broker's variables are sound in the world there is.
LEMMA SteadyFollows ==
    ASSUME Steady(mem'), UNCHANGED world
    PROVE  Steady(mem)'
BY DEF Steady, Own, Alone, Given, AccountOf, Early, AtWork, Key, world

LEMMA SoundFollows ==
    ASSUME Sound(mem'), UNCHANGED <<world, spent>>
    PROVE  Sound(mem)'
<1>1. Waited(mem)' /\ OneOf(mem)'
    BY DEF Sound, Waited, Waits, Refreshing, OneOf, MayMove, AtWork, world
<1>2. \A f \in Flights : Aim(mem', mem'.flight[f])
    BY DEF Sound
<1>3. (\A f \in Flights : Aim(mem, mem.flight[f]))'
    BY <1>2 DEF Aim, AccountOf, world
<1>4. (\A s \in DOMAIN mem.sources : ServedOK(mem, s))'
    BY DEF Sound, ServedOK, Left, AccountOf, world
<1>5. Once(mem)'
    BY DEF Sound, Once, SpentOf, Left, Past, Cooling, AccountOf, world
<1> QED BY <1>1, <1>3, <1>4, <1>5 DEF Sound

LEMMA BrokerFollows ==
    ASSUME IndInv', UNCHANGED world
    PROVE  BrokerOK(mem')
BY DEF IndInv, BrokerOK, world

LEMMA WindowsKnown ==
    ASSUME IndInv, Windows
    PROVE  /\ AccountOK /\ RequestsOK /\ BrokerOK(mem) /\ FlightsOK(mem)
           /\ Steady(mem) /\ Sound(mem) /\ mem.cache \in Nat
BY DEF IndInv, Windows, BrokerOK, Brokers

\* A get that went on from what was left of the broker keeps every window.
LEMMA TurnedKeepsWindows ==
    ASSUME IndInv, Windows, IndInv', NEW r \in Requests, NEW m, BrokerOK(m),
           Goes(mem, m, Mine(r)), Turned(r, m), UNCHANGED <<world, official>>,
           \A q \in Requests \ {r} : req'[q] = req[q]
    PROVE  Windows'
<1>1. BrokerOK(mem') /\ UNCHANGED <<world, spent>>
    BY BrokerFollows DEF official
<1> DEFINE n == mem'
           mine == Mine(r)
<1>2. Goes(mem, n, mine)
  <2>1. Goes(mem, m, mine) /\ Goes(m, n, mine) /\ BrokerOK(n)
      BY <1>1 DEF Turned
  <2> HIDE DEF n, mine
  <2> QED BY <2>1, WindowsKnown, GoesIsTransitive
<1>3. Sound(n)
  <2>1. BrokerOK(n) /\ Alone(n)
      BY <1>1 DEF Turned, Steady
  <2> HIDE DEF n, mine
  <2> QED BY <1>2, <2>1, WindowsKnown, GoesKeepsSound
<1>4. Sound(mem)' /\ Steady(mem)'
    BY <1>1, <1>3, SoundFollows, SteadyFollows DEF Turned
<1>5. ASSUME NEW q \in Requests PROVE Unused(mem, q, req[q])'
  <2>1. CASE q = r
      BY <2>1 DEF Turned, Unused, Free
  <2>2. CASE q # r
    <3>1. req'[q] = req[q] /\ Unused(mem, q, req[q])
        BY <2>2 DEF Windows
    <3>2. ASSUME NEW i \in 1 .. 4 PROVE <<q, i>> \in Flights \ mine
        BY <2>2 DEF Flights, Mine
    <3>3. \A f \in Flights \ mine : n.flight[f].acq \in UnderWay => mem.flight[f].acq \in UnderWay
        BY <1>2 DEF Goes
    <3> QED BY <3>1, <3>2, <3>3 DEF Unused, Free
  <2> QED BY <2>1, <2>2
<1>6. (switches = 0 => switch = "open")'
    BY <1>1 DEF Windows, world
<1> QED BY <1>4, <1>5, <1>6 DEF Windows

LEMMA GoesAtFirst ==
    ASSUME IndInv, NEW began
    PROVE  BrokerOK(mem) /\ Goes(mem, mem, began)
BY GoesIsReflexive DEF IndInv, BrokerOK, Brokers

LEMMA BeginTurns ==
    ASSUME IndInv, Windows, NEW r \in Requests, Begin(r)
    PROVE  Windows'
<1> DEFINE q == [NoRequest EXCEPT !.holds = TRUE, !.gets = 1]
           no == FALSE
           zero == 0
<1>1. Get(r, q, mem, zero, no) /\ req[r].pc = "new" /\ UNCHANGED <<world, official>>
    BY DEF Begin
<1>2. RequestOK(q) /\ q.gets = 1 /\ q.gets > 0
  <2>1. 0 \in 0 .. 2 /\ 1 \in 0 .. 2 /\ 0 \in 0 .. 1 /\ 1 > 0
      OBVIOUS
  <2>2. /\ q \in RequestStates /\ q.gets = 1 /\ q.lease = None /\ q.pc = "new"
      BY <2>1 DEF NoRequest, RequestStates
  <2> QED BY <2>1, <2>2 DEF RequestOK, OfItsAccount
<1>3. zero \in 0 .. 1 /\ no \in BOOLEAN
    OBVIOUS
<1>4. Unbegun(mem, r, q, zero)
  <2>1. Free(mem, r, 1) /\ 2 * q.gets + zero - 1 = 1
      BY <1>1, <1>2 DEF Windows, Unused
  <2> QED BY <2>1 DEF Unbegun
<1> HIDE DEF q, no, zero
<1>5. Turned(r, mem)
    BY <1>1, <1>2, <1>3, <1>4, WindowsKnown, GetTurns
<1>6. (\A p \in Requests \ {r} : req'[p] = req[p]) /\ IndInv'
    BY BeginKeeps
<1> QED BY <1>1, <1>5, <1>6, GoesAtFirst, TurnedKeepsWindows

LEMMA RejectedTurns ==
    ASSUME IndInv, Windows, NEW r \in Requests, Rejected(r)
    PROVE  Windows'
<1> DEFINE q == [req[r] EXCEPT !.gets = 2, !.refused = req[r].lease]
           no == FALSE
           zero == 0
<1>1. Get(r, q, mem, zero, no) /\ UNCHANGED <<world, official>>
      /\ req[r].pc = "got" /\ req[r].gets = 1
    BY DEF Rejected
<1>2. RequestOK(q) /\ q.gets > 0 /\ q.gets = 2 /\ req[r].attempt \in 0 .. 1
  <2>1. RequestOK(req[r]) /\ req[r] \in RequestStates
      BY DEF IndInv, RequestsOK, RequestOK
  <2>2. 2 \in 0 .. 2 /\ 2 > 0
      OBVIOUS
  <2>3. /\ q \in RequestStates /\ q.gets = 2 /\ q.lease = req[r].lease
        /\ q.pc = req[r].pc /\ q.flight = req[r].flight
      BY <2>1, <2>2 DEF RequestStates
  <2> HIDE DEF q
  <2> QED BY <2>1, <2>2, <2>3 DEF RequestOK, RequestStates
<1>3. zero \in 0 .. 1 /\ no \in BOOLEAN
    OBVIOUS
<1>4. Unbegun(mem, r, q, zero)
  <2>1. Free(mem, r, 2 * req[r].gets + req[r].attempt)
      BY <1>1 DEF Windows, Unused
  <2>2. 2 * q.gets + zero - 1 >= 2 * req[r].gets + req[r].attempt
      BY <1>1, <1>2
  <2> HIDE DEF q, zero
  <2> QED BY <1>1, <1>2, <1>3, <2>1, <2>2 DEF Unbegun, Free
<1> HIDE DEF q, no, zero
<1>5. Turned(r, mem)
    BY <1>1, <1>2, <1>3, <1>4, WindowsKnown, GetTurns
<1>6. (\A p \in Requests \ {r} : req'[p] = req[p]) /\ IndInv'
    BY RejectedKeeps
<1> QED BY <1>1, <1>5, <1>6, GoesAtFirst, TurnedKeepsWindows

\* A request that is over begins nothing.
LEMMA OverTurns ==
    ASSUME NEW r \in Requests, RequestsOK, NEW m, BrokerOK(m), Steady(m),
           mem' = m, req' = [req EXCEPT ![r] = Over]
    PROVE  Turned(r, m)
<1>1. req'[r].pc = "over"
    BY OverIsOK DEF RequestsOK
<1>2. Goes(m, m, Mine(r))
    BY GoesIsReflexive DEF BrokerOK, Brokers
<1> QED BY <1>1, <1>2 DEF Turned, Unused

LEMMA AnsweredTurns ==
    ASSUME IndInv, Windows, NEW r \in Requests, Answered(r)
    PROVE  Windows'
<1>1. req' = [req EXCEPT ![r] = Over] /\ mem' = mem /\ UNCHANGED <<world, official>>
    BY DEF Answered
<1>2. Turned(r, mem)
    BY <1>1, WindowsKnown, OverTurns
<1>3. (\A p \in Requests \ {r} : req'[p] = req[p]) /\ IndInv'
    BY AnsweredKeeps
<1> QED BY <1>1, <1>2, <1>3, GoesAtFirst, TurnedKeepsWindows

LEMMA AbortTurns ==
    ASSUME IndInv, Windows, NEW r \in Requests, Abort(r)
    PROVE  Windows'
<1> DEFINE n == [req[r] EXCEPT !.holds = FALSE]
<1>1. /\ req' = [req EXCEPT ![r] = n] /\ mem' = mem /\ DOMAIN req = Requests
      /\ UNCHANGED <<world, official>>
    BY DEF Abort, IndInv, RequestsOK
<1>2. req[r] \in RequestStates
    BY DEF IndInv, RequestsOK, RequestOK
<1>3. n.pc = req[r].pc /\ n.gets = req[r].gets /\ n.attempt = req[r].attempt
    BY <1>2 DEF RequestStates
<1> HIDE DEF n
<1>4. Unused(mem', r, req'[r])
    BY <1>1, <1>3 DEF Windows, Unused
<1>5. Turned(r, mem)
    BY <1>1, <1>4, GoesAtFirst, WindowsKnown DEF Turned
<1>6. (\A p \in Requests \ {r} : req'[p] = req[p]) /\ IndInv'
    BY AbortKeeps
<1> QED BY <1>1, <1>5, <1>6, GoesAtFirst, TurnedKeepsWindows

\* A flight is forgotten by whoever heard of it last.
LEMMA DeliveredMoves ==
    ASSUME IndInv, Recall, Windows, NEW r \in Requests, req[r].pc = "await", NEW began
    PROVE  /\ Goes(mem, Delivered(r), began) /\ Steady(Delivered(r))
           /\ Delivered(r).inflight = mem.inflight /\ Delivered(r).cache = mem.cache
           /\ Delivered(r).closed = mem.closed
<1> DEFINE f == req[r].flight
           n == [mem EXCEPT !.flight[f] = NoFlight]
<1>1. f \in Flights /\ BrokerOK(mem) /\ Steady(mem) /\ mem.cache \in Nat
    BY WindowsKnown DEF IndInv, RequestsOK, RequestOK
<1>2. CASE Delivered(r) = mem
    BY <1>1, <1>2, GoesIsReflexive
<1>3. CASE Delivered(r) = n /\ mem.flight[f].acq = "over"
  <2>1. mem \in Brokers /\ mem.flight \in [Flights -> FlightStates]
        /\ mem.inflight \in Flights \cup {None}
      BY <1>1, SourcesAreNumbers
  <2>2. /\ n.sources = mem.sources /\ n.selected = mem.selected /\ n.value = mem.value
        /\ n.revision = mem.revision /\ n.inflight = mem.inflight
        /\ n.cache = mem.cache /\ n.paused = mem.paused /\ n.closed = mem.closed
        /\ n.flight = [mem.flight EXCEPT ![f] = NoFlight]
      BY <2>1 DEF Brokers
  <2>3. NoFlight.lease = None /\ NoFlight.acq = "none"
      BY DEF NoFlight
  <2>4. mem.inflight # f
    <3>1. f # None
        BY <1>1, BrokerAssumption DEF Flights
    <3> QED BY <1>1, <1>3, <3>1 DEF Recall, Remembered, Leased, Slot, UnderWay, Working
  <2> HIDE DEF n, f
  <2>5. \A g \in Flights :
          /\ g # f => n.flight[g] = mem.flight[g]
          /\ n.flight[f] = NoFlight
      BY <1>1, <2>1, <2>2
  <2>6. "none" \notin UnderWay /\ "none" \notin Working
        /\ "over" \notin UnderWay /\ "over" # "refresh"
      BY DEF UnderWay, Working
  <2>7. Goes(mem, n, began)
    <3>1. /\ n.closed = mem.closed /\ mem.cache <= n.cache
          /\ n.paused = generation <=> mem.paused = generation
          /\ Sourced(mem, n) /\ Refreshing(n) = Refreshing(mem)
        BY <1>1, <2>2 DEF Sourced, Refreshing
    <3>2. ASSUME NEW g \in Flights
          PROVE  /\ n.flight[g].acq \in Working =>
                      n.flight[g].acq = mem.flight[g].acq /\ n.flight[g].key = mem.flight[g].key
                 /\ mem.flight[g].acq = "refresh" =>
                      n.flight[g].acq = "refresh" /\ n.flight[g].key = mem.flight[g].key
                 /\ n.flight[g].acq \in UnderWay => mem.flight[g].acq \in UnderWay
      <4>1. CASE g = f
          BY <1>3, <2>3, <2>5, <2>6, <4>1
      <4>2. CASE g # f
          BY <2>5, <4>2
      <4> QED BY <4>1, <4>2
    <3> QED BY <3>1, <3>2 DEF Goes
  <2>8. Own(n)
      BY <1>1, <2>2 DEF Steady, Own, AccountOf
  <2>9. Given(n)
      BY <1>1, <2>2, <2>3, <2>5 DEF Steady, Given
  <2>10. Alone(n)
    <3>1. AtWork(n) = AtWork(mem)
        BY <1>3, <2>3, <2>5, <2>6 DEF AtWork, UnderWay
    <3>2. Key(n) = Key(mem)
        BY <2>2 DEF Key
    <3>3. n.inflight # None => n.flight[n.inflight] = mem.flight[mem.inflight]
        BY <2>1, <2>2, <2>4, <2>5
    <3>4. \A g \in Flights : n.flight[g].lease \in {mem.flight[g].lease, None}
        BY <2>3, <2>5
    <3> QED BY <1>1, <2>2, <3>1, <3>2, <3>3, <3>4 DEF Steady, Alone
  <2> QED BY <1>3, <2>2, <2>7, <2>8, <2>9, <2>10 DEF Steady, n, f
<1> QED BY <1>2, <1>3 DEF Delivered

\* A get drops what it waited for only if the value is gone too.
LEMMA ResumeTurns ==
    ASSUME IndInv, Recall, Windows, NEW r \in Requests, Resume(r)
    PROVE  Windows'
<1> DEFINE q == req[r]
           fl == mem.flight[q.flight]
           n == Delivered(r)
           c == Current(n)
           lost == fl.promise = "changed" \/ ~LeaseCurrent(c, fl.lease)
           m == IF fl.promise = "changed" THEN n ELSE c
           won == [kind |-> "lease", m |-> m, lease |-> fl.lease, force |-> q.force]
<1>1. /\ q.pc = "await" /\ fl.promise # "pending" /\ UNCHANGED <<world, official>>
      /\ \/ fl.promise = "failed" /\ mem' = n /\ req' = [req EXCEPT ![r] = Over]
         \/ lost /\ q.attempt = 0 /\ Get(r, q, m, q.attempt + 1, FALSE)
         \/ lost /\ mem' = m /\ req' = [req EXCEPT ![r] = Over]
         \/ ~lost /\ fl.promise # "failed" /\ q.attempt = 0 /\ Get(r, q, Drop(m), 1, TRUE)
         \/ ~lost /\ Await(r, q, q.attempt, won)
    BY DEF Resume, TriesAgain
<1>2. RequestOK(q) /\ q \in RequestStates /\ q.gets > 0 /\ q.flight \in Flights
    BY <1>1 DEF IndInv, RequestsOK, RequestOK
<1>3. /\ BrokerOK(n) /\ FlightsOK(n) /\ (\A began : Goes(mem, n, began)) /\ Steady(n)
      /\ n.inflight = mem.inflight /\ n.cache = mem.cache /\ n.closed = mem.closed
    BY <1>1, DeliveredContinues, DeliveredMoves DEF Continued
<1> HIDE DEF n
<1>4. BrokerOK(c) /\ FlightsOK(c) /\ (\A began : Goes(mem, c, began)) /\ Steady(c)
  <2>1. BrokerOK(c) /\ Onward(n, c)
      BY <1>3, CurrentGoesOn
  <2>2. (\A began : Goes(n, c, began)) /\ Steady(c)
      BY <1>3, WindowsKnown, CurrentMoves
  <2> HIDE DEF c
  <2>3. ASSUME NEW began PROVE Goes(mem, c, began)
    <3>1. Goes(mem, n, began) /\ Goes(n, c, began)
        BY <1>3, <2>2
    <3> QED BY <1>3, <2>1, <3>1, WindowsKnown, GoesIsTransitive
  <2> QED BY <1>3, <2>1, <2>2, <2>3, OnwardKeepsFlights
<1>5. Early => c = n
    BY <1>3, WindowsKnown, CurrentMoves
<1> HIDE DEF c
<1>6. BrokerOK(m) /\ FlightsOK(m) /\ (\A began : Goes(mem, m, began)) /\ Steady(m)
    BY <1>3, <1>4
<1>7. AccountOK /\ RequestsOK /\ BrokerOK(mem) /\ Goes(mem, m, Mine(r))
    BY <1>6, WindowsKnown
<1>8. IndInv' /\ \A p \in Requests \ {r} : req'[p] = req[p]
    BY ResumeKeeps
<1>9. Spare(m, r, q, q.attempt)
  <2>1. Free(mem, r, 2 * q.gets + q.attempt)
      BY <1>1 DEF Windows, Unused
  <2>2. Goes(mem, m, {})
      BY <1>6
  <2>3. \A i \in 1 .. 4 : <<r, i>> \in Flights
      BY DEF Flights
  <2> HIDE DEF q, m
  <2> QED BY <2>1, <2>2, <2>3 DEF Spare, Free, Goes
<1>10. CASE req' = [req EXCEPT ![r] = Over] /\ (mem' = n \/ mem' = m)
  <2>1. CASE mem' = n
    <3>1. Turned(r, n) /\ Goes(mem, n, Mine(r))
        BY <1>3, <1>7, <1>10, <2>1, OverTurns
    <3> QED BY <1>1, <1>3, <1>8, <3>1, TurnedKeepsWindows
  <2>2. CASE mem' = m
    <3> HIDE DEF m
    <3>1. Turned(r, m)
        BY <1>6, <1>7, <1>10, <2>2, OverTurns
    <3> QED BY <1>1, <1>6, <1>7, <1>8, <3>1, TurnedKeepsWindows
  <2> QED BY <1>10, <2>1, <2>2
<1>11. CASE q.attempt = 0 /\ Get(r, q, m, q.attempt + 1, FALSE)
  <2> DEFINE no == FALSE
             one == 1
  <2>1. q.attempt + 1 = one /\ one \in 0 .. 1
      BY <1>11
  <2>2. Get(r, q, m, one, no)
      BY <1>11, <2>1, Zenon
  <2>3. no \in BOOLEAN
      OBVIOUS
  <2>4. Unbegun(m, r, q, one)
    <3>1. q.gets \in 0 .. 2
        BY <1>2 DEF RequestStates
    <3>2. 2 * q.gets + one - 1 = 2 * q.gets + q.attempt
        BY <1>11, <3>1
    <3> HIDE DEF q, m, one
    <3> QED BY <1>9, <3>2 DEF Spare, Unbegun
  <2> HIDE DEF q, no, one, m
  <2>5. Turned(r, m)
      BY <1>2, <1>6, <1>7, <2>1, <2>2, <2>3, <2>4, GetTurns
  <2> QED BY <1>1, <1>6, <1>7, <1>8, <2>5, TurnedKeepsWindows
<1>12. CASE /\ ~lost /\ fl.promise # "failed"
            /\ q.attempt = 0 /\ Get(r, q, Drop(m), 1, TRUE)
  <2> DEFINE yes == TRUE
             one == 1
             d == Drop(m)
  <2>1. one \in 0 .. 1 /\ yes \in BOOLEAN
      OBVIOUS
  <2>2. Get(r, q, d, one, yes)
      BY <1>12, Zenon
  <2>3. Droppable(m)
    <3> SUFFICES ASSUME Early, ~m.closed PROVE m.inflight = None
        BY DEF Droppable
    <3>1. m = n /\ LeaseCurrent(m, fl.lease)
        BY <1>5, <1>12
    <3>2. fl.lease.cache = mem.cache /\ m.inflight = mem.inflight /\ ~mem.closed
        BY <1>3, <3>1 DEF LeaseCurrent
    <3>3. fl.lease # None
      <4>1. fl \in FlightStates
          BY <1>2, <1>7, SourcesAreNumbers
      <4>2. Told(fl) /\ fl.acq # "none"
          BY <1>1, <1>2 DEF Recall, Remembered, Recalls, Leased
      <4> QED BY <1>1, <1>12, <4>1, <4>2 DEF FlightStates, Told
    <3>4. mem.value # None
        BY <1>2, <3>2, <3>3 DEF Windows, Steady, Alone
    <3> QED BY <3>2, <3>4 DEF Windows, Steady, Alone
  <2>4. Unbegun(m, r, q, one)
    <3>1. q.gets \in 0 .. 2
        BY <1>2 DEF RequestStates
    <3>2. 2 * q.gets + one - 1 = 2 * q.gets + q.attempt
        BY <1>12, <3>1
    <3> HIDE DEF q, m, one
    <3> QED BY <1>9, <3>2 DEF Spare, Unbegun
  <2>5. BrokerOK(d) /\ FlightsOK(d) /\ Steady(d) /\ \A began : Goes(m, d, began)
    <3> HIDE DEF m
    <3> QED BY <1>6, <2>3, DropGoesOn, DropMoves, OnwardKeepsFlights
  <2> HIDE DEF q, m, d, one, yes
  <2>6. Goes(mem, d, Mine(r))
    <3>1. Goes(m, d, Mine(r))
        BY <2>5
    <3> QED BY <1>6, <1>7, <2>5, <3>1, GoesIsTransitive
  <2>7. Unbegun(d, r, q, one)
    <3>1. Goes(m, d, {}) /\ \A i \in 1 .. 4 : <<r, i>> \in Flights
        BY <2>5 DEF Flights
    <3> QED BY <2>4, <3>1 DEF Unbegun, Free, Goes
  <2>8. Turned(r, d)
      BY <1>2, <1>7, <2>1, <2>2, <2>5, <2>7, GetTurns
  <2> QED BY <1>1, <1>8, <2>5, <2>6, <2>8, TurnedKeepsWindows
<1>13. CASE Await(r, q, q.attempt, won)
  <2> DEFINE attempt == q.attempt
  <2>1. /\ won.kind = "lease" /\ won.m = m /\ Await(r, q, attempt, won)
        /\ attempt \in 0 .. 1 /\ Spare(m, r, q, attempt)
      BY <1>2, <1>9, <1>13 DEF RequestStates
  <2>2. Goes(m, m, Mine(r))
      BY <1>6, GoesIsReflexive DEF BrokerOK, Brokers
  <2> HIDE DEF won, m, q, attempt
  <2>3. Turned(r, m)
      BY <1>2, <1>6, <1>7, <2>1, <2>2, AwaitLeaves
  <2> QED BY <1>1, <1>6, <1>7, <1>8, <2>3, TurnedKeepsWindows
<1> HIDE DEF lost, won, fl, q, m
<1> QED BY <1>1, <1>10, <1>11, <1>12, <1>13

-----------------------------------------------------------------------------
(* Flights that end.                                                        *)

\* As Alone, but for the flight f.
AloneBut(m, f) ==
    Early /\ ~m.closed =>
      /\ \A g \in AtWork(m) \ {f} : g = m.inflight
      /\ m.inflight \notin {None, f} => m.value = None /\ m.flight[m.inflight].key = Key(m)
      /\ \A g \in Flights :
           m.flight[g].lease # None /\ m.flight[g].lease.cache = m.cache => m.value # None

\* A flight that ends leaves the slot it is in, and the others as they are.
LEMMA FailLeaves ==
    ASSUME NEW m, BrokerOK(m), NEW f \in Flights,
           NEW outcome \in {"changed", "failed", "done"}, NEW n, n = Fail(m, f, outcome)
    PROVE  /\ n.value = m.value /\ n.selected = m.selected /\ n.revision = m.revision
           /\ n.cache = m.cache /\ n.paused = m.paused /\ n.closed = m.closed
           /\ n.sources = m.sources
           /\ n.inflight = IF m.inflight = f THEN None ELSE m.inflight
           /\ \A g \in Flights \ {f} : n.flight[g] = m.flight[g]
           /\ n.flight[f].acq \in {"none", "over"}
           /\ n.flight[f].lease \in {m.flight[f].lease, None}
<1> DEFINE set == Settle(m.flight, f, outcome)
           p == [m EXCEPT !.flight = set]
           fl == Ended(p, f)
<1>1. n = [p EXCEPT !.flight[f] = fl, !.inflight = IF p.inflight = f THEN None
                                                   ELSE p.inflight]
    BY DEF Fail, End
<1>2. /\ m \in Brokers /\ m.flight \in [Flights -> FlightStates]
      /\ m.inflight \in Flights \cup {None}
    BY SourcesAreNumbers
<1>3. /\ set \in [Flights -> FlightStates]
      /\ \A g \in Flights \ {f} : set[g] = m.flight[g]
      /\ set[f].lease = m.flight[f].lease
    BY <1>2 DEF Settle, FlightStates
<1> HIDE DEF set
<1>4. /\ p.flight = set /\ p.inflight = m.inflight /\ p.value = m.value
      /\ p.selected = m.selected /\ p.revision = m.revision /\ p.sources = m.sources
      /\ p.cache = m.cache /\ p.paused = m.paused /\ p.closed = m.closed
      /\ p \in Brokers
    BY <1>2, <1>3 DEF Brokers
<1>5. fl.acq \in {"none", "over"} /\ fl.lease \in {m.flight[f].lease, None}
  <2>1. CASE ~\E q \in Requests : req[q].flight = f
    <3>1. fl = NoFlight
        BY <2>1 DEF Ended
    <3> QED BY <3>1 DEF NoFlight
  <2>2. CASE \E q \in Requests : req[q].flight = f
    <3>1. fl = [NoFlight EXCEPT !.acq = "over", !.promise = set[f].promise,
                                !.lease = set[f].lease]
        BY <1>4, <2>2 DEF Ended
    <3>2. fl.acq = "over" /\ fl.lease = set[f].lease
        BY <3>1 DEF NoFlight
    <3> QED BY <1>3, <3>2
  <2> QED BY <2>1, <2>2
<1> HIDE DEF fl, p
<1>6. /\ n.flight = [set EXCEPT ![f] = fl] /\ n.value = m.value
      /\ n.inflight = (IF m.inflight = f THEN None ELSE m.inflight)
      /\ n.selected = m.selected /\ n.revision = m.revision /\ n.sources = m.sources
      /\ n.cache = m.cache /\ n.paused = m.paused /\ n.closed = m.closed
    BY <1>1, <1>4 DEF Brokers
<1>7. n.flight[f] = fl /\ \A g \in Flights \ {f} : n.flight[g] = m.flight[g]
    BY <1>3, <1>6
<1> QED BY <1>5, <1>6, <1>7

LEMMA FailMoves ==
    ASSUME NEW m, BrokerOK(m), NEW f \in Flights, m.flight[f].acq # "refresh",
           Own(m), Given(m), AloneBut(m, f),
           NEW outcome \in {"changed", "failed", "done"}, NEW n, n = Fail(m, f, outcome),
           NEW began
    PROVE  Goes(m, n, began) /\ Steady(n)
<1>1. /\ n.value = m.value /\ n.selected = m.selected /\ n.revision = m.revision
      /\ n.cache = m.cache /\ n.paused = m.paused /\ n.closed = m.closed
      /\ n.sources = m.sources
      /\ n.inflight = (IF m.inflight = f THEN None ELSE m.inflight)
      /\ \A g \in Flights \ {f} : n.flight[g] = m.flight[g]
      /\ n.flight[f].acq \in {"none", "over"}
      /\ n.flight[f].lease \in {m.flight[f].lease, None}
    BY FailLeaves
<1>2. m.cache \in Nat /\ m.inflight \in Flights \cup {None}
    BY DEF BrokerOK, Brokers
<1>3. n.flight[f].acq \notin UnderWay /\ n.flight[f].acq \notin Working
    BY <1>1 DEF UnderWay, Working
<1>4. Goes(m, n, began)
  <2>1. /\ m.cache <= n.cache /\ Sourced(m, n) /\ Refreshing(n) = Refreshing(m)
        /\ n.paused = generation <=> m.paused = generation
      BY <1>1, <1>2 DEF Sourced, Refreshing
  <2>2. ASSUME NEW g \in Flights
        PROVE  /\ n.flight[g].acq \in Working =>
                    n.flight[g].acq = m.flight[g].acq /\ n.flight[g].key = m.flight[g].key
               /\ m.flight[g].acq = "refresh" =>
                    n.flight[g].acq = "refresh" /\ n.flight[g].key = m.flight[g].key
               /\ n.flight[g].acq \in UnderWay => m.flight[g].acq \in UnderWay
    <3>1. CASE g = f
        BY <1>3, <3>1
    <3>2. CASE g # f
      <4>1. n.flight[g] = m.flight[g]
          BY <1>1, <3>2
      <4> QED BY <4>1
    <3> QED BY <3>1, <3>2
  <2> QED BY <1>1, <2>1, <2>2 DEF Goes
<1>5. Own(n)
    BY <1>1 DEF Own, AccountOf
<1>6. \A g \in Flights : n.flight[g].lease \in {m.flight[g].lease, None}
    BY <1>1
<1>7. Given(n)
    BY <1>1, <1>6 DEF Given
<1>8. Alone(n)
  <2> SUFFICES ASSUME Early, ~n.closed
               PROVE  /\ \A g \in AtWork(n) : g = n.inflight
                      /\ n.inflight # None => n.value = None /\ n.flight[n.inflight].key = Key(n)
                      /\ \A g \in Flights :
                           n.flight[g].lease # None /\ n.flight[g].lease.cache = n.cache
                             => n.value # None
      BY DEF Alone
  <2>1. ASSUME NEW g \in AtWork(n) PROVE g = n.inflight
    <3>1. g \in Flights \ {f} /\ g \in AtWork(m)
        BY <1>1, <1>3 DEF AtWork
    <3>2. g = m.inflight
        BY <1>1, <3>1 DEF AloneBut
    <3> QED BY <1>1, <3>1, <3>2
  <2>2. ASSUME n.inflight # None
        PROVE  n.value = None /\ n.flight[n.inflight].key = Key(n)
    <3>1. n.inflight = m.inflight /\ m.inflight \in Flights \ {f}
        BY <1>1, <1>2, <2>2
    <3>2. m.value = None /\ m.flight[m.inflight].key = Key(m)
        BY <1>1, <2>2, <3>1 DEF AloneBut
    <3>3. Key(n) = Key(m) /\ n.flight[m.inflight] = m.flight[m.inflight]
        BY <1>1, <3>1 DEF Key
    <3> QED BY <1>1, <3>1, <3>2, <3>3
  <2>3. ASSUME NEW g \in Flights, n.flight[g].lease # None, n.flight[g].lease.cache = n.cache
        PROVE  n.value # None
      BY <1>1, <1>6, <2>3 DEF AloneBut
  <2> QED BY <2>1, <2>2, <2>3
<1> QED BY <1>4, <1>5, <1>7, <1>8 DEF Steady

LEMMA GuardedMoves ==
    ASSUME AccountOK, NEW m, BrokerOK(m), Steady(m), NEW f, NEW g, g = Guarded(m, f),
           NEW began
    PROVE  Goes(m, g.m, began) /\ Steady(g.m)
<1>1. g.m = m \/ g.m = Current(m)
    BY DEF Guarded
<1>2. Goes(m, m, began)
    BY GoesIsReflexive DEF BrokerOK, Brokers
<1> QED BY <1>1, <1>2, CurrentMoves

\* What the broker does on its own keeps every window.
LEMMA WorkKeepsWindows ==
    ASSUME IndInv, Windows, IndInv', NEW n, mem' = n, Goes(mem, n, {}), Steady(n),
           UNCHANGED <<world, official, req>>
    PROVE  Windows'
<1>1. BrokerOK(n) /\ UNCHANGED <<world, spent>>
    BY BrokerFollows DEF official
<1>2. Sound(n)
  <2>1. Alone(n)
      BY DEF Steady
  <2> DEFINE began == {}
  <2>2. Goes(mem, n, began)
      OBVIOUS
  <2> HIDE DEF began
  <2> QED BY <1>1, <2>1, <2>2, WindowsKnown, GoesKeepsSound
<1>3. Sound(mem)' /\ Steady(mem)'
    BY <1>1, <1>2, SoundFollows, SteadyFollows
<1>4. ASSUME NEW r \in Requests PROVE Unused(mem, r, req[r])'
  <2>1. req' = req /\ Unused(mem, r, req[r])
      BY DEF Windows
  <2>2. ASSUME NEW i \in 1 .. 4 PROVE <<r, i>> \in Flights
      BY DEF Flights
  <2>3. \A f \in Flights : n.flight[f].acq \in UnderWay => mem.flight[f].acq \in UnderWay
      BY DEF Goes
  <2> QED BY <2>1, <2>2, <2>3 DEF Unused, Free
<1>5. (switches = 0 => switch = "open")'
    BY <1>1 DEF Windows, world
<1> QED BY <1>3, <1>4, <1>5 DEF Windows

LEMMA BrokenTurns ==
    ASSUME IndInv, Windows, NEW f \in Flights, Broken(f)
    PROVE  Windows'
<1> DEFINE g == Guarded(mem, f)
           o == IF g.ok THEN "failed" ELSE "changed"
           b == g.m
           n == mem'
           began == {}
<1>1. n = Fail(b, f, o) /\ UNCHANGED <<world, official, req>>
      /\ mem.flight[f].acq = "broken"
    BY DEF Broken
<1>2. o \in {"changed", "failed", "done"}
    OBVIOUS
<1>3. BrokerOK(b) /\ Onward(mem, b) /\ Goes(mem, b, began) /\ Steady(b)
    BY WindowsKnown, GuardedGoesOn, GuardedMoves
<1> HIDE DEF g, o, b, began
<1>4. b.flight[f].acq # "refresh"
    BY <1>1, <1>3 DEF Onward
<1>5. Own(b) /\ Given(b) /\ AloneBut(b, f)
    BY <1>3 DEF Steady, Alone, AloneBut
<1>6. IndInv' /\ BrokerOK(n)
    BY <1>1, BrokenKeeps, BrokerFollows
<1> HIDE DEF n
<1>7. Goes(b, n, began) /\ Steady(n)
    BY <1>1, <1>2, <1>3, <1>4, <1>5, FailMoves
<1>8. Goes(mem, n, began)
    BY <1>3, <1>6, <1>7, WindowsKnown, GoesIsTransitive
<1> QED BY <1>1, <1>6, <1>7, <1>8, WorkKeepsWindows DEF n, began

\* A flight that reads again does so for the account there is.
LEMMA StoreTurns ==
    ASSUME IndInv, Windows, NEW f \in Flights, Store(f)
    PROVE  Windows'
<1> DEFINE fl == mem.flight[f]
           g == Guarded(mem, f)
           b == g.m
           lease == [bearer |-> fl.bearer, generation |-> fl.key.generation,
                     source |-> fl.key.source, revision |-> fl.key.revision,
                     cache |-> fl.key.cache, forced |-> fl.force]
           stored == [b EXCEPT !.value = lease, !.flight[f].lease = lease]
           n == mem'
           began == {}
<1>1. /\ fl.acq = "answer" /\ UNCHANGED <<world, official, req>>
      /\ \/ n = Fail(b, f, "changed")
         \/ n = Fail(b, f, "failed")
         \/ g.ok /\ n = [b EXCEPT !.flight[f].acq = "reading", !.flight[f].again = TRUE]
         \/ g.ok /\ n = Fail(stored, f, "done")
    BY DEF Store
<1>2. /\ BrokerOK(b) /\ FlightsOK(b) /\ Onward(mem, b)
      /\ g.ok => Matches(b, fl.key)
    BY WindowsKnown, GuardedGoesOn
<1>3. Goes(mem, b, began) /\ Steady(b)
    BY WindowsKnown, GuardedMoves
<1>4. /\ b \in Brokers /\ b.flight \in [Flights -> FlightStates] /\ b.cache \in Nat
      /\ b.inflight \in Flights \cup {None}
    BY <1>2 DEF BrokerOK, Brokers
<1>5. b.flight[f].acq = "answer" /\ b.flight[f].key = fl.key
    BY <1>1, <1>2 DEF Onward
<1>6. b.flight[f] \in FlightStates /\ WorksOK(b, b.flight[f])
    BY <1>2, <1>4 DEF FlightsOK
<1> HIDE DEF b, began
<1>7. Aim(b, b.flight[f])
  <2>1. Alone(b)
      BY <1>3 DEF Steady
  <2>2. Sound(b)
      BY <1>2, <1>3, <2>1, WindowsKnown, GoesKeepsSound
  <2> QED BY <2>2 DEF Sound
<1>8. IndInv' /\ BrokerOK(n)
    BY <1>1, StoreKeeps, BrokerFollows
<1>9. ASSUME g.ok
      PROVE  /\ ~b.closed /\ fl.key = Key(b)
             /\ fl.key.generation = generation /\ fl.key.source = b.selected
             /\ fl.key.cache = b.cache
    BY <1>2, <1>9 DEF Matches, Key
<1> HIDE DEF fl, n
<1>10. CASE n = Fail(b, f, "changed") \/ n = Fail(b, f, "failed")
  <2>1. /\ b.flight[f].acq # "refresh" /\ Own(b) /\ Given(b) /\ AloneBut(b, f)
      BY <1>3, <1>5 DEF Steady, Alone, AloneBut
  <2>2. Goes(b, n, began) /\ Steady(n)
      BY <1>2, <1>10, <2>1, FailMoves
  <2>3. Goes(mem, n, began)
      BY <1>2, <1>3, <1>8, <2>2, WindowsKnown, GoesIsTransitive
  <2> QED BY <1>1, <1>8, <2>2, <2>3, WorkKeepsWindows DEF n, began
<1>11. CASE g.ok /\ n = [b EXCEPT !.flight[f].acq = "reading", !.flight[f].again = TRUE]
  <2> DEFINE r == [b.flight[f] EXCEPT !.acq = "reading", !.again = TRUE]
  <2>1. n = [b EXCEPT !.flight[f] = r]
      BY <1>4, <1>11 DEF Brokers
  <2>2. r.acq = "reading" /\ r.key = b.flight[f].key /\ r.lease = b.flight[f].lease
      BY <1>6 DEF FlightStates
  <2> HIDE DEF r
  <2>3. /\ n.sources = b.sources /\ n.selected = b.selected /\ n.revision = b.revision
        /\ n.value = b.value /\ n.inflight = b.inflight /\ n.cache = b.cache
        /\ n.paused = b.paused /\ n.closed = b.closed
        /\ n.flight[f] = r /\ \A h \in Flights \ {f} : n.flight[h] = b.flight[h]
      BY <1>4, <2>1 DEF Brokers
  <2>4. /\ \A h \in Flights : n.flight[h].key = b.flight[h].key
        /\ \A h \in Flights : n.flight[h].lease = b.flight[h].lease
        /\ AtWork(n) = AtWork(b) /\ Key(n) = Key(b)
    <3>1. \A h \in Flights : /\ n.flight[h].key = b.flight[h].key
                             /\ n.flight[h].lease = b.flight[h].lease
                             /\ n.flight[h].acq \in Working <=> b.flight[h].acq \in Working
        BY <1>5, <2>2, <2>3 DEF Working
    <3> QED BY <2>3, <3>1 DEF AtWork, Key
  <2>5. Fresh(n, n.flight[f])
    <3>1. b.flight[f].acq \in Working /\ b.flight[f].key.source \in DOMAIN b.sources
        BY <1>5, <1>6 DEF WorksOK, Working
    <3>2. /\ b.flight[f].key.generation = AccountOf(b, b.flight[f].key.source)
          /\ b.paused # generation
        BY <1>5, <1>7, <1>9, <1>11, <3>1 DEF Aim
    <3> QED BY <1>5, <1>9, <1>11, <2>2, <2>3, <3>1, <3>2 DEF Fresh, AccountOf
  <2>6. Goes(b, n, began)
    <3>1. /\ b.cache <= n.cache /\ Sourced(b, n) /\ Refreshing(n) = Refreshing(b)
          /\ n.paused = generation <=> b.paused = generation
        BY <1>4, <2>3 DEF Sourced, Refreshing
    <3>2. ASSUME NEW h \in Flights
          PROVE  /\ n.flight[h].acq \in Working =>
                      \/ n.flight[h].acq = b.flight[h].acq /\ n.flight[h].key = b.flight[h].key
                      \/ Fresh(n, n.flight[h])
                 /\ b.flight[h].acq = "refresh" =>
                      n.flight[h].acq = "refresh" /\ n.flight[h].key = b.flight[h].key
                 /\ n.flight[h].acq \in UnderWay => b.flight[h].acq \in UnderWay
      <4>1. CASE h = f
        <5>1. b.flight[f].acq # "refresh" /\ b.flight[f].acq \in UnderWay
            BY <1>5 DEF UnderWay, Working
        <5> QED BY <2>5, <4>1, <5>1
      <4>2. CASE h # f
        <5>1. n.flight[h] = b.flight[h]
            BY <2>3, <4>2
        <5> QED BY <5>1
      <4> QED BY <4>1, <4>2
    <3> QED BY <2>3, <3>1, <3>2 DEF Goes
  <2>7. Steady(n)
    <3>1. Own(n) /\ Given(n)
        BY <1>3, <2>3, <2>4 DEF Steady, Own, AccountOf, Given
    <3>2. n.inflight # None => n.flight[n.inflight].key = b.flight[b.inflight].key
        BY <1>4, <2>3, <2>4
    <3>3. Alone(n)
        BY <1>3, <2>3, <2>4, <3>2 DEF Steady, Alone
    <3> QED BY <3>1, <3>3 DEF Steady
  <2>8. Goes(mem, n, began)
      BY <1>2, <1>3, <1>8, <2>6, WindowsKnown, GoesIsTransitive
  <2> QED BY <1>1, <1>8, <2>7, <2>8, WorkKeepsWindows DEF n, began
<1>12. CASE g.ok /\ n = Fail(stored, f, "done")
  <2>1. lease.cache = b.cache /\ lease \in Leases /\ lease # None
    <3>1. b.flight[f].key \in Keys /\ b.flight[f].force \in BOOLEAN
        BY <1>2, <1>5, <1>6 DEF BrokerOK, KeyOK, UnderWay, Working, FlightStates
    <3>2. b.flight[f].key.source \in Nat /\ b.flight[f].bearer \in Logins
      <4>1. b.flight[f].key.source \in DOMAIN b.sources /\ b.flight[f].bearer \in Logins
          BY <1>5, <1>6 DEF WorksOK, Working
      <4> QED BY <1>2, <4>1, SourcesAreNumbers
    <3>3. fl.bearer = b.flight[f].bearer /\ fl.force \in BOOLEAN
      <4>1. fl \in FlightStates
          BY WindowsKnown, SourcesAreNumbers DEF fl
      <4> QED BY <1>2, <4>1 DEF fl, Onward, FlightStates
    <3>4. lease \in Leases /\ lease.cache = b.cache
        BY <1>5, <1>9, <1>12, <3>1, <3>2, <3>3 DEF Leases, Keys
    <3> QED BY <3>4, LeaseAssumption
  <2> HIDE DEF lease
  <2> DEFINE w == [b.flight[f] EXCEPT !.lease = lease]
             u == [b EXCEPT !.value = lease]
  <2>2. stored = [u EXCEPT !.flight[f] = w]
      BY <1>4 DEF Brokers
  <2>3. /\ w.acq = b.flight[f].acq /\ w.key = b.flight[f].key /\ w.lease = lease
        /\ w \in FlightStates
      BY <1>6, <2>1 DEF FlightStates
  <2>4. /\ u \in Brokers /\ u.value = lease /\ u.cache = b.cache /\ u.paused = b.paused
        /\ u.selected = b.selected /\ u.revision = b.revision /\ u.closed = b.closed
        /\ u.sources = b.sources /\ u.flight = b.flight /\ u.inflight = b.inflight
      BY <1>4, <2>1 DEF Brokers
  <2> HIDE DEF u, w, stored
  <2>5. /\ stored.sources = b.sources /\ stored.selected = b.selected
        /\ stored.revision = b.revision
        /\ stored.value = lease /\ stored.inflight = b.inflight /\ stored.cache = b.cache
        /\ stored.paused = b.paused /\ stored.closed = b.closed
        /\ stored.flight[f] = w /\ \A h \in Flights \ {f} : stored.flight[h] = b.flight[h]
      BY <1>4, <2>2, <2>4 DEF Brokers
  <2>6. \A h \in Flights : /\ stored.flight[h].key = b.flight[h].key
                           /\ stored.flight[h].acq = b.flight[h].acq
                           /\ stored.flight[h].lease \in {b.flight[h].lease, lease}
      BY <2>3, <2>5
  <2>7. BrokerOK(stored)
    <3>1. fl.bearer[1] = generation /\ lease.bearer = fl.bearer /\ lease.generation = generation
          /\ lease.revision = b.revision /\ lease.source = b.selected
      <4>1. b.flight[f].bearer[1] = generation
          BY <1>5, <1>6, <1>9, <1>12 DEF WorksOK, Working
      <4>2. b.flight[f].bearer = fl.bearer
          BY <1>2 DEF fl, Onward
      <4> QED BY <1>9, <1>12, <4>1, <4>2 DEF lease, Key
    <3>2. BrokerOK(u) /\ OfItsAccount(lease)
        BY <1>2, <1>9, <1>12, <2>1, <2>4, <3>1
           DEF BrokerOK, ValueOK, KeyOK, OfItsAccount
    <3>3. KeyOK(u, w)
        BY <1>2, <2>3, <2>4 DEF BrokerOK, KeyOK
    <3> QED BY <2>2, <2>3, <3>2, <3>3, FlightSet
  <2>8. Goes(b, stored, began)
    <3>1. /\ b.cache <= stored.cache /\ Sourced(b, stored)
          /\ Refreshing(stored) = Refreshing(b)
          /\ stored.paused = generation <=> b.paused = generation
        BY <1>4, <2>5 DEF Sourced, Refreshing
    <3> QED BY <2>5, <2>6, <3>1 DEF Goes
  <2>9. Own(stored)
      BY <1>3, <2>5 DEF Steady, Own, AccountOf
  <2>10. Given(stored)
      BY <1>3, <1>4, <2>1, <2>5, <2>6 DEF Steady, Given
  <2>11. AloneBut(stored, f)
    <3> SUFFICES ASSUME Early, ~stored.closed
                 PROVE  /\ \A h \in AtWork(stored) \ {f} : h = stored.inflight
                        /\ stored.inflight \in {None, f}
        BY <2>1, <2>5 DEF AloneBut
    <3>1. \A h \in AtWork(b) : h = b.inflight
        BY <1>3, <2>5 DEF Steady, Alone
    <3>2. AtWork(stored) = AtWork(b) /\ f \in AtWork(b)
        BY <1>5, <2>6 DEF AtWork, Working
    <3> QED BY <2>5, <3>1, <3>2
  <2>12. stored.flight[f].acq # "refresh"
      BY <1>5, <2>3, <2>5
  <2> DEFINE done == "done"
  <2>13. done \in {"changed", "failed", "done"} /\ n = Fail(stored, f, done)
      BY <1>12
  <2> HIDE DEF done
  <2>14. Goes(stored, n, began) /\ Steady(n)
      BY <2>7, <2>9, <2>10, <2>11, <2>12, <2>13, FailMoves
  <2>15. Goes(mem, n, began)
    <3>1. Goes(mem, stored, began)
        BY <1>2, <1>3, <2>7, <2>8, WindowsKnown, GoesIsTransitive
    <3> QED BY <1>8, <2>7, <2>14, <3>1, WindowsKnown, GoesIsTransitive
  <2> QED BY <1>1, <1>8, <2>14, <2>15, WorkKeepsWindows DEF n, began
<1> QED BY <1>1, <1>10, <1>11, <1>12

-----------------------------------------------------------------------------
(* Flights at work and their sources.                                       *)

\* Only what flights at work do changes, and what their sources know.
Reworks(m, n) ==
    /\ n.value = m.value /\ n.selected = m.selected /\ n.revision = m.revision
    /\ n.inflight = m.inflight /\ n.cache = m.cache /\ n.paused = m.paused
    /\ n.closed = m.closed /\ DOMAIN n.sources = DOMAIN m.sources
    /\ \A s \in DOMAIN m.sources : AccountOf(n, s) = AccountOf(m, s)
    /\ \A f \in Flights :
         /\ n.flight[f].key = m.flight[f].key /\ n.flight[f].lease = m.flight[f].lease
         /\ n.flight[f].acq \in Working => m.flight[f].acq \in Working
         /\ n.flight[f].acq = "reading" => m.flight[f].acq = "reading"
         /\ n.flight[f].acq \in UnderWay => m.flight[f].acq \in UnderWay

LEMMA ReworksKeepsLeft ==
    ASSUME NEW m, NEW n, Reworks(m, n), NEW s \in DOMAIN m.sources, Left(m, s)
    PROVE  Left(n, s)
BY DEF Reworks, Left

LEMMA ReworkKeepsWindows ==
    ASSUME IndInv, Windows, NEW n, mem' = n, Reworks(mem, n),
           UNCHANGED <<generation, switch, switches, req>>, Waited(n), Once(mem)',
           (\A s \in DOMAIN mem.sources : ServedOK(mem, s))'
    PROVE  Windows'
<1>1. Steady(mem) /\ Sound(mem) /\ BrokerOK(mem) /\ FlightsOK(mem)
    BY WindowsKnown
<1>2. \A f \in AtWork(n) : f \in AtWork(mem)
    BY DEF AtWork, Reworks
<1>3. Steady(mem)'
  <2>1. Own(mem)'
      BY <1>1 DEF Steady, Own, Reworks, AccountOf
  <2>2. Given(mem)'
      BY <1>1 DEF Steady, Given, Reworks
  <2>3. Alone(mem)'
    <3>1. mem.inflight \in Flights \cup {None}
        BY <1>1 DEF BrokerOK, Brokers
    <3>2. Early' = Early /\ n.closed = mem.closed /\ Key(mem)' = Key(mem)
        BY DEF Early, Key, Reworks
    <3>3. n.inflight # None => n.flight[n.inflight].key = mem.flight[mem.inflight].key
        BY <3>1 DEF Reworks
    <3>4. \A f \in AtWork(mem)' : f \in AtWork(n)
        BY DEF AtWork
    <3> QED BY <1>1, <1>2, <3>2, <3>3, <3>4 DEF Steady, Alone, Reworks
  <2> QED BY <2>1, <2>2, <2>3 DEF Steady
<1>4. Sound(mem)'
  <2>1. OneOf(mem)'
    <3>1. \A f \in AtWork(mem)' : f \in AtWork(mem) /\ n.flight[f].key = mem.flight[f].key
        BY <1>2 DEF AtWork, Reworks
    <3> QED BY <1>1, <3>1 DEF Sound, OneOf, MayMove
  <2>2. Waited(mem)'
      BY DEF Waited, Waits, Refreshing
  <2>3. (\A f \in Flights : Aim(mem, mem.flight[f]))'
    <3> SUFFICES ASSUME NEW f \in Flights PROVE Aim(mem, mem.flight[f])'
        OBVIOUS
    <3>1. Aim(mem, mem.flight[f]) /\ WorksOK(mem, mem.flight[f])
        BY <1>1 DEF Sound, FlightsOK
    <3>2. /\ n.flight[f].key = mem.flight[f].key /\ n.cache = mem.cache
          /\ n.paused = mem.paused
          /\ n.flight[f].acq \in Working => mem.flight[f].acq \in Working
          /\ \A s \in DOMAIN mem.sources : AccountOf(n, s) = AccountOf(mem, s)
        BY DEF Reworks
    <3> QED BY <3>1, <3>2 DEF Aim, WorksOK, AccountOf
  <2> QED BY <2>1, <2>2, <2>3 DEF Sound
<1>5. ASSUME NEW r \in Requests PROVE Unused(mem, r, req[r])'
  <2>1. req' = req /\ Unused(mem, r, req[r])
      BY DEF Windows
  <2>2. ASSUME NEW i \in 1 .. 4 PROVE <<r, i>> \in Flights
      BY DEF Flights
  <2>3. \A f \in Flights : n.flight[f].acq \in UnderWay => mem.flight[f].acq \in UnderWay
      BY DEF Reworks
  <2> QED BY <2>1, <2>2, <2>3 DEF Unused, Free
<1> QED BY <1>3, <1>4, <1>5 DEF Windows

\* What was spent stays spent of a source that is not changed.
LEMMA OnceFollows ==
    ASSUME NEW n, mem' = n, generation' = generation,
           \A b \in Logins : \/ spent'[b] = 0
                             \/ spent'[b] = 1 /\ \E s \in DOMAIN n.sources : SpentOf(n, s, b)
    PROVE  Once(mem)'
BY DEF Once, SpentOf, Left, Past, Cooling, AccountOf

LEMMA SpentStays ==
    ASSUME NEW m, NEW n, Reworks(m, n), Once(m), NEW b \in Logins, NEW s,
           \A t \in DOMAIN m.sources \ {s} : n.sources[t] = m.sources[t],
           s \in DOMAIN m.sources /\ SpentOf(m, s, b) => SpentOf(n, s, b)
    PROVE  \/ spent[b] = 0
           \/ spent[b] = 1 /\ \E t \in DOMAIN n.sources : SpentOf(n, t, b)
<1> SUFFICES ASSUME spent[b] # 0
             PROVE  spent[b] = 1 /\ \E t \in DOMAIN n.sources : SpentOf(n, t, b)
    OBVIOUS
<1>1. spent[b] = 1 /\ \E t \in DOMAIN m.sources : SpentOf(m, t, b)
    BY DEF Once
<1>2. PICK t \in DOMAIN m.sources : SpentOf(m, t, b)
    BY <1>1
<1>3. t \in DOMAIN n.sources /\ AccountOf(n, t) = AccountOf(m, t)
    BY DEF Reworks
<1>4. CASE t = s
    BY <1>1, <1>2, <1>3, <1>4
<1>5. CASE t # s
  <2>1. n.sources[t] = m.sources[t]
      BY <1>5
  <2>2. Left(m, t) => Left(n, t)
      BY ReworksKeepsLeft
  <2>3. SpentOf(n, t, b)
      BY <1>2, <1>3, <2>1, <2>2 DEF SpentOf
  <2> QED BY <1>1, <1>3, <2>3
<1> QED BY <1>4, <1>5

\* A source and a flight are set.
Placed(m, s, src, f, w) == [m EXCEPT !.sources[s] = src, !.flight[f] = w]

PlacedOnly(m, s, src, f, w, n) ==
    /\ n.value = m.value /\ n.selected = m.selected /\ n.revision = m.revision
    /\ n.inflight = m.inflight /\ n.cache = m.cache /\ n.paused = m.paused
    /\ n.closed = m.closed /\ DOMAIN n.sources = DOMAIN m.sources
    /\ n.sources[s] = src /\ n.flight[f] = w
    /\ \A t \in DOMAIN m.sources \ {s} : n.sources[t] = m.sources[t]
    /\ \A g \in Flights \ {f} : n.flight[g] = m.flight[g]

LEMMA PlaceSet ==
    ASSUME NEW m, BrokerOK(m), NEW s \in DOMAIN m.sources, NEW src, NEW f \in Flights,
           NEW w
    PROVE  PlacedOnly(m, s, src, f, w, Placed(m, s, src, f, w))
<1> DEFINE n == Placed(m, s, src, f, w)
<1>1. m \in Brokers /\ m.flight \in [Flights -> FlightStates] /\ m.sources \in Seq(Sources)
    BY SourcesAreNumbers
<1>2. /\ n.value = m.value /\ n.selected = m.selected /\ n.revision = m.revision
      /\ n.inflight = m.inflight /\ n.cache = m.cache /\ n.paused = m.paused
      /\ n.closed = m.closed
      /\ n.sources = [m.sources EXCEPT ![s] = src]
      /\ n.flight = [m.flight EXCEPT ![f] = w]
    BY <1>1 DEF Brokers, Placed
<1> HIDE DEF n
<1>3. PlacedOnly(m, s, src, f, w, n)
    BY <1>1, <1>2 DEF PlacedOnly
<1> QED BY <1>3 DEF n

\* What a read leaves of its flight and its source.
ReadLeaves(f, s, n) ==
    LET source == mem.sources[s] IN
    /\ s \in DOMAIN mem.sources /\ mem.flight[f].acq = "reading"
    /\ Reworks(mem, n) /\ n.flight[f].acq # "reading"
    /\ \A t \in DOMAIN mem.sources \ {s} : n.sources[t] = mem.sources[t]
    /\ \A g \in Flights \ {f} : n.flight[g] = mem.flight[g]
    /\ \/ n.sources[s] = [source EXCEPT !.served = DiskBearer] /\ spent' = spent
       \/ n.sources[s] = source /\ spent' = spent
       \/ /\ n.sources[s] = [source EXCEPT !.refreshing = TRUE]
          /\ n.flight[f].acq = "refresh"
          /\ ~source.refreshing /\ ~Cooling(source)
          /\ spent' = [b \in Logins |-> IF b = source.served /\ spent[b] < 2
                                         THEN spent[b] + 1 ELSE spent[b]]

ReadTo(f, s, n, src, w) ==
    /\ s \in DOMAIN mem.sources /\ mem.flight[f].acq = "reading"
    /\ Reworks(mem, n) /\ n.flight[f].acq = w.acq /\ n.flight[f].acq # "reading"
    /\ n.sources[s] = src
    /\ \A t \in DOMAIN mem.sources \ {s} : n.sources[t] = mem.sources[t]
    /\ \A g \in Flights \ {f} : n.flight[g] = mem.flight[g]

LEMMA PlacesRework ==
    ASSUME NEW f \in Flights, NEW s \in DOMAIN mem.sources, NEW n, NEW src, NEW w,
           PlacedOnly(mem, s, src, f, w, n), src.generation = AccountOf(mem, s),
           mem.flight[f].acq = "reading", w.acq \in {"answer", "broken", "refresh"},
           w.key = mem.flight[f].key, w.lease = mem.flight[f].lease
    PROVE  ReadTo(f, s, n, src, w)
<1>1. /\ n.value = mem.value /\ n.selected = mem.selected /\ n.revision = mem.revision
      /\ n.inflight = mem.inflight /\ n.cache = mem.cache /\ n.paused = mem.paused
      /\ n.closed = mem.closed /\ DOMAIN n.sources = DOMAIN mem.sources
      /\ n.sources[s] = src /\ n.flight[f] = w
      /\ \A t \in DOMAIN mem.sources \ {s} : n.sources[t] = mem.sources[t]
      /\ \A g \in Flights \ {f} : n.flight[g] = mem.flight[g]
    BY DEF PlacedOnly
<1>2. \A t \in DOMAIN mem.sources : AccountOf(n, t) = AccountOf(mem, t)
  <2>1. AccountOf(n, s) = AccountOf(mem, s)
      BY <1>1 DEF AccountOf
  <2> QED BY <1>1, <2>1 DEF AccountOf
<1>3. ASSUME NEW g \in Flights
      PROVE  /\ n.flight[g].key = mem.flight[g].key /\ n.flight[g].lease = mem.flight[g].lease
             /\ n.flight[g].acq \in Working => mem.flight[g].acq \in Working
             /\ n.flight[g].acq = "reading" => mem.flight[g].acq = "reading"
             /\ n.flight[g].acq \in UnderWay => mem.flight[g].acq \in UnderWay
  <2>1. CASE g = f
      BY <1>1, <2>1 DEF Working, UnderWay
  <2>2. CASE g # f
    <3>1. n.flight[g] = mem.flight[g]
        BY <1>1, <2>2
    <3> QED BY <3>1
  <2> QED BY <2>1, <2>2
<1> QED BY <1>1, <1>2, <1>3 DEF Reworks, ReadTo

LEMMA ReadEffect ==
    ASSUME IndInv, NEW f \in Flights, Read(f), NEW s, s = mem.flight[f].key.source
    PROVE  ReadLeaves(f, s, mem')
<1> DEFINE fl == mem.flight[f]
           source == mem.sources[s]
           ans == [fl EXCEPT !.acq = "answer", !.bearer = DiskBearer]
           brk == [fl EXCEPT !.acq = "broken"]
           wts == [fl EXCEPT !.acq = "refresh"]
           srv == [source EXCEPT !.served = DiskBearer]
           rfr == [source EXCEPT !.refreshing = TRUE]
           counted == [b \in Logins |-> IF b = source.served /\ spent[b] < 2
                                        THEN spent[b] + 1 ELSE spent[b]]
           n == mem'
<1>1. /\ BrokerOK(mem) /\ FlightsOK(mem) /\ mem \in Brokers
      /\ mem.flight \in [Flights -> FlightStates] /\ mem.sources \in Seq(Sources)
    BY DEF IndInv, BrokerOK, Brokers
<1>2. fl.acq = "reading"
    BY DEF Read
<1>3. fl \in FlightStates /\ WorksOK(mem, fl)
    BY <1>1 DEF FlightsOK
<1>4. s \in DOMAIN mem.sources
    BY <1>2, <1>3 DEF WorksOK, Working
<1>5. source \in Sources
    BY <1>1, <1>4, SourceIsTyped
<1>6. /\ \A w \in {ans, brk, wts} : /\ w.key = mem.flight[f].key
                                   /\ w.lease = mem.flight[f].lease
      /\ ans.acq = "answer" /\ brk.acq = "broken" /\ wts.acq = "refresh"
    BY <1>3 DEF FlightStates
<1>7. /\ srv.generation = AccountOf(mem, s) /\ rfr.generation = AccountOf(mem, s)
      /\ source.generation = AccountOf(mem, s)
    BY <1>5 DEF Sources, AccountOf
<1>8. [mem.sources EXCEPT ![s] = source] = mem.sources
    BY <1>1
<1>9. CASE Served(f, DiskBearer) /\ spent' = spent
  <2>1. n = Placed(mem, s, srv, f, ans)
      BY <1>1, <1>9 DEF Placed, Served, Brokers
  <2> HIDE DEF n, srv, ans
  <2>2. PlacedOnly(mem, s, srv, f, ans, n)
      BY <1>1, <1>4, <2>1, PlaceSet
  <2>3. ReadTo(f, s, n, srv, ans)
      BY <1>2, <1>4, <1>6, <1>7, <2>2, PlacesRework
  <2> QED BY <1>9, <2>3 DEF ReadTo, ReadLeaves, n, srv, source
<1>10. CASE mem' = [mem EXCEPT !.flight[f].acq = "broken"] /\ spent' = spent
  <2>1. n = Placed(mem, s, source, f, brk)
      BY <1>1, <1>8, <1>10 DEF Placed, Brokers
  <2> HIDE DEF n, source, brk
  <2>2. PlacedOnly(mem, s, source, f, brk, n)
      BY <1>1, <1>4, <2>1, PlaceSet
  <2>3. ReadTo(f, s, n, source, brk)
      BY <1>2, <1>4, <1>6, <1>7, <2>2, PlacesRework
  <2> QED BY <1>10, <2>3 DEF ReadTo, ReadLeaves, n, source
<1>11. CASE mem' = [mem EXCEPT !.flight[f].acq = "refresh"] /\ spent' = spent
  <2>1. n = Placed(mem, s, source, f, wts)
      BY <1>1, <1>8, <1>11 DEF Placed, Brokers
  <2> HIDE DEF n, source, wts
  <2>2. PlacedOnly(mem, s, source, f, wts, n)
      BY <1>1, <1>4, <2>1, PlaceSet
  <2>3. ReadTo(f, s, n, source, wts)
      BY <1>2, <1>4, <1>6, <1>7, <2>2, PlacesRework
  <2> QED BY <1>11, <2>3 DEF ReadTo, ReadLeaves, n, source
<1>12. CASE /\ mem' = [[mem EXCEPT !.flight[f].acq = "refresh"]
                         EXCEPT !.sources[s].refreshing = TRUE]
            /\ ~Cooling(source) /\ ~source.refreshing /\ spent' = counted
  <2> DEFINE u == [mem EXCEPT !.flight[f].acq = "refresh"]
  <2>1. n = Placed(mem, s, rfr, f, wts)
    <3>1. u = [mem EXCEPT !.flight[f] = wts] /\ u.sources = mem.sources
        BY <1>1 DEF Brokers
    <3> HIDE DEF u
    <3>2. n = [u EXCEPT !.sources[s] = rfr]
        BY <1>1, <1>12, <3>1 DEF Brokers, u
    <3> HIDE DEF rfr, wts
    <3>3. n = [mem EXCEPT !.sources[s] = rfr, !.flight[f] = wts]
        BY <1>1, <3>1, <3>2 DEF Brokers
    <3> QED BY <3>3 DEF Placed
  <2> HIDE DEF n, rfr, wts
  <2>2. PlacedOnly(mem, s, rfr, f, wts, n)
      BY <1>1, <1>4, <2>1, PlaceSet
  <2>3. ReadTo(f, s, n, rfr, wts)
      BY <1>2, <1>4, <1>6, <1>7, <2>2, PlacesRework
  <2> QED BY <1>6, <1>12, <2>3 DEF ReadTo, ReadLeaves, n, rfr, source, counted
<1> QED BY <1>9, <1>10, <1>11, <1>12 DEF Read

\* The login on disk is another account's only for a source nobody but this
\* flight reads from.
LEMMA ForeignIsLeft ==
    ASSUME MaxSwitches <= 1, IndInv, Windows, NEW f \in Flights,
           mem.flight[f].acq = "reading", NEW s, s = mem.flight[f].key.source,
           diskAccount # AccountOf(mem, s)
    PROVE  /\ AccountOf(mem, s) # generation \/ mem.paused = generation
           /\ \A g \in Flights : mem.flight[g].acq = "reading" /\ mem.flight[g].key.source = s
                => g = f
<1>1. /\ AccountOK /\ BrokerOK(mem) /\ Own(mem) /\ OneOf(mem)
      /\ \A g \in Flights : Aim(mem, mem.flight[g]) /\ WorksOK(mem, mem.flight[g])
    BY WindowsKnown DEF Steady, Sound, FlightsOK
<1>2. s \in DOMAIN mem.sources
    BY <1>1 DEF WorksOK, Working
<1>3. AccountOf(mem, s) \in Nat /\ AccountOf(mem, s) <= generation
    BY <1>1, <1>2, SourceIsTyped DEF Own, AccountOf, Sources, Generations
<1>4. generation \in 0 .. 1 /\ switches \in 0 .. 1 /\ generation <= switches
  <2>1. generation \in 0 .. MaxSwitches /\ switches \in 0 .. MaxSwitches /\ MaxSwitches \in Nat
      BY <1>1, BrokerAssumption DEF AccountOK, Generations
  <2>2. generation <= switches
      BY <1>1 DEF AccountOK
  <2> QED BY <2>1, <2>2
<1>5. /\ AccountOf(mem, s) = 0 /\ MayMove
      /\ AccountOf(mem, s) # generation \/ mem.paused = generation
  <2>1. CASE switch = "moved"
    <3>1. generation < switches /\ mem.paused = generation
        BY <1>1, <2>1 DEF AccountOK, BrokerOK
    <3> QED BY <1>3, <1>4, <2>1, <3>1 DEF MayMove
  <2>2. CASE switch # "moved"
    <3>1. diskAccount = generation
        BY <1>1, <2>2 DEF AccountOK
    <3>2. AccountOf(mem, s) < generation
        BY <1>3, <1>4, <3>1
    <3>3. generation = 1 /\ AccountOf(mem, s) = 0
        BY <1>3, <1>4, <3>2
    <3> QED BY <3>3 DEF MayMove
  <2> QED BY <2>1, <2>2
<1>6. ASSUME NEW g \in Flights, mem.flight[g].acq = "reading", mem.flight[g].key.source = s
      PROVE  g \in AtWork(mem) /\ mem.flight[g].key.generation = 0
    BY <1>1, <1>5, <1>6 DEF Aim, AtWork, Working
<1>7. f \in AtWork(mem) /\ mem.flight[f].key.generation = 0
    BY <1>6
<1> QED BY <1>1, <1>5, <1>6, <1>7 DEF OneOf

\* What a read serves is of the source's account, or the source is left.
LEMMA ReadServes ==
    ASSUME MaxSwitches <= 1, IndInv, Windows, NEW f \in Flights, NEW s,
           s = mem.flight[f].key.source, NEW n, ReadLeaves(f, s, n)
    PROVE  Left(n, s) \/ diskAccount = AccountOf(mem, s)
<1> SUFFICES ASSUME diskAccount # AccountOf(mem, s) PROVE Left(n, s)
    OBVIOUS
<1>1. /\ AccountOf(mem, s) # generation \/ mem.paused = generation
      /\ \A g \in Flights : mem.flight[g].acq = "reading" /\ mem.flight[g].key.source = s
           => g = f
  <2>1. mem.flight[f].acq = "reading"
      BY DEF ReadLeaves
  <2> QED BY <2>1, ForeignIsLeft
<1>2. AccountOf(n, s) # generation \/ n.paused = generation
    BY <1>1 DEF ReadLeaves, Reworks
<1>3. ASSUME NEW g \in Flights, n.flight[g].acq = "reading" PROVE n.flight[g].key.source # s
  <2>1. mem.flight[g].acq = "reading" /\ n.flight[g].key = mem.flight[g].key /\ g # f
      BY <1>3 DEF ReadLeaves, Reworks
  <2> QED BY <1>1, <2>1
<1> QED BY <1>2, <1>3 DEF Left

\* A source is not asked to refresh a bearer spent already.
LEMMA ReadTurns ==
    ASSUME MaxSwitches <= 1, IndInv, Windows, NEW f \in Flights, Read(f)
    PROVE  Windows'
<1> DEFINE s == mem.flight[f].key.source
           source == mem.sources[s]
           n == mem'
           src == n.sources[s]
<1>1. ReadLeaves(f, s, n) /\ UNCHANGED <<world, child, req>>
    BY ReadEffect DEF Read
<1>2. IndInv' /\ BrokerOK(n)
    BY <1>1, ReadKeeps, BrokerFollows
<1>3. /\ AccountOK /\ BrokerOK(mem) /\ FlightsOK(mem) /\ Own(mem) /\ Sound(mem)
    BY WindowsKnown DEF Steady
<1>4. Left(n, s) \/ diskAccount = AccountOf(mem, s)
  <2> HIDE DEF n, s
  <2> QED BY <1>1, ReadServes DEF s
<1> HIDE DEF n
<1>5. /\ s \in DOMAIN mem.sources /\ Reworks(mem, n) /\ ~Left(mem, s)
      /\ AccountOf(n, s) = AccountOf(mem, s)
    BY <1>1 DEF ReadLeaves, Reworks, Left
<1>6. source \in Sources
    BY <1>3, <1>5, SourceIsTyped
<1>7. /\ version \in [Generations -> Nat] /\ AccountOf(mem, s) \in Generations
      /\ version[AccountOf(mem, s)] \in Nat /\ DiskBearer \in Logins
    BY <1>3, <1>6, AccountOnDisk DEF AccountOK, AccountOf, Sources, DiskBearer
<1>8. DiskBearer[1] = diskAccount /\ DiskBearer[2] = version[diskAccount]
    BY DEF DiskBearer
<1>9. source.served # None =>
        /\ source.served[1] = AccountOf(mem, s)
        /\ source.served[2] <= version[AccountOf(mem, s)]
        /\ source.served[2] \in Nat /\ source.served \in Logins
  <2>1. ServedOK(mem, s)
      BY <1>3, <1>5 DEF Sound
  <2>2. source.served # None => source.served \in Logins /\ source.served[2] \in Nat
      BY <1>6, BrokerAssumption DEF Sources
  <2> QED BY <1>5, <2>1, <2>2 DEF ServedOK
<1>10. \A t \in DOMAIN mem.sources \ {s} : n.sources[t] = mem.sources[t]
    BY <1>1 DEF ReadLeaves
<1>11. None \notin Logins
    BY LeaseAssumption
<1> DEFINE srv == [source EXCEPT !.served = DiskBearer]
           rfr == [source EXCEPT !.refreshing = TRUE]
           asks == /\ src = rfr /\ n.flight[f].acq = "refresh"
                   /\ ~source.refreshing /\ ~Cooling(source)
                   /\ spent' = [b \in Logins |-> IF b = source.served /\ spent[b] < 2
                                                  THEN spent[b] + 1 ELSE spent[b]]
<1>12. \/ src = srv /\ spent' = spent
       \/ src = source /\ spent' = spent
       \/ asks
    BY <1>1 DEF ReadLeaves
<1>13. /\ srv.served = DiskBearer /\ srv.refreshing = source.refreshing
       /\ srv.last = source.last
       /\ rfr.served = source.served /\ rfr.refreshing = TRUE /\ rfr.last = source.last
    BY <1>6 DEF Sources
<1> HIDE DEF s, source, srv, rfr, src
<1>14. src.served \in {source.served, DiskBearer} /\ (source.refreshing => src.refreshing)
       /\ src.last = source.last
    BY <1>12, <1>13
<1>15. Waited(n)
  <2> SUFFICES ASSUME NEW t \in Refreshing(n) PROVE \E g \in Flights : Waits(n, g, t)
      BY DEF Waited
  <2>1. CASE t \in Refreshing(mem)
    <3>1. PICK g \in Flights : Waits(mem, g, t)
        BY <1>3, <2>1 DEF Sound, Waited
    <3>2. g # f
        BY <1>1, <3>1 DEF Waits, ReadLeaves
    <3>3. n.flight[g] = mem.flight[g]
        BY <1>1, <3>2 DEF ReadLeaves
    <3> QED BY <3>1, <3>3 DEF Waits
  <2>2. CASE t \notin Refreshing(mem)
    <3>1. t \in DOMAIN mem.sources /\ ~mem.sources[t].refreshing /\ n.sources[t].refreshing
        BY <1>5, <2>2 DEF Refreshing, Reworks
    <3>2. t = s
        BY <1>10, <3>1
    <3>3. asks
        BY <1>12, <1>13, <3>1, <3>2 DEF src, source
    <3>4. n.flight[f].key = mem.flight[f].key
        BY <1>5 DEF Reworks
    <3> QED BY <3>2, <3>3, <3>4 DEF Waits, s
  <2> QED BY <2>1, <2>2
<1>16. ASSUME NEW t \in DOMAIN n.sources PROVE ServedOK(n, t)
  <2>1. t \in DOMAIN mem.sources /\ ServedOK(mem, t) /\ AccountOf(n, t) = AccountOf(mem, t)
      BY <1>3, <1>5 DEF Sound, Reworks
  <2>2. CASE t = s
    <3>1. CASE src.served = source.served
        BY <1>5, <1>9, <2>2, <3>1 DEF ServedOK, src
    <3>2. CASE src.served = DiskBearer /\ diskAccount = AccountOf(mem, s)
        BY <1>5, <1>7, <1>8, <2>2, <3>2 DEF ServedOK, src
    <3>3. CASE Left(n, s)
        BY <2>2, <3>3 DEF ServedOK
    <3> QED BY <1>4, <1>14, <3>1, <3>2, <3>3
  <2>3. CASE t # s
    <3>1. n.sources[t] = mem.sources[t] /\ (Left(mem, t) => Left(n, t))
        BY <1>5, <1>10, <2>1, <2>3, ReworksKeepsLeft
    <3> QED BY <2>1, <3>1 DEF ServedOK
  <2> QED BY <2>2, <2>3
<1>17. ASSUME NEW b \in Logins
       PROVE  \/ spent'[b] = 0
              \/ spent'[b] = 1 /\ \E t \in DOMAIN n.sources : SpentOf(n, t, b)
  <2>1. b[1] \in Nat /\ b[2] \in Nat /\ b = <<b[1], b[2]>>
      BY BrokerAssumption
  <2>2. CASE spent' = spent \/ b # source.served
    <3>1. spent'[b] = spent[b]
        BY <1>12, <2>2
    <3>2. SpentOf(mem, s, b) => SpentOf(n, s, b)
      <4> SUFFICES ASSUME SpentOf(mem, s, b), ~Left(n, s)
                   PROVE  AccountOf(n, s) = b[1] /\ Past(src, b)
          BY <1>5 DEF SpentOf, src
      <4>1. AccountOf(mem, s) = b[1] /\ Past(source, b)
          BY <1>5 DEF SpentOf, source
      <4>2. /\ source.served # None /\ source.served[1] = b[1] /\ b[2] <= source.served[2]
            /\ source.served = b => source.refreshing \/ Cooling(source)
          BY <4>1 DEF Past
      <4>3. CASE src.served = source.served
          BY <1>5, <1>14, <4>1, <4>2, <4>3 DEF Past, Cooling
      <4>4. CASE src.served = DiskBearer
        <5>1. DiskBearer[1] = b[1] /\ DiskBearer[2] = version[AccountOf(mem, s)]
            BY <1>4, <1>8, <4>1
        <5>2. b[2] <= DiskBearer[2]
            BY <1>7, <1>9, <2>1, <4>2, <5>1
        <5>3. DiskBearer = b => source.served = b
          <6> SUFFICES ASSUME DiskBearer = b PROVE source.served = b
              OBVIOUS
          <6>1. source.served[2] = b[2] /\ source.served[1] = b[1]
              BY <1>7, <1>9, <2>1, <4>2, <5>1
          <6>2. source.served = <<source.served[1], source.served[2]>>
              BY <1>9, <4>2, BrokerAssumption
          <6> QED BY <2>1, <6>1, <6>2
        <5>4. DiskBearer = b => src.refreshing \/ Cooling(src)
            BY <1>14, <4>2, <4>4, <5>3 DEF Cooling
        <5>5. Past(src, b)
            BY <1>7, <1>11, <4>4, <5>1, <5>2, <5>4 DEF Past
        <5> QED BY <1>5, <4>1, <5>5
      <4> QED BY <1>14, <4>3, <4>4
    <3>3. Once(mem)
        BY <1>3 DEF Sound
    <3> QED BY <1>5, <1>10, <3>1, <3>2, <3>3, SpentStays
  <2>3. CASE spent' # spent /\ b = source.served
    <3>1. asks
        BY <1>12, <2>3
    <3>2. source.served # None
        BY <1>11, <2>3
    <3>3. spent[b] = 0
      <4> SUFFICES ASSUME spent[b] # 0 PROVE FALSE
          OBVIOUS
      <4>1. \E t \in DOMAIN mem.sources : SpentOf(mem, t, b)
          BY <1>3 DEF Sound, Once
      <4>2. PICK t \in DOMAIN mem.sources : SpentOf(mem, t, b)
          BY <4>1
      <4>3. t = s
          BY <1>3, <1>5, <1>9, <2>3, <3>2, <4>2 DEF SpentOf, Own
      <4>4. Past(source, b)
          BY <1>5, <4>2, <4>3 DEF SpentOf, source
      <4> QED BY <2>3, <3>1, <4>4 DEF Past
    <3>4. spent'[b] = 1
        BY <2>3, <3>1, <3>3
    <3>5. src.served = b /\ src.refreshing
        BY <1>13, <2>3, <3>1
    <3>6. Past(src, b)
        BY <2>1, <2>3, <3>2, <3>5 DEF Past
    <3>7. SpentOf(n, s, b) /\ s \in DOMAIN n.sources
        BY <1>5, <1>9, <2>3, <3>2, <3>6 DEF SpentOf, src, Reworks
    <3> QED BY <3>4, <3>7
  <2> QED BY <2>2, <2>3
<1>18. Once(mem)'
    BY <1>1, <1>17, OnceFollows DEF n, world
<1>19. (\A t \in DOMAIN mem.sources : ServedOK(mem, t))'
    BY <1>1, <1>16 DEF n, ServedOK, Left, AccountOf, world
<1> QED BY <1>1, <1>2, <1>5, <1>15, <1>18, <1>19, ReworkKeepsWindows DEF n, world

-----------------------------------------------------------------------------
(* Official children and the end of a window.                               *)

\* What the end of a refresh leaves of the source and of the flights that
\* waited for it.
RefreshLeaves(s, served, n) ==
    /\ s \in DOMAIN mem.sources /\ Reworks(mem, n)
    /\ \E f \in Flights : Waits(mem, f, s)
    /\ n.sources[s].served = served /\ ~n.sources[s].refreshing /\ Cooling(n.sources[s])
    /\ \A t \in DOMAIN mem.sources \ {s} : n.sources[t] = mem.sources[t]
    /\ \A f \in Flights : Waits(mem, f, s) \/ n.flight[f] = mem.flight[f]

LEMMA RefreshedEffect ==
    ASSUME IndInv, Windows, queue # <<>>, NEW bearer \in Logins \cup {None},
           NEW ok \in BOOLEAN, Refreshed(bearer, ok), NEW s, s = Head(queue), NEW served,
           served = IF ok THEN bearer ELSE mem.sources[s].served
    PROVE  RefreshLeaves(s, served, mem')
<1> DEFINE old == mem.sources[s]
           last == [bearer |-> served, ok |-> ok]
           src == [old EXCEPT !.refreshing = FALSE, !.last = last, !.served = served]
           flights == [f \in Flights |->
              IF ~Waits(mem, f, s) THEN mem.flight[f]
              ELSE IF ok THEN [mem.flight[f] EXCEPT !.acq = "answer", !.bearer = bearer]
              ELSE [mem.flight[f] EXCEPT !.acq = "broken"]]
           n == mem'
<1>1. /\ BrokerOK(mem) /\ OfficialOK /\ mem \in Brokers
      /\ mem.flight \in [Flights -> FlightStates] /\ mem.sources \in Seq(Sources)
    BY DEF IndInv, BrokerOK, Brokers
<1>2. s \in DOMAIN mem.sources /\ s \in Refreshing(mem)
  <2>1. Queued(queue, Refreshing(mem))
      BY <1>1 DEF OfficialOK, Queued
  <2>2. s \in Refreshing(mem)
      BY <2>1, QueueTail
  <2> QED BY <2>2 DEF Refreshing
<1>3. old \in Sources /\ served \in Logins \cup {None}
  <2>1. old \in Sources
      BY <1>1, <1>2, SourceIsTyped
  <2> QED BY <2>1 DEF Sources
<1>4. \E f \in Flights : Waits(mem, f, s)
    BY <1>2, WindowsKnown DEF Sound, Waited
<1>5. last # None
    BY <1>3, LeaseAssumption
<1>6. n = [mem EXCEPT !.sources[s] = src, !.flight = flights]
  <2> DEFINE waited == \E f \in Flights : mem.flight[f].acq = "refresh"
                                           /\ mem.flight[f].key.source = s
  <2>1. n = [mem EXCEPT !.sources[s].refreshing = FALSE, !.sources[s].last = last,
                        !.sources[s].served = IF waited THEN served ELSE @,
                        !.flight = flights]
      BY DEF Refreshed, Waits
  <2>2. waited
      BY <1>4 DEF Waits
  <2> HIDE DEF flights, waited, last
  <2>3. [mem.sources EXCEPT ![s].refreshing = FALSE, ![s].last = last,
                            ![s].served = IF waited THEN served ELSE @]
          = [mem.sources EXCEPT ![s] = src]
      BY <1>1, <1>2, <1>3, <2>2 DEF Sources
  <2> HIDE DEF src, n
  <2> QED BY <1>1, <2>1, <2>3 DEF Brokers
<1>7. /\ src.served = served /\ src.last = last /\ src.refreshing = FALSE
      /\ src.generation = old.generation /\ last.bearer = served
    BY <1>3 DEF Sources
<1>8. ASSUME NEW f \in Flights
      PROVE  /\ flights[f].key = mem.flight[f].key /\ flights[f].lease = mem.flight[f].lease
             /\ flights[f].acq \in Working => mem.flight[f].acq \in Working
             /\ flights[f].acq = "reading" => mem.flight[f].acq = "reading"
             /\ flights[f].acq \in UnderWay => mem.flight[f].acq \in UnderWay
             /\ Waits(mem, f, s) \/ flights[f] = mem.flight[f]
  <2>1. mem.flight[f] \in FlightStates
      BY <1>1
  <2>2. CASE ~Waits(mem, f, s)
    <3>1. flights[f] = mem.flight[f]
        BY <2>2
    <3> HIDE DEF flights
    <3> QED BY <3>1
  <2>3. CASE Waits(mem, f, s) /\ ok
    <3>1. flights[f] = [mem.flight[f] EXCEPT !.acq = "answer", !.bearer = bearer]
        BY <2>3
    <3> HIDE DEF flights
    <3> QED BY <2>1, <2>3, <3>1 DEF FlightStates, UnderWay, Working, Waits
  <2>4. CASE Waits(mem, f, s) /\ ~ok
    <3>1. flights[f] = [mem.flight[f] EXCEPT !.acq = "broken"]
        BY <2>4
    <3> HIDE DEF flights
    <3> QED BY <2>1, <2>4, <3>1 DEF FlightStates, UnderWay, Working, Waits
  <2> QED BY <2>2, <2>3, <2>4
<1> HIDE DEF src, flights, last
<1>9. /\ n.value = mem.value /\ n.selected = mem.selected /\ n.revision = mem.revision
      /\ n.inflight = mem.inflight /\ n.cache = mem.cache /\ n.paused = mem.paused
      /\ n.closed = mem.closed
      /\ n.sources = [mem.sources EXCEPT ![s] = src] /\ n.flight = flights
  <2> HIDE DEF n
  <2> QED BY <1>1, <1>6 DEF Brokers
<1> HIDE DEF n
<1>10. /\ DOMAIN n.sources = DOMAIN mem.sources /\ n.sources[s] = src
       /\ \A t \in DOMAIN mem.sources \ {s} : n.sources[t] = mem.sources[t]
    BY <1>1, <1>2, <1>9
<1>11. \A t \in DOMAIN mem.sources : AccountOf(n, t) = AccountOf(mem, t)
  <2>1. AccountOf(n, s) = AccountOf(mem, s)
      BY <1>7, <1>10 DEF AccountOf
  <2> QED BY <1>10, <2>1 DEF AccountOf
<1>12. Reworks(mem, n)
    BY <1>8, <1>9, <1>10, <1>11 DEF Reworks
<1>13. ~n.sources[s].refreshing /\ n.sources[s].served = served /\ Cooling(n.sources[s])
    BY <1>5, <1>7, <1>10 DEF Cooling
<1> QED BY <1>2, <1>4, <1>8, <1>9, <1>10, <1>12, <1>13 DEF RefreshLeaves, n

\* Whoever waits for a source of the account before is the last to ask it.
LEMMA StaleIsLeft ==
    ASSUME MaxSwitches <= 1, IndInv, Windows, NEW s \in DOMAIN mem.sources,
           AccountOf(mem, s) # generation, NEW f \in Flights, Waits(mem, f, s)
    PROVE  Left(mem, s)
<1>1. /\ AccountOK /\ BrokerOK(mem) /\ Own(mem) /\ OneOf(mem)
      /\ \A g \in Flights : Aim(mem, mem.flight[g])
    BY WindowsKnown DEF Steady, Sound
<1>2. AccountOf(mem, s) \in Nat /\ AccountOf(mem, s) <= generation
    BY <1>1, SourceIsTyped DEF Own, AccountOf, Sources, Generations
<1>3. generation \in 0 .. 1
    BY <1>1, BrokerAssumption DEF AccountOK, Generations
<1>4. AccountOf(mem, s) = 0 /\ MayMove
    BY <1>2, <1>3 DEF MayMove
<1>5. ASSUME NEW g \in Flights, mem.flight[g].acq \in {"reading", "refresh"},
             mem.flight[g].key.source = s
      PROVE  g \in AtWork(mem) /\ mem.flight[g].key.generation = 0
    BY <1>1, <1>4, <1>5 DEF Aim, AtWork, Working
<1>6. \A g \in Flights : mem.flight[g].acq = "reading" => mem.flight[g].key.source # s
  <2> SUFFICES ASSUME NEW g \in Flights, mem.flight[g].acq = "reading",
                      mem.flight[g].key.source = s
               PROVE  FALSE
      OBVIOUS
  <2>1. f = g
      BY <1>1, <1>4, <1>5 DEF OneOf, Waits
  <2> QED BY <2>1 DEF Waits
<1> QED BY <1>6 DEF Left

\* The official answer is of the account there is, so that the source it comes
\* to is of that account, or left.
LEMMA EndsKeepWindows ==
    ASSUME MaxSwitches <= 1, IndInv, Windows, NEW n, mem' = n, NEW s, NEW served,
           RefreshLeaves(s, served, n), UNCHANGED <<generation, switch, switches, req, spent>>,
           \/ served = mem.sources[s].served
           \/ /\ served \in Logins /\ served[1] = generation
              /\ served[2] = version'[generation],
           \A a \in Generations : version'[a] \in Nat /\ version[a] <= version'[a]
    PROVE  Windows'
<1> DEFINE old == mem.sources[s]
           src == n.sources[s]
<1>1. /\ AccountOK /\ BrokerOK(mem) /\ Own(mem) /\ Sound(mem)
    BY WindowsKnown DEF Steady
<1>2. /\ s \in DOMAIN mem.sources /\ Reworks(mem, n)
      /\ src.served = served /\ ~src.refreshing /\ Cooling(src)
      /\ AccountOf(n, s) = AccountOf(mem, s)
    BY DEF RefreshLeaves, Reworks
<1>3. \A t \in DOMAIN mem.sources \ {s} : n.sources[t] = mem.sources[t]
    BY DEF RefreshLeaves
<1>4. ASSUME NEW t \in DOMAIN mem.sources
      PROVE  AccountOf(mem, t) \in Generations /\ version[AccountOf(mem, t)] \in Nat
    BY <1>1, SourceIsTyped DEF AccountOK, AccountOf, Sources
<1>5. ASSUME NEW t \in DOMAIN mem.sources, mem.sources[t].served # None
      PROVE  /\ mem.sources[t].served \in Logins /\ mem.sources[t].served[2] \in Nat
             /\ \/ Left(mem, t)
                \/ /\ mem.sources[t].served[1] = AccountOf(mem, t)
                   /\ mem.sources[t].served[2] <= version[AccountOf(mem, t)]
  <2>1. mem.sources[t].served \in Logins
      BY <1>1, <1>5, SourceIsTyped DEF Sources
  <2> QED BY <1>1, <1>5, <2>1, BrokerAssumption DEF Sound, ServedOK
<1>6. Left(mem, s) \/ AccountOf(mem, s) = generation
  <2>1. PICK f \in Flights : Waits(mem, f, s)
      BY DEF RefreshLeaves
  <2> QED BY <1>2, <2>1, StaleIsLeft
<1>7. Left(mem, s) => Left(n, s)
    BY <1>2, ReworksKeepsLeft
<1>8. Waited(n)
  <2> SUFFICES ASSUME NEW t \in Refreshing(n) PROVE \E g \in Flights : Waits(n, g, t)
      BY DEF Waited
  <2>1. t \in DOMAIN mem.sources /\ t # s
      BY <1>2 DEF Refreshing, Reworks
  <2>2. t \in Refreshing(mem)
      BY <1>3, <2>1 DEF Refreshing
  <2>3. PICK g \in Flights : Waits(mem, g, t)
      BY <1>1, <2>2 DEF Sound, Waited
  <2>4. n.flight[g] = mem.flight[g]
      BY <2>1, <2>3 DEF RefreshLeaves, Waits
  <2> QED BY <2>3, <2>4 DEF Waits
<1>9. (\A t \in DOMAIN mem.sources : ServedOK(mem, t))'
  <2> SUFFICES ASSUME NEW t \in DOMAIN n.sources
               PROVE  \/ n.sources[t].served = None \/ Left(n, t)
                      \/ /\ n.sources[t].served[1] = AccountOf(n, t)
                         /\ n.sources[t].served[2] <= version'[AccountOf(n, t)]
      BY DEF ServedOK, Left, AccountOf
  <2>1. /\ t \in DOMAIN mem.sources /\ AccountOf(n, t) = AccountOf(mem, t)
        /\ Left(mem, t) => Left(n, t)
      BY <1>2, ReworksKeepsLeft DEF Reworks
  <2>2. /\ version[AccountOf(mem, t)] <= version'[AccountOf(mem, t)]
        /\ version'[AccountOf(mem, t)] \in Nat /\ version[AccountOf(mem, t)] \in Nat
      BY <1>4, <2>1
  <2>3. CASE n.sources[t].served = mem.sources[t].served
      BY <1>5, <2>1, <2>2, <2>3
  <2>4. CASE n.sources[t].served # mem.sources[t].served
    <3>1. t = s
        BY <1>3, <2>1, <2>4
    <3>2. served # old.served /\ n.sources[t].served = served
        BY <1>2, <2>4, <3>1
    <3> QED BY <1>6, <1>7, <2>1, <2>2, <3>1, <3>2
  <2> QED BY <2>3, <2>4
<1>10. Once(mem)'
  <2> SUFFICES ASSUME NEW b \in Logins
               PROVE  \/ spent'[b] = 0
                      \/ spent'[b] = 1 /\ \E t \in DOMAIN n.sources : SpentOf(n, t, b)
      BY OnceFollows
  <2>1. b[1] \in Nat /\ b[2] \in Nat
      BY BrokerAssumption
  <2>2. SpentOf(mem, s, b) => SpentOf(n, s, b)
    <3> SUFFICES ASSUME SpentOf(mem, s, b), ~Left(n, s)
                 PROVE  AccountOf(n, s) = b[1] /\ Past(src, b)
        BY <1>2 DEF SpentOf
    <3>1. AccountOf(mem, s) = b[1] /\ Past(old, b) /\ ~Left(mem, s)
        BY <1>7 DEF SpentOf
    <3>2. AccountOf(mem, s) = generation
        BY <1>6, <3>1
    <3>3. old.served # None /\ old.served[1] = b[1] /\ b[2] <= old.served[2]
        BY <3>1 DEF Past
    <3>4. old.served[2] \in Nat /\ old.served[2] <= version[generation]
        BY <1>2, <1>5, <3>1, <3>2, <3>3
    <3>5. version[generation] \in Nat /\ version'[generation] \in Nat
          /\ version[generation] <= version'[generation]
        BY <1>2, <1>4, <3>2
    <3>6. served # None /\ served[1] = b[1] /\ b[2] <= served[2]
      <4>1. CASE served = old.served
          BY <3>3, <4>1
      <4>2. CASE served \in Logins /\ served[1] = generation /\ served[2] = version'[generation]
          BY <2>1, <3>1, <3>2, <3>3, <3>4, <3>5, <4>2, LeaseAssumption
      <4> QED BY <4>1, <4>2
    <3> QED BY <1>2, <3>1, <3>6 DEF Past
  <2>3. spent'[b] = spent[b] /\ Once(mem)
      BY <1>1 DEF Sound
  <2> QED BY <1>2, <1>3, <2>2, <2>3, SpentStays
<1> QED BY <1>2, <1>8, <1>9, <1>10, ReworkKeepsWindows

LEMMA OfficialAnswersTurns ==
    ASSUME MaxSwitches <= 1, IndInv, Windows, OfficialAnswers
    PROVE  Windows'
<1> DEFINE newer == <<child[1], version[child[1]] + 1>>
           same == <<child[1], version[child[1]]>>
           s == Head(queue)
           yes == TRUE
<1>1. /\ child # None
      /\ UNCHANGED <<generation, switch, switches, diskAccount, aged>>
      /\ \/ /\ newer \in Logins
            /\ version' = [version EXCEPT ![child[1]] = version[child[1]] + 1]
            /\ Refreshed(newer, yes)
         \/ version' = version /\ Refreshed(same, yes)
    BY DEF OfficialAnswers
<1>2. /\ AccountOK /\ child[1] = generation /\ queue # <<>> /\ generation \in Generations
      /\ version \in [Generations -> Nat] /\ same \in Logins
    BY <1>1 DEF IndInv, OfficialOK, AccountOK
<1>3. PICK bearer \in Logins :
        /\ Refreshed(bearer, yes) /\ bearer[1] = generation
        /\ bearer[2] = version'[generation]
        /\ \A a \in Generations : version'[a] \in Nat /\ version[a] <= version'[a]
  <2>1. CASE /\ newer \in Logins /\ Refreshed(newer, yes)
             /\ version' = [version EXCEPT ![child[1]] = version[child[1]] + 1]
    <3>1. /\ newer[1] = generation /\ newer[2] = version'[generation]
          /\ \A a \in Generations : version'[a] \in Nat /\ version[a] <= version'[a]
        BY <1>2, <2>1
    <3> HIDE DEF newer, yes
    <3> QED BY <2>1, <3>1
  <2>2. CASE version' = version /\ Refreshed(same, yes)
    <3>1. /\ same[1] = generation /\ same[2] = version'[generation]
          /\ \A a \in Generations : version'[a] \in Nat /\ version[a] <= version'[a]
        BY <1>2, <2>2
    <3> HIDE DEF same, yes
    <3> QED BY <1>2, <2>2, <3>1
  <2> QED BY <1>1, <2>1, <2>2
<1>4. UNCHANGED <<spent, req>> /\ yes \in BOOLEAN
    BY <1>3 DEF Refreshed
<1> DEFINE n == mem'
<1>5. RefreshLeaves(s, bearer, n)
  <2>1. bearer = IF yes THEN bearer ELSE mem.sources[s].served
      OBVIOUS
  <2> HIDE DEF yes, s
  <2> QED BY <1>2, <1>3, <1>4, <2>1, RefreshedEffect DEF s
<1> HIDE DEF s, n, yes
<1> QED BY <1>1, <1>3, <1>4, <1>5, EndsKeepWindows DEF n

LEMMA OfficialFailsTurns ==
    ASSUME MaxSwitches <= 1, IndInv, Windows, OfficialFails
    PROVE  Windows'
<1> DEFINE s == Head(queue)
           no == FALSE
           served == mem.sources[s].served
           n == mem'
<1>1. queue # <<>> /\ Refreshed(None, no) /\ UNCHANGED world
    BY DEF OfficialFails
<1>2. UNCHANGED <<spent, req>> /\ no \in BOOLEAN
    BY <1>1 DEF Refreshed
<1>3. served = IF no THEN None ELSE mem.sources[s].served
    OBVIOUS
<1>4. \A a \in Generations : version'[a] \in Nat /\ version[a] <= version'[a]
    BY <1>1, WindowsKnown DEF AccountOK, world
<1> HIDE DEF s, no, served, n
<1>5. RefreshLeaves(s, served, n)
    BY <1>1, <1>2, <1>3, RefreshedEffect DEF s, n
<1> QED BY <1>1, <1>2, <1>4, <1>5, EndsKeepWindows DEF n, served, world

\* A window ends for the bearers of one account: its source may ask again.
LEMMA CooldownEndsTurns ==
    ASSUME IndInv, Windows, NEW s, CooldownEnds(s)
    PROVE  Windows'
<1> DEFINE src == [mem.sources[s] EXCEPT !.last = None]
           n == mem'
<1>1. /\ s \in DOMAIN mem.sources /\ mem' = [mem EXCEPT !.sources[s].last = None]
      /\ spent' = [b \in Logins |-> IF b[1] = AccountOf(mem, s) THEN 0 ELSE spent[b]]
      /\ UNCHANGED <<world, req>>
    BY DEF CooldownEnds, AccountOf
<1>2. BrokerOK(mem) /\ mem \in Brokers /\ mem.sources \in Seq(Sources) /\ Sound(mem)
    BY WindowsKnown, SourcesAreNumbers
<1>3. mem.sources[s] \in Sources
    BY <1>1, <1>2, SourceIsTyped
<1>4. /\ src.generation = mem.sources[s].generation /\ src.served = mem.sources[s].served
      /\ src.refreshing = mem.sources[s].refreshing
    BY <1>3 DEF Sources
<1>5. n = [mem EXCEPT !.sources[s] = src]
    BY <1>1, <1>2 DEF Brokers
<1> HIDE DEF src, n
<1>6. /\ n.value = mem.value /\ n.selected = mem.selected /\ n.revision = mem.revision
      /\ n.inflight = mem.inflight /\ n.cache = mem.cache /\ n.paused = mem.paused
      /\ n.closed = mem.closed /\ n.sources = [mem.sources EXCEPT ![s] = src]
      /\ n.flight = mem.flight
    BY <1>2, <1>5 DEF Brokers
<1>7. /\ DOMAIN n.sources = DOMAIN mem.sources /\ n.sources[s] = src
      /\ \A t \in DOMAIN mem.sources \ {s} : n.sources[t] = mem.sources[t]
    BY <1>1, <1>2, <1>6
<1>8. ASSUME NEW t \in DOMAIN mem.sources
      PROVE  /\ AccountOf(n, t) = AccountOf(mem, t)
             /\ n.sources[t].served = mem.sources[t].served
             /\ n.sources[t].refreshing = mem.sources[t].refreshing
  <2>1. CASE t = s
      BY <1>4, <1>7, <2>1 DEF AccountOf
  <2>2. CASE t # s
      BY <1>7, <2>2 DEF AccountOf
  <2> QED BY <2>1, <2>2
<1>9. Reworks(mem, n)
    BY <1>6, <1>7, <1>8 DEF Reworks
<1>10. Waited(n)
    BY <1>2, <1>6, <1>7, <1>8 DEF Sound, Waited, Waits, Refreshing
<1>11. (\A t \in DOMAIN mem.sources : ServedOK(mem, t))'
  <2> SUFFICES ASSUME NEW t \in DOMAIN n.sources PROVE ServedOK(mem, t)'
      BY DEF n
  <2>1. t \in DOMAIN mem.sources /\ (Left(mem, t) => Left(n, t)) /\ ServedOK(mem, t)
      BY <1>2, <1>7, <1>9, ReworksKeepsLeft DEF Sound
  <2>2. ServedOK(n, t)
      BY <1>8, <2>1 DEF ServedOK
  <2> QED BY <1>1, <2>2 DEF n, ServedOK, Left, AccountOf, world
<1>12. Once(mem)'
  <2> SUFFICES ASSUME NEW b \in Logins
               PROVE  \/ spent'[b] = 0
                      \/ spent'[b] = 1 /\ \E t \in DOMAIN n.sources : SpentOf(n, t, b)
      BY <1>1, OnceFollows DEF n, world
  <2>1. CASE b[1] = AccountOf(mem, s)
      BY <1>1, <2>1
  <2>2. CASE b[1] # AccountOf(mem, s)
    <3>1. spent'[b] = spent[b] /\ ~SpentOf(mem, s, b) /\ Once(mem)
        BY <1>1, <1>2, <2>2 DEF SpentOf, Sound
    <3> QED BY <1>7, <1>9, <3>1, SpentStays
  <2> QED BY <2>1, <2>2
<1> QED BY <1>1, <1>9, <1>10, <1>11, <1>12, ReworkKeepsWindows DEF n, world

-----------------------------------------------------------------------------
(* The account switch and shutdown.                                         *)

\* The world goes on under the same account: logins are only replaced by later
\* ones, and a switch that begins ends what was early.
LEMMA WorldKeepsWindows ==
    ASSUME IndInv, Windows, UNCHANGED <<generation, mem, spent, req>>,
           \A a \in Generations : version'[a] \in Nat /\ version[a] <= version'[a],
           Early' => Early, MayMove' => MayMove, (switches = 0 => switch = "open")'
    PROVE  Windows'
<1>1. /\ AccountOK /\ BrokerOK(mem) /\ Steady(mem) /\ Sound(mem)
    BY WindowsKnown
<1>2. Steady(mem)'
  <2>1. Own(mem)' /\ Given(mem)'
      BY <1>1 DEF Steady, Own, Given, AccountOf
  <2>2. Alone(mem)'
      BY <1>1 DEF Steady, Alone, AtWork, Key
  <2> QED BY <2>1, <2>2 DEF Steady
<1>3. Sound(mem)'
  <2>1. Waited(mem)' /\ OneOf(mem)'
      BY <1>1 DEF Sound, Waited, Waits, Refreshing, OneOf, AtWork
  <2>2. (\A f \in Flights : Aim(mem, mem.flight[f]))'
      BY <1>1 DEF Sound, Aim, AccountOf
  <2>3. Once(mem)'
      BY <1>1 DEF Sound, Once, SpentOf, Left, Past, Cooling, AccountOf
  <2>4. ASSUME NEW s \in DOMAIN mem.sources PROVE ServedOK(mem, s)'
    <3>1. /\ ServedOK(mem, s) /\ AccountOf(mem, s) \in Generations
          /\ version[AccountOf(mem, s)] \in Nat
        BY <1>1, SourceIsTyped DEF Sound, AccountOK, AccountOf, Sources
    <3>2. /\ version'[AccountOf(mem, s)] \in Nat
          /\ version[AccountOf(mem, s)] <= version'[AccountOf(mem, s)]
        BY <3>1
    <3>3. mem.sources[s].served # None => mem.sources[s].served[2] \in Nat
      <4>1. mem.sources[s].served # None => mem.sources[s].served \in Logins
          BY <1>1, SourceIsTyped DEF Sources
      <4> QED BY <4>1, BrokerAssumption
    <3> QED BY <3>1, <3>2, <3>3 DEF ServedOK, Left, AccountOf
  <2>5. (\A s \in DOMAIN mem.sources : ServedOK(mem, s))'
      BY <2>4
  <2> QED BY <2>1, <2>2, <2>3, <2>5 DEF Sound
<1>4. ASSUME NEW r \in Requests PROVE Unused(mem, r, req[r])'
    BY DEF Windows, Unused, Free
<1> QED BY <1>2, <1>3, <1>4 DEF Windows

LEMMA WorldTurns ==
    ASSUME MaxSwitches <= 1, IndInv, Windows,
           Launch \/ Login \/ Age \/ Freeze \/ Move \/ Undo \/ UNCHANGED vars
    PROVE  Windows'
<1>1. UNCHANGED <<generation, mem, spent, req>>
    BY DEF Launch, Login, Age, Freeze, Move, Undo, vars, world, official
<1>2. /\ AccountOK /\ switches \in Nat /\ switches <= MaxSwitches /\ MaxSwitches \in Nat
      /\ switches = 0 => switch = "open"
    BY WindowsKnown, BrokerAssumption DEF AccountOK, Generations, Windows
<1>3. \A a \in Generations : version'[a] \in Nat /\ version[a] <= version'[a]
  <2>1. version \in [Generations -> Nat] /\ diskAccount \in Generations
      BY <1>2, AccountOnDisk DEF AccountOK
  <2>2. version' = version \/ version' = [version EXCEPT ![diskAccount] = version[diskAccount] + 1]
      BY DEF Launch, Login, Age, Freeze, Move, Undo, vars, world
  <2> QED BY <2>1, <2>2
<1>4. CASE Launch \/ Login \/ Age \/ UNCHANGED vars
  <2>1. UNCHANGED <<switch, switches>>
      BY <1>4 DEF Launch, Login, Age, vars, world
  <2> QED BY <1>1, <1>2, <1>3, <2>1, WorldKeepsWindows DEF Early, MayMove
<1>5. CASE Freeze
  <2>1. switch = "open" /\ switches < MaxSwitches /\ switches' = switches + 1
      BY <1>5 DEF Freeze
  <2>2. switches = 0 /\ switches' # 0
      BY <1>2, <2>1
  <2> QED BY <1>1, <1>3, <2>1, <2>2, WorldKeepsWindows DEF Early, MayMove
<1>6. CASE Move
  <2>1. switch = "stopping" /\ switch' = "moved" /\ switches' = switches
      BY <1>6 DEF Move
  <2> QED BY <1>1, <1>2, <1>3, <2>1, WorldKeepsWindows DEF Early, MayMove
<1>7. CASE Undo
  <2>1. switch # "open" /\ switch' \in {"open", "reopened"} /\ switches' = switches
      BY <1>7 DEF Undo
  <2>2. switches # 0
      BY <1>2, <2>1
  <2> QED BY <1>1, <1>3, <2>1, <2>2, WorldKeepsWindows DEF Early, MayMove
<1> QED BY <1>4, <1>5, <1>6, <1>7

\* The next account has no source yet, and the flights of the one before ask
\* for that one only.
LEMMA PublishSwitchTurns ==
    ASSUME IndInv, Windows, PublishSwitch
    PROVE  Windows'
<1>1. /\ switch = "moved" /\ switch' = "restart" /\ generation' = generation + 1
      /\ UNCHANGED <<switches, version, mem, spent, req>>
    BY DEF PublishSwitch, official
<1>2. /\ AccountOK /\ BrokerOK(mem) /\ FlightsOK(mem) /\ Steady(mem) /\ Sound(mem)
    BY WindowsKnown
<1>3. /\ generation \in Nat /\ switches # 0 /\ mem.paused = generation
      /\ mem.paused # generation' /\ generation' # 0
    BY <1>1, <1>2 DEF AccountOK, Generations, BrokerOK, Windows
<1>4. ASSUME NEW s \in DOMAIN mem.sources
      PROVE  /\ AccountOf(mem, s) \in Nat /\ AccountOf(mem, s) <= generation
             /\ AccountOf(mem, s) # generation'
  <2>1. AccountOf(mem, s) \in Nat /\ AccountOf(mem, s) <= generation
      BY <1>2, SourceIsTyped DEF AccountOf, Sources, Generations, Steady, Own
  <2> QED BY <1>1, <1>3, <2>1
<1>5. Steady(mem)'
  <2>1. Own(mem)'
    <3>1. ASSUME NEW s \in DOMAIN mem.sources
          PROVE  AccountOf(mem, s) <= generation' /\ AccountOf(mem, s) # generation'
        BY <1>1, <1>3, <1>4
    <3> QED BY <1>1, <1>2, <3>1 DEF Steady, Own, AccountOf
  <2>2. Given(mem)' /\ Alone(mem)'
      BY <1>1, <1>2, <1>3 DEF Steady, Given, Alone, Early
  <2> QED BY <2>1, <2>2 DEF Steady
<1>6. ASSUME NEW s \in DOMAIN mem.sources, Left(mem, s) PROVE Left(mem, s)'
  <2>1. \A f \in Flights : mem.flight[f].acq = "reading" => mem.flight[f].key.source # s
      BY <1>6 DEF Left
  <2> QED BY <1>1, <1>4, <2>1 DEF Left, AccountOf
<1>7. Sound(mem)'
  <2>1. Waited(mem)' /\ OneOf(mem)'
      BY <1>1, <1>2 DEF Sound, Waited, Waits, Refreshing, OneOf, MayMove, AtWork
  <2>2. ASSUME NEW f \in Flights PROVE Aim(mem, mem.flight[f])'
    <3>1. Aim(mem, mem.flight[f]) /\ WorksOK(mem, mem.flight[f])
        BY <1>2 DEF Sound, FlightsOK
    <3> QED BY <1>1, <1>3, <3>1 DEF Aim, AccountOf
  <2>3. (\A f \in Flights : Aim(mem, mem.flight[f]))'
      BY <2>2
  <2>4. ASSUME NEW s \in DOMAIN mem.sources PROVE ServedOK(mem, s)'
    <3>1. ServedOK(mem, s)
        BY <1>2 DEF Sound
    <3> QED BY <1>1, <1>6, <3>1 DEF ServedOK, AccountOf
  <2>5. (\A s \in DOMAIN mem.sources : ServedOK(mem, s))'
      BY <1>1, <2>4
  <2>6. Once(mem)'
    <3> SUFFICES ASSUME NEW b \in Logins, spent[b] # 0
                 PROVE  spent[b] = 1 /\ \E s \in DOMAIN mem.sources : SpentOf(mem, s, b)'
        BY <1>1 DEF Once
    <3>1. spent[b] = 1 /\ \E s \in DOMAIN mem.sources : SpentOf(mem, s, b)
        BY <1>2 DEF Sound, Once
    <3>2. PICK s \in DOMAIN mem.sources : SpentOf(mem, s, b)
        BY <3>1
    <3>3. SpentOf(mem, s, b)'
        BY <1>1, <1>6, <3>2 DEF SpentOf, AccountOf, Past, Cooling
    <3> QED BY <3>1, <3>3
  <2> QED BY <2>1, <2>3, <2>5, <2>6 DEF Sound
<1>8. ASSUME NEW r \in Requests PROVE Unused(mem, r, req[r])'
    BY <1>1 DEF Windows, Unused, Free
<1> QED BY <1>1, <1>3, <1>5, <1>7, <1>8 DEF Windows

\* A stop or a close leaves every source, and a source left stays so.
LEMMA StoppedKeepsWindows ==
    ASSUME IndInv, Windows, IndInv', NEW n, mem' = n, NEW paused, NEW closed \in BOOLEAN,
           Stopped(mem, n, paused, closed), Quiet(mem, n),
           UNCHANGED <<generation, switches, version, spent, req>>,
           paused = generation \/ closed, mem.paused = generation => paused = generation,
           mem.closed => closed, Early' => closed, MayMove' => MayMove,
           (switches = 0 => switch = "open")'
    PROVE  Windows'
<1>1. /\ BrokerOK(mem) /\ Steady(mem) /\ Sound(mem)
    BY WindowsKnown
<1>2. /\ n.paused = paused /\ n.closed = closed /\ n.sources = mem.sources
      /\ mem.cache + 1 <= n.cache /\ BrokerOK(n) /\ Refreshing(n) = Refreshing(mem)
      /\ \A f \in Flights : n.flight[f].acq \in Working => n.flight[f].key.cache # n.cache
    BY DEF Stopped, Continued
<1>3. mem.cache \in Nat /\ n.cache \in Nat
    BY <1>1, <1>2 DEF BrokerOK, Brokers
<1>4. ASSUME NEW f \in Flights
      PROVE  /\ n.flight[f].acq = mem.flight[f].acq /\ n.flight[f].key = mem.flight[f].key
             /\ n.flight[f].lease = mem.flight[f].lease
    BY DEF Stopped, Onward, Quiet
<1>5. ASSUME NEW s \in DOMAIN mem.sources
      PROVE  AccountOf(n, s) = AccountOf(mem, s) /\ (Left(mem, s) => Left(n, s))
    BY <1>2, <1>4 DEF AccountOf, Left
<1>6. Steady(mem)'
  <2>1. Own(mem)'
      BY <1>1, <1>2 DEF Steady, Own, AccountOf
  <2>2. Given(mem)'
    <3>1. mem.cache <= n.cache
        BY <1>2, <1>3
    <3>2. Given(n)
        BY <1>1, <1>2, <1>4, <3>1, QuietKeepsGiven DEF Steady
    <3> QED BY <3>2 DEF Given
  <2>3. Alone(mem)'
      BY <1>2 DEF Alone
  <2> QED BY <2>1, <2>2, <2>3 DEF Steady
<1>7. Sound(mem)'
  <2>1. Waited(mem)'
    <3>1. Waited(n)
        BY <1>1, <1>2, <1>4 DEF Sound, Waited, Waits
    <3> QED BY <3>1 DEF Waited, Waits, Refreshing
  <2>2. OneOf(mem)'
    <3>1. OneOf(mem) /\ AtWork(n) = AtWork(mem)
        BY <1>1, <1>4 DEF Sound, AtWork
    <3>2. MayMove' => \A f, g \in AtWork(n) :
            n.flight[f].key.generation = 0 /\ n.flight[g].key.generation = 0 => f = g
        BY <1>4, <3>1 DEF OneOf, AtWork
    <3> QED BY <3>2 DEF OneOf, AtWork
  <2>3. ASSUME NEW f \in Flights PROVE Aim(mem, mem.flight[f])'
    <3>1. Aim(mem, mem.flight[f])
        BY <1>1 DEF Sound
    <3> QED BY <1>2, <1>4, <3>1 DEF Aim, AccountOf
  <2>4. (\A f \in Flights : Aim(mem, mem.flight[f]))'
      BY <2>3
  <2>5. ASSUME NEW s \in DOMAIN mem.sources PROVE ServedOK(mem, s)'
    <3>1. ServedOK(mem, s) /\ n.sources[s] = mem.sources[s]
        BY <1>1, <1>2 DEF Sound
    <3>2. ServedOK(n, s)
        BY <1>5, <3>1 DEF ServedOK
    <3> QED BY <3>2 DEF ServedOK, Left, AccountOf
  <2>6. (\A s \in DOMAIN mem.sources : ServedOK(mem, s))'
      BY <1>2, <2>5
  <2>7. Once(mem)'
    <3> SUFFICES ASSUME NEW b \in Logins
                 PROVE  \/ spent'[b] = 0
                        \/ spent'[b] = 1 /\ \E s \in DOMAIN n.sources : SpentOf(n, s, b)
        BY OnceFollows
    <3>1. \/ spent[b] = 0
          \/ spent[b] = 1 /\ \E s \in DOMAIN mem.sources : SpentOf(mem, s, b)
        BY <1>1 DEF Sound, Once
    <3>2. \A s \in DOMAIN mem.sources : SpentOf(mem, s, b) => SpentOf(n, s, b)
        BY <1>2, <1>5 DEF SpentOf
    <3> QED BY <1>2, <3>1, <3>2
  <2> QED BY <2>1, <2>2, <2>4, <2>6, <2>7 DEF Sound
<1>8. ASSUME NEW r \in Requests PROVE Unused(mem, r, req[r])'
  <2>1. \A i \in 1 .. 4 : <<r, i>> \in Flights
      BY DEF Flights
  <2> QED BY <1>4, <2>1 DEF Windows, Unused, Free
<1> QED BY <1>6, <1>7, <1>8 DEF Windows

LEMMA StopTurns ==
    ASSUME IndInv, Windows, Stop
    PROVE  Windows'
<1> DEFINE n == mem'
           closed == mem.closed
<1>1. /\ switch = "draining" /\ switch' = "stopping"
      /\ UNCHANGED <<generation, switches, version, spent, req>>
    BY DEF Stop, official
<1>2. switches # 0 /\ ~Early' /\ MayMove
    BY <1>1 DEF Windows, Early, MayMove
<1>3. (switches = 0 => switch = "open")'
    BY <1>1, <1>2
<1>4. IndInv' /\ Stopped(mem, n, generation, closed) /\ Quiet(mem, n)
    BY StopKeeps, StopStops, StopIsQuiet
<1>5. closed \in BOOLEAN
    BY WindowsKnown DEF BrokerOK, Brokers
<1> HIDE DEF n
<1> QED BY <1>1, <1>2, <1>3, <1>4, <1>5, StoppedKeepsWindows DEF n

LEMMA CloseBrokerTurns ==
    ASSUME IndInv, Windows, CloseBroker
    PROVE  Windows'
<1> DEFINE n == mem'
           closed == TRUE
<1>1. UNCHANGED <<generation, switch, switches, version, spent, req>>
    BY DEF CloseBroker, world, official
<1>2. MayMove' => MayMove
    BY <1>1 DEF MayMove
<1>3. (switches = 0 => switch = "open")'
    BY <1>1 DEF Windows
<1>4. IndInv' /\ Stopped(mem, n, mem.paused, closed) /\ Quiet(mem, n)
    BY CloseBrokerKeeps, CloseBrokerStops, StopIsQuiet
<1>5. closed \in BOOLEAN /\ closed
    OBVIOUS
<1> HIDE DEF n, closed
<1> QED BY <1>1, <1>2, <1>3, <1>4, <1>5, StoppedKeepsWindows DEF n

\* A restart drops what there is once the router was told of a switch.
LEMMA RestartTurns ==
    ASSUME IndInv, Windows, Restart
    PROVE  Windows'
<1> DEFINE n == mem'
<1>1. /\ switch \in {"restart", "reopened"} /\ switch' = "open" /\ mem' = Drop(mem)
      /\ UNCHANGED <<generation, switches, version, spent, req>>
    BY DEF Restart, official
<1>2. /\ AccountOK /\ BrokerOK(mem) /\ FlightsOK(mem) /\ Steady(mem) /\ Sound(mem)
    BY WindowsKnown
<1>3. switches # 0 /\ ~Early /\ ~Early' /\ (MayMove' => MayMove)
    BY <1>1 DEF Windows, Early, MayMove
<1>4. BrokerOK(n) /\ Goes(mem, n, {}) /\ Steady(n)
  <2> DEFINE began == {}
  <2>1. Droppable(mem)
      BY <1>3 DEF Droppable
  <2> HIDE DEF began
  <2>2. Goes(mem, Drop(mem), began) /\ Steady(Drop(mem)) /\ BrokerOK(Drop(mem))
      BY <1>2, <2>1, DropMoves, DropGoesOn
  <2> QED BY <1>1, <2>2 DEF began
<1>5. Sound(n)
  <2> HIDE DEF n
  <2> QED BY <1>2, <1>4, GoesKeepsSound DEF Steady
<1>6. Steady(mem)'
  <2>1. Own(mem)' /\ Given(mem)'
      BY <1>1, <1>4 DEF Steady, Own, Given, AccountOf
  <2>2. Alone(mem)'
      BY <1>3 DEF Alone
  <2> QED BY <2>1, <2>2 DEF Steady
<1>7. Sound(mem)'
  <2>1. Waited(mem)' /\ OneOf(mem)'
      BY <1>3, <1>5 DEF Sound, Waited, Waits, Refreshing, OneOf, AtWork
  <2>2. \A f \in Flights : Aim(n, n.flight[f])
      BY <1>5 DEF Sound
  <2>3. (\A f \in Flights : Aim(mem, mem.flight[f]))'
      BY <1>1, <2>2 DEF Aim, AccountOf
  <2>4. (\A s \in DOMAIN mem.sources : ServedOK(mem, s))'
      BY <1>1, <1>5 DEF Sound, ServedOK, Left, AccountOf
  <2>5. Once(mem)'
      BY <1>1, <1>5 DEF Sound, Once, SpentOf, Left, Past, Cooling, AccountOf
  <2> QED BY <2>1, <2>3, <2>4, <2>5 DEF Sound
<1>8. ASSUME NEW r \in Requests PROVE Unused(mem, r, req[r])'
  <2>1. \A i \in 1 .. 4 : <<r, i>> \in Flights
      BY DEF Flights
  <2>2. \A f \in Flights : n.flight[f].acq \in UnderWay => mem.flight[f].acq \in UnderWay
      BY <1>4 DEF Goes
  <2> HIDE DEF n
  <2> QED BY <1>1, <2>1, <2>2 DEF Windows, Unused, Free, n
<1> QED BY <1>1, <1>3, <1>6, <1>7, <1>8 DEF Windows

-----------------------------------------------------------------------------
(* The theorem.                                                             *)

LEMMA InitWindows ==
    ASSUME Init
    PROVE  Windows
<1>1. /\ NoFlight.acq = "none" /\ NoFlight.lease = None /\ NoRequest.pc = "new"
    BY DEF NoFlight, NoRequest
<1>2. /\ mem.value = None /\ mem.inflight = None /\ mem.sources = <<>>
      /\ \A f \in Flights : mem.flight[f] = NoFlight
      /\ \A r \in Requests : req[r] = NoRequest
      /\ \A b \in Logins : spent[b] = 0
      /\ switch = "open"
    BY DEF Init
<1>3. DOMAIN mem.sources = {} /\ AtWork(mem) = {}
    BY <1>1, <1>2 DEF AtWork, Working
<1>4. Steady(mem)
    BY <1>1, <1>2, <1>3 DEF Steady, Own, Alone, Given
<1>5. Sound(mem)
    BY <1>1, <1>2, <1>3 DEF Sound, Waited, Refreshing, OneOf, Once, Aim, Working
<1>6. ASSUME NEW r \in Requests PROVE Unused(mem, r, req[r])
  <2>1. \A i \in 1 .. 4 : <<r, i>> \in Flights
      BY DEF Flights
  <2> QED BY <1>1, <1>2, <2>1 DEF Unused, Free, UnderWay, Working
<1> QED BY <1>2, <1>4, <1>5, <1>6 DEF Windows

LEMMA NextTurns ==
    ASSUME MaxSwitches <= 1, IndInv, Recall, Windows, [Next]_vars
    PROVE  Windows'
<1>1. ASSUME NEW r \in Requests, Request(r) PROVE Windows'
    BY <1>1, BeginTurns, ResumeTurns, RejectedTurns, AnsweredTurns, AbortTurns DEF Request
<1>2. ASSUME NEW f \in Flights, Acquire(f) PROVE Windows'
    BY <1>2, ReadTurns, BrokenTurns, StoreTurns DEF Acquire
<1>3. CASE OfficialAnswers \/ OfficialFails
    BY <1>3, OfficialAnswersTurns, OfficialFailsTurns
<1>4. CASE \E s \in DOMAIN mem.sources : CooldownEnds(s)
    BY <1>4, CooldownEndsTurns
<1>5. CASE Launch \/ Login \/ Age \/ Freeze \/ Move \/ Undo \/ UNCHANGED vars
    BY <1>5, WorldTurns
<1>6. CASE PublishSwitch \/ Stop \/ CloseBroker \/ Restart
    BY <1>6, PublishSwitchTurns, StopTurns, CloseBrokerTurns, RestartTurns
<1> QED BY <1>1, <1>2, <1>3, <1>4, <1>5, <1>6 DEF Next, Official, Environment, Switching

\* A bearer handed out is refreshed at most once in a window, however many
\* requests find it refused at once and whatever logins replace it, as long as
\* one account switch at most is begun; the switch may be given up at any point.
THEOREM RefreshedAtMostOnce == MaxSwitches <= 1 => (Spec => []RefreshedOnce)
<1> SUFFICES ASSUME MaxSwitches <= 1 PROVE Spec => []RefreshedOnce
    OBVIOUS
<1>1. Init => IndInv /\ Recall /\ Windows
    BY InitOK, InitRecalls, InitWindows
<1>2. (IndInv /\ Recall /\ Windows) /\ [Next]_vars => (IndInv /\ Recall /\ Windows)'
    BY NextKeeps, NextRecalls, NextTurns
<1>3. Windows => RefreshedOnce
  <2> SUFFICES ASSUME Windows, NEW b \in Logins PROVE spent[b] <= 1
      BY DEF RefreshedOnce
  <2>1. spent[b] = 0 \/ spent[b] = 1
      BY DEF Windows, Sound, Once
  <2> QED BY <2>1
<1> QED BY <1>1, <1>2, <1>3, PTL DEF Spec

=============================================================================
