-------------------------- MODULE AccountWorkProofs ---------------------------
(***************************************************************************)
(* Theorems about AccountWork, for any threads, subagents, requests and     *)
(* account switches: each invariant of its run.                            *)
(*                                                                         *)
(* The inductive invariant has a part for AccountWork's sets by themselves, *)
(* which only Flush could break, and a part for each thread's request,      *)
(* lease and replay row and for each subagent. A child that dies at work    *)
(* leaves its leases behind: what it is that is given back is said only     *)
(* while none has.                                                         *)
(***************************************************************************)
EXTENDS AccountWork, TLAPS

Generations == 0..MaxSwitches

WorkSets ==
    [lease : [Threads -> {None} \cup Generations], rows : [Threads -> {0, 1}],
     active : SUBSET (Threads \cup Agents), completed : SUBSET (Threads \cup Agents),
     finished : SUBSET (Threads \cup Agents), starting : SUBSET Threads,
     realtime : SUBSET Threads, spawnItems : SUBSET Agents]

\* What keeps the leases of completed work.
AtWork(w) == w.active \cup w.starting \cup w.spawnItems

\* A row for each lease.
Sound(w) ==
    /\ w \in WorkSets
    /\ \A t \in Threads : w.rows[t] = IF w.lease[t] = None THEN 0 ELSE 1

\* What is at work has some lease to rest on.
Rests(w) == AtWork(w) # {} => \E t \in Threads : w.rows[t] > 0

\* Between two steps, at rest nothing is retained.
Steady(w) == Rests(w) /\ (AtWork(w) = {} => w.completed = {})

Jobs ==
    [pc : {"idle", "preparing", "running", "rehoming"}, kind : {"turn", "realtime"},
     by : {"user", "continue"}, gone : BOOLEAN, tracked : BOOLEAN, try : 1..2,
     responded : BOOLEAN, started : BOOLEAN, effect : BOOLEAN,
     failure : {None, "rpc", "terminal"}]

AgentStates ==
    [item : {"none", "started", "completed", "failed"}, turn : {"none", "running", "ended"}]

Rows ==
    [status : {"none", "pending", "sent", "cancelled"}, generation : Generations,
     newer : BOOLEAN]

\* A request j with e ends and f effects, and l whether work has been lost.
JobOK(j, e, f, l) ==
    /\ j \in Jobs /\ e \in {0, 1} /\ f \in {0, 1}
    /\ j.pc = "idle" => j = NoJob
    /\ j.pc # "idle" => e = 0 /\ f = IF j.effect THEN 1 ELSE 0
    /\ j.pc = "idle" /\ ~l => e = 1
    /\ j.pc = "preparing" => ~j.tracked /\ j.failure = None
    /\ j.pc \in {"preparing", "rehoming"} => j.try = 1 /\ ~j.started /\ ~j.responded
    /\ j.pc = "rehoming" => j.tracked /\ j.failure # None
    /\ j.pc = "running" /\ j.try = 1 => j.failure = None
    /\ j.failure # None => j.tracked
    /\ j.tracked => j.kind = "turn"

\* The account and the participant are where a request at work needs them.
InPlace == phase # "stopped" /\ mine = generation

\* The sets w of a thread t whose request is j, on an account of generation g,
\* which is in place or not.
LeaseOK(t, j, w, inPlace, g, l) ==
    /\ j.pc # "idle" =>
         /\ w.lease[t] = g /\ t \notin w.completed /\ inPlace
         /\ t \in w.realtime <=> j.kind = "realtime"
         /\ t \in w.active => j.started \/ j.failure = "terminal"
    /\ j.pc = "preparing" => t \notin w.active
    /\ j.pc = "idle" /\ ~l =>
         t \notin w.starting \cup w.active /\ (w.lease[t] # None => t \in w.completed)

\* The sets w of a subagent a, whose item and turn are g.
AgentOK(a, g, w, l) ==
    /\ g \in AgentStates
    /\ g.item = "none" => g.turn = "none"
    /\ g.item = "started" => a \in w.spawnItems
    /\ g.item = "completed" /\ g.turn = "none" => a \in w.active
    /\ g.turn = "running" => a \in w.active /\ g.item \in {"started", "completed"}
    /\ a \in w.finished => g.turn = "ended"
    /\ g.item \in {"started", "completed"} /\ g.turn = "ended" => a \in w.finished
    /\ ~l => /\ a \in w.spawnItems => g.item = "started"
             /\ a \in w.active => g.turn = "running" \/ (g.turn = "none" /\ g.item = "completed")

\* A row r of a thread whose request is j, in generation g of the participant,
\* with a flush owed to what is before generation o; pending says that it is
\* still to come to this row.
ReplayOK(r, j, g, o, pending) ==
    /\ r \in Rows
    /\ r.status = "pending" => ~r.newer
    /\ r.generation <= g
    /\ r.status = "pending" /\ r.generation < o => pending
    /\ j.pc # "idle" /\ j.by = "continue" => ~r.newer

AccountOK ==
    /\ phase \in {"open", "draining", "stopped"}
    /\ generation \in Nat /\ switches \in Generations
    /\ generation + (IF phase = "open" THEN 0 ELSE 1) <= switches
    /\ mine \in 0..generation /\ owed \in 0..mine
    /\ upstream \in {"running", "stopped", "restarting"}

RestOK ==
    /\ alive \in BOOLEAN /\ lost \in BOOLEAN /\ starts \in 0..MaxStarts
    /\ context \in [Threads -> Generations]
    /\ callers \subseteq Threads /\ due \in BOOLEAN /\ toSend \subseteq Threads

WorkOK == Sound(work) /\ Steady(work)

Functions ==
    /\ job \in [Threads -> Jobs]
    /\ ended \in [Threads -> {0, 1}] /\ effects \in [Threads -> {0, 1}]
    /\ agent \in [Agents -> AgentStates]
    /\ replay \in [Threads -> Rows]

JobsOK == \A t \in Threads : JobOK(job[t], ended[t], effects[t], lost)

LeasesOK == \A t \in Threads : LeaseOK(t, job[t], work, InPlace, generation, lost)

AgentsOK == \A a \in Agents : AgentOK(a, agent[a], work, lost)

ReplaysOK ==
    \A t \in Threads : ReplayOK(replay[t], job[t], mine, owed, due \/ t \in toSend)

IndInv ==
    /\ AccountOK /\ RestOK /\ WorkOK /\ Functions
    /\ JobsOK /\ LeasesOK /\ AgentsOK /\ ReplaysOK

-----------------------------------------------------------------------------
(* What an operation does to the sets of others.                            *)

\* From w to v thread u keeps its part, but for a lease retained.
KeepsThread(u, w, v) ==
    /\ u \in v.active <=> u \in w.active
    /\ u \in v.starting <=> u \in w.starting
    /\ u \notin w.completed =>
         /\ u \notin v.completed /\ v.lease[u] = w.lease[u]
         /\ u \in v.realtime <=> u \in w.realtime
    /\ v.lease[u] # None /\ u \in w.completed => u \in v.completed

KeepsAgent(a, w, v) ==
    /\ a \in v.active <=> a \in w.active
    /\ a \in v.spawnItems <=> a \in w.spawnItems
    /\ a \in v.finished <=> a \in w.finished

\* A flush keeps everybody's, and leaves nothing retained at rest.
LEMMA FlushKeeps ==
    ASSUME NEW w, Sound(w), Rests(w)
    PROVE  /\ Sound(Flush(w)) /\ Steady(Flush(w))
           /\ \A u \in Threads : KeepsThread(u, w, Flush(w))
           /\ \A a \in Agents : KeepsAgent(a, w, Flush(w))
<1>1. CASE AtWork(w) # {}
  BY <1>1 DEF Flush, AtWork, Steady, KeepsThread, KeepsAgent
<1>2. CASE AtWork(w) = {}
  <2> DEFINE v == [Release(w, w.completed) EXCEPT !.completed = {}]
  <2>1. Flush(w) = v
    BY <1>2 DEF Flush, AtWork
  <2> DEFINE lease == [t \in Threads |-> IF t \in w.completed THEN None ELSE w.lease[t]]
             rows == [t \in Threads |-> IF t \in w.completed /\ w.lease[t] # None
                                        THEN w.rows[t] - 1 ELSE w.rows[t]]
  <2>2. v \in WorkSets
    <3>1. w \in WorkSets /\ lease \in [Threads -> {None} \cup Generations]
      BY DEF Sound, WorkSets
    <3>2. rows \in [Threads -> {0, 1}]
      <4>1. ASSUME NEW t \in Threads
            PROVE  (IF t \in w.completed /\ w.lease[t] # None THEN w.rows[t] - 1 ELSE w.rows[t])
                   \in {0, 1}
        BY DEF Sound
      <4> QED
        BY <4>1
    <3> DEFINE v1 == [w EXCEPT !.lease = lease, !.rows = rows,
                               !.starting = w.starting \ w.completed,
                               !.realtime = w.realtime \ w.completed]
    <3>3. v = [v1 EXCEPT !.completed = {}]
      BY DEF Release
    <3> HIDE DEF v, lease, rows
    <3>4. v1 \in WorkSets
      BY <3>1, <3>2 DEF WorkSets
    <3> HIDE DEF v1
    <3> QED
      BY <3>3, <3>4 DEF WorkSets
  <2>3. /\ v.active = w.active /\ v.spawnItems = w.spawnItems /\ v.finished = w.finished
        /\ v.completed = {} /\ v.starting = w.starting /\ v.realtime = w.realtime \ w.completed
        /\ \A t \in Threads :
              /\ v.lease[t] = IF t \in w.completed THEN None ELSE w.lease[t]
              /\ v.rows[t] = IF t \in w.completed /\ w.lease[t] # None THEN w.rows[t] - 1
                             ELSE w.rows[t]
    BY <1>2 DEF AtWork, Sound, WorkSets, Release
  <2>4. Sound(v)
    BY <2>2, <2>3 DEF Sound
  <2>5. Steady(v)
    BY <1>2, <2>3 DEF Steady, Rests, AtWork
  <2> HIDE DEF v
  <2> QED
    BY <2>1, <2>3, <2>4, <2>5 DEF KeepsThread, KeepsAgent
<1> QED
  BY <1>1, <1>2

\* What an operation that flushes has to show is of the sets before its flush.
LEMMA FlushAfter ==
    ASSUME NEW v, Sound(v), Rests(v), NEW w, NEW T, NEW A,
           \A u \in Threads \ T : KeepsThread(u, w, v),
           \A a \in Agents \ A : KeepsAgent(a, w, v)
    PROVE  /\ Sound(Flush(v)) /\ Steady(Flush(v))
           /\ \A u \in Threads \ T : KeepsThread(u, w, Flush(v))
           /\ \A a \in Agents \ A : KeepsAgent(a, w, Flush(v))
           /\ \A u \in Threads : KeepsThread(u, v, Flush(v))
           /\ \A a \in Agents : KeepsAgent(a, v, Flush(v))
BY FlushKeeps DEF KeepsThread, KeepsAgent

\* One row and one lease more.
LEMMA AdmittedKeeps ==
    ASSUME NEW w, Sound(w), NEW t \in Threads, NEW kind, mine \in Generations
    PROVE  /\ Sound(Admitted(w, t, kind)) /\ Steady(Admitted(w, t, kind))
           /\ \A u \in Threads \ {t} : KeepsThread(u, w, Admitted(w, t, kind))
           /\ \A a \in Agents : KeepsAgent(a, w, Admitted(w, t, kind))
           /\ Admitted(w, t, kind).lease[t] = mine
           /\ t \notin Admitted(w, t, kind).completed
           /\ Admitted(w, t, kind).active = w.active
           /\ t \in Admitted(w, t, kind).realtime <=> t \in w.realtime \/ kind = "realtime"
<1> DEFINE v == Admitted(w, t, kind)
<1>0. mine # None
  BY WorkAssumption DEF Generations
<1>1. w \in WorkSets /\ w.rows[t] = (IF w.lease[t] = None THEN 0 ELSE 1)
  BY DEF Sound
<1>2. /\ v.lease = [w.lease EXCEPT ![t] = mine]
      /\ v.rows = [w.rows EXCEPT ![t] = w.rows[t] + 1 - (IF w.lease[t] = None THEN 0 ELSE 1)]
      /\ v.starting = w.starting \cup {t} /\ v.completed = w.completed \ {t}
      /\ v.active = w.active /\ v.spawnItems = w.spawnItems /\ v.finished = w.finished
      /\ v.realtime = IF kind = "realtime" THEN w.realtime \cup {t} ELSE w.realtime
  BY <1>1 DEF Admitted, WorkSets
<1>3. v.lease \in [Threads -> {None} \cup Generations] /\ v.rows \in [Threads -> {0, 1}]
  BY <1>1, <1>2 DEF WorkSets
<1>4. v \in WorkSets
  BY <1>1, <1>3 DEF WorkSets, Admitted
<1>5. v.lease[t] = mine /\ v.rows[t] = 1
  BY <1>1, <1>2 DEF WorkSets
<1>6. \A u \in Threads \ {t} : v.lease[u] = w.lease[u] /\ v.rows[u] = w.rows[u]
  BY <1>1, <1>2 DEF WorkSets
<1> HIDE DEF v
<1>7. Sound(v)
  BY <1>0, <1>4, <1>5, <1>6 DEF Sound
<1>8. Steady(v)
  BY <1>2, <1>5 DEF Steady, Rests, AtWork
<1> QED
  BY <1>2, <1>5, <1>6, <1>7, <1>8 DEF v, KeepsThread, KeepsAgent

\* The leases stay with whoever has them, and nothing new is at work.
LEMMA SameLeases ==
    ASSUME NEW w, Sound(w), Rests(w), NEW v, v \in WorkSets,
           v.lease = w.lease, v.rows = w.rows,
           AtWork(v) # {} => AtWork(w) # {} \/ \E t \in Threads : w.rows[t] > 0
    PROVE  Sound(v) /\ Rests(v)
BY DEF Sound, Rests

LEMMA RefusedKeeps ==
    ASSUME NEW w, Sound(w), Steady(w), NEW ts \in SUBSET Threads,
           NEW v, v = Refused(w, ts)
    PROVE  /\ Sound(v) /\ Steady(v)
           /\ \A u \in Threads \ ts : KeepsThread(u, w, v)
           /\ \A a \in Agents : KeepsAgent(a, w, v)
           /\ \A t \in ts : /\ t \notin v.starting /\ (t \in v.active <=> t \in w.active)
                            /\ v.lease[t] # None => t \in v.completed
<1> DEFINE realtime == {t \in ts : job[t].kind = "realtime"}
           x == [w EXCEPT !.starting = w.starting \ ts,
                          !.realtime = w.realtime \ realtime,
                          !.completed = w.completed \cup ts]
<1> HIDE DEF realtime
<1>1. w \in WorkSets /\ v = Flush(x)
  BY DEF Sound, Refused, realtime
<1>2. x \in WorkSets
  BY <1>1 DEF WorkSets
<1>3. /\ x.lease = w.lease /\ x.rows = w.rows /\ x.active = w.active
      /\ x.starting = w.starting \ ts /\ x.completed = w.completed \cup ts
      /\ x.finished = w.finished /\ x.spawnItems = w.spawnItems
      /\ x.realtime = w.realtime \ realtime
  BY <1>1 DEF WorkSets
<1> HIDE DEF x
<1>4. Sound(x) /\ Rests(x)
  BY <1>2, <1>3, SameLeases DEF Steady, AtWork
<1>5. /\ \A u \in Threads \ ts : KeepsThread(u, w, x)
      /\ \A a \in Agents : KeepsAgent(a, w, x)
  BY <1>3 DEF KeepsThread, KeepsAgent, realtime
<1>6. /\ Sound(v) /\ Steady(v)
      /\ \A u \in Threads \ ts : KeepsThread(u, w, v)
      /\ \A a \in Agents \ {} : KeepsAgent(a, w, v)
      /\ \A u \in Threads : KeepsThread(u, x, v)
  BY <1>1, <1>4, <1>5, FlushAfter
<1> QED
  BY <1>3, <1>6 DEF KeepsThread

LEMMA CompletedKeeps ==
    ASSUME NEW w, Sound(w), Steady(w), NEW ts \in SUBSET (Threads \cup Agents),
           NEW v, v = Completed(w, ts)
    PROVE  /\ Sound(v) /\ Steady(v)
           /\ \A u \in Threads \ ts : KeepsThread(u, w, v)
           /\ \A a \in Agents \ ts : KeepsAgent(a, w, v)
           /\ \A t \in ts : t \notin v.active
           /\ \A t \in ts \cap Threads :
                 /\ t \notin v.starting
                 /\ t \notin w.realtime => (v.lease[t] # None => t \in v.completed)
                 /\ t \in w.realtime /\ t \notin w.completed =>
                       t \in v.realtime /\ t \notin v.completed /\ v.lease[t] = w.lease[t]
           /\ \A a \in ts \cap Agents :
                 a \in v.finished /\ (a \in v.spawnItems <=> a \in w.spawnItems)
<1> DEFINE x == [w EXCEPT !.starting = w.starting \ ts, !.active = w.active \ ts,
                          !.finished = w.finished \cup ts,
                          !.completed = w.completed \cup (ts \ w.realtime)]
<1>1. w \in WorkSets /\ v = Flush(x)
  BY DEF Sound, Completed
<1>2. x \in WorkSets
  BY <1>1 DEF WorkSets
<1>3. /\ x.lease = w.lease /\ x.rows = w.rows /\ x.active = w.active \ ts
      /\ x.starting = w.starting \ ts /\ x.completed = w.completed \cup (ts \ w.realtime)
      /\ x.finished = w.finished \cup ts /\ x.spawnItems = w.spawnItems
      /\ x.realtime = w.realtime
  BY <1>1 DEF WorkSets
<1> HIDE DEF x
<1>4. Sound(x) /\ Rests(x)
  BY <1>2, <1>3, SameLeases DEF Steady, AtWork
<1>5. /\ \A u \in Threads \ ts : KeepsThread(u, w, x)
      /\ \A a \in Agents \ ts : KeepsAgent(a, w, x)
  BY <1>3 DEF KeepsThread, KeepsAgent
<1>6. /\ Sound(v) /\ Steady(v)
      /\ \A u \in Threads \ ts : KeepsThread(u, w, v)
      /\ \A a \in Agents \ ts : KeepsAgent(a, w, v)
      /\ \A u \in Threads : KeepsThread(u, x, v)
      /\ \A a \in Agents : KeepsAgent(a, x, v)
  BY <1>1, <1>4, <1>5, FlushAfter
<1>7. \A t \in ts : t \notin v.active
  BY <1>3, <1>6 DEF KeepsThread, KeepsAgent
<1> QED
  BY <1>3, <1>6, <1>7 DEF KeepsThread, KeepsAgent

LEMMA ClosedKeeps ==
    ASSUME NEW w, Sound(w), Steady(w), NEW t \in Threads, NEW v, v = Closed(w, t)
    PROVE  /\ Sound(v) /\ Steady(v)
           /\ \A u \in Threads \ {t} : KeepsThread(u, w, v)
           /\ \A a \in Agents : KeepsAgent(a, w, v)
           /\ t \notin v.active /\ t \notin v.starting
           /\ v.lease[t] # None => t \in v.completed
<1> DEFINE x == [w EXCEPT !.realtime = w.realtime \ {t}]
<1>1. w \in WorkSets /\ v = Completed(x, {t})
  BY DEF Sound, Closed
<1>2. x \in WorkSets
  BY <1>1 DEF WorkSets
<1>3. /\ x.lease = w.lease /\ x.rows = w.rows /\ x.active = w.active
      /\ x.starting = w.starting /\ x.completed = w.completed
      /\ x.finished = w.finished /\ x.spawnItems = w.spawnItems
      /\ x.realtime = w.realtime \ {t}
  BY <1>1 DEF WorkSets
<1> HIDE DEF x
<1>4. Sound(x) /\ Steady(x)
  BY <1>2, <1>3, SameLeases DEF Steady, AtWork
<1>5. /\ \A u \in Threads \ {t} : KeepsThread(u, w, x)
      /\ \A a \in Agents : KeepsAgent(a, w, x)
  BY <1>3 DEF KeepsThread, KeepsAgent
<1>6. t \notin Agents
  BY WorkAssumption
<1>7. /\ Sound(v) /\ Steady(v)
      /\ \A u \in Threads \ {t} : KeepsThread(u, x, v)
      /\ \A a \in Agents : KeepsAgent(a, x, v)
      /\ t \notin v.active /\ t \notin v.starting
      /\ t \notin x.realtime => (v.lease[t] # None => t \in v.completed)
  BY <1>1, <1>4, <1>6, CompletedKeeps
<1> QED
  BY <1>3, <1>5, <1>7 DEF KeepsThread, KeepsAgent

LEMMA StartedKeeps ==
    ASSUME NEW w, Sound(w), \E t \in Threads : w.rows[t] > 0,
           NEW t \in Threads \cup Agents, NEW v, v = Started(w, t)
    PROVE  /\ Sound(v) /\ Steady(v)
           /\ \A u \in Threads \ {t} : KeepsThread(u, w, v)
           /\ \A a \in Agents \ {t} : KeepsAgent(a, w, v)
           /\ t \in v.active /\ t \notin v.finished /\ t \notin v.starting /\ t \notin v.completed
           /\ v.lease = w.lease /\ v.realtime = w.realtime /\ v.spawnItems = w.spawnItems
<1> DEFINE x == [w EXCEPT !.starting = w.starting \ {t}, !.completed = w.completed \ {t},
                          !.active = w.active \cup {t}, !.finished = w.finished \ {t}]
<1>1. w \in WorkSets /\ v = Flush(x)
  BY DEF Sound, Started
<1>2. x \in WorkSets
  BY <1>1 DEF WorkSets
<1>3. /\ x.lease = w.lease /\ x.rows = w.rows /\ x.active = w.active \cup {t}
      /\ x.starting = w.starting \ {t} /\ x.completed = w.completed \ {t}
      /\ x.finished = w.finished \ {t} /\ x.spawnItems = w.spawnItems
      /\ x.realtime = w.realtime
  BY <1>1 DEF WorkSets
<1> HIDE DEF x
<1>4. v = x /\ AtWork(x) # {}
  BY <1>1, <1>3 DEF Flush, AtWork
<1>5. Sound(x) /\ Steady(x)
  BY <1>2, <1>3, <1>4 DEF Sound, Steady, Rests
<1> QED
  BY <1>3, <1>4, <1>5 DEF KeepsThread, KeepsAgent

LEMMA SpawningKeeps ==
    ASSUME NEW w, Sound(w), \E t \in Threads : w.rows[t] > 0,
           NEW a \in Agents, NEW v, v = Spawning(w, a)
    PROVE  /\ Sound(v) /\ Steady(v)
           /\ \A u \in Threads : KeepsThread(u, w, v)
           /\ \A b \in Agents \ {a} : KeepsAgent(b, w, v)
           /\ a \in v.spawnItems /\ v.active = w.active /\ v.finished = w.finished
<1> DEFINE x == [w EXCEPT !.spawnItems = w.spawnItems \cup {a}]
<1>1. w \in WorkSets /\ v = Flush(x)
  BY DEF Sound, Spawning
<1>2. x \in WorkSets
  BY <1>1 DEF WorkSets
<1>3. /\ x.lease = w.lease /\ x.rows = w.rows /\ x.active = w.active
      /\ x.starting = w.starting /\ x.completed = w.completed
      /\ x.finished = w.finished /\ x.spawnItems = w.spawnItems \cup {a}
      /\ x.realtime = w.realtime
  BY <1>1 DEF WorkSets
<1> HIDE DEF x
<1>4. v = x /\ AtWork(x) # {}
  BY <1>1, <1>3 DEF Flush, AtWork
<1>5. Sound(x) /\ Steady(x)
  BY <1>2, <1>3, <1>4 DEF Sound, Steady, Rests
<1> QED
  BY <1>3, <1>4, <1>5 DEF KeepsThread, KeepsAgent

LEMMA SpawnedKeeps ==
    ASSUME NEW w, Sound(w), Steady(w), NEW a \in Agents, a \in w.spawnItems,
           NEW receivers \in SUBSET {a}, NEW v, v = Spawned(w, a, receivers)
    PROVE  /\ Sound(v) /\ Steady(v)
           /\ \A u \in Threads : KeepsThread(u, w, v)
           /\ \A b \in Agents \ {a} : KeepsAgent(b, w, v)
           /\ a \notin v.spawnItems /\ (a \in v.finished <=> a \in w.finished)
           /\ a \in v.active <=> a \in w.active \/ (a \in receivers /\ a \notin w.finished)
<1> DEFINE x == [w EXCEPT !.spawnItems = w.spawnItems \ {a},
                          !.active = w.active \cup (receivers \ w.finished)]
<1>1. w \in WorkSets /\ v = Flush(x)
  BY DEF Sound, Spawned
<1>2. x \in WorkSets
  BY <1>1 DEF WorkSets
<1>3. /\ x.lease = w.lease /\ x.rows = w.rows
      /\ x.active = w.active \cup (receivers \ w.finished)
      /\ x.starting = w.starting /\ x.completed = w.completed
      /\ x.finished = w.finished /\ x.spawnItems = w.spawnItems \ {a}
      /\ x.realtime = w.realtime
  BY <1>1 DEF WorkSets
<1> HIDE DEF x
<1>4. Sound(x) /\ Rests(x)
  BY <1>2, <1>3, SameLeases DEF Steady, AtWork
<1>5. a \notin Threads
  BY WorkAssumption
<1>6. /\ \A u \in Threads : KeepsThread(u, w, x)
      /\ \A b \in Agents \ {a} : KeepsAgent(b, w, x)
  BY <1>3, <1>5 DEF KeepsThread, KeepsAgent
<1>7. /\ Sound(v) /\ Steady(v)
      /\ \A u \in Threads \ {} : KeepsThread(u, w, v)
      /\ \A b \in Agents \ {a} : KeepsAgent(b, w, v)
      /\ KeepsAgent(a, x, v)
  BY <1>1, <1>4, <1>6, FlushAfter
<1> QED
  BY <1>3, <1>7 DEF KeepsAgent

-----------------------------------------------------------------------------
(* The invariant says what the run checks, and begins true.                 *)

LEMMA Facts ==
    ASSUME IndInv
    PROVE  /\ generation \in Generations /\ generation # None
           /\ mine \in Generations /\ owed \in 0..mine
           /\ \A t \in Threads :
                 /\ JobOK(job[t], ended[t], effects[t], lost)
                 /\ LeaseOK(t, job[t], work, InPlace, generation, lost)
                 /\ ReplayOK(replay[t], job[t], mine, owed, due \/ t \in toSend)
                 /\ job[t].pc # "idle" => work.rows[t] = 1
           /\ \A a \in Agents : AgentOK(a, agent[a], work, lost)
           /\ Sound(work) /\ Steady(work)
<1>1. /\ generation \in Generations /\ generation # None
      /\ mine \in Generations /\ owed \in 0..mine
  BY WorkAssumption DEF IndInv, AccountOK, Generations
<1> QED
  BY <1>1 DEF IndInv, JobsOK, LeasesOK, AgentsOK, ReplaysOK, WorkOK, LeaseOK, Sound

LEMMA IndInvImplies ==
    ASSUME IndInv
    PROVE  /\ TypeOK /\ WorkHoldsItsLease /\ NoLeakedLease /\ RestGivesBack
           /\ OneEnd /\ CarriedOutOnce /\ ContinuesTheLastTurn /\ NoneIsForgotten
<1>1. TypeOK
  <2>1. phase \in {"open", "draining", "stopped"} /\ generation \in 0..MaxSwitches
        /\ switches \in 0..MaxSwitches
        /\ mine \in 0..generation /\ owed \in 0..mine
        /\ upstream \in {"running", "stopped", "restarting"}
    BY Facts DEF IndInv, AccountOK, Generations
  <2>2. /\ work.lease \in [Threads -> {None} \cup (0..MaxSwitches)]
        /\ work.rows \in [Threads -> Nat]
        /\ work.active \subseteq Threads \cup Agents /\ work.completed \subseteq Threads \cup Agents
        /\ work.finished \subseteq Threads \cup Agents
        /\ work.starting \subseteq Threads /\ work.realtime \subseteq Threads
        /\ work.spawnItems \subseteq Agents
    <3>1. work \in WorkSets
      BY Facts DEF Sound
    <3> QED
      BY <3>1 DEF WorkSets, Generations
  <2>3. ended \in [Threads -> Nat] /\ effects \in [Threads -> Nat]
    BY DEF IndInv, Functions
  <2> QED
    BY <2>1, <2>2, <2>3
    DEF IndInv, Functions, RestOK, Jobs, AgentStates, Rows, Generations, TypeOK
<1>2. WorkHoldsItsLease
  BY Facts DEF WorkHoldsItsLease, LeaseOK, InPlace, AgentOK, Steady, Rests, AtWork
<1>3. NoLeakedLease
  BY Facts DEF NoLeakedLease, Sound
<1>4. RestGivesBack
  <2> SUFFICES ASSUME \A t \in Threads : job[t].pc = "idle",
                      \A a \in Agents : /\ agent[a].item # "started"
                                        /\ agent[a].item = "completed" => agent[a].turn = "ended",
                      ~lost, NEW t \in Threads
               PROVE  work.rows[t] = 0
    BY DEF RestGivesBack
  <2>1. \A u \in Threads : u \notin work.starting \cup work.active
    BY Facts DEF LeaseOK
  <2>2. \A a \in Agents : a \notin work.spawnItems \cup work.active
    BY Facts DEF AgentOK
  <2>3. AtWork(work) = {}
    BY Facts, <2>1, <2>2 DEF AtWork, Sound, WorkSets
  <2> QED
    BY Facts, <2>3 DEF Steady, LeaseOK, Sound
<1>5. OneEnd /\ CarriedOutOnce
  BY Facts DEF OneEnd, CarriedOutOnce, JobOK
<1>6. ContinuesTheLastTurn /\ NoneIsForgotten
  <2>1. ASSUME NEW t \in Threads, ~due, toSend = {}, replay[t].status = "pending"
        PROVE  replay[t].generation >= owed
    BY <2>1, Facts DEF ReplayOK, Generations, Rows
  <2> QED
    BY <2>1, Facts DEF ContinuesTheLastTurn, NoneIsForgotten, ReplayOK
<1> QED
  BY <1>1, <1>2, <1>3, <1>4, <1>5, <1>6

LEMMA InitIndInv == Init => IndInv
<1> SUFFICES ASSUME Init PROVE IndInv
  OBVIOUS
<1>1. 0 \in Generations
  BY WorkAssumption DEF Generations
<1>2. AccountOK
  BY <1>1 DEF Init, AccountOK
<1>9. RestOK
  <2>1. 0 \in 0..MaxStarts
    BY WorkAssumption
  <2> QED
    BY <1>1, <2>1 DEF Init, RestOK
<1>3. NoJob \in Jobs /\ NoRow \in Rows
  BY <1>1 DEF NoJob, NoRow, Jobs, Rows
<1>4. Functions
  BY <1>3 DEF Init, Functions, AgentStates
<1>5. WorkOK
  BY DEF Init, WorkOK, Sound, Steady, Rests, AtWork, WorkSets
<1>6. JobsOK /\ LeasesOK
  BY <1>3 DEF Init, JobsOK, JobOK, LeasesOK, LeaseOK, NoJob
<1>7. AgentsOK
  BY DEF Init, AgentsOK, AgentOK, AgentStates
<1>8. ReplaysOK
  BY <1>3 DEF Init, ReplaysOK, ReplayOK, NoRow, NoJob
<1> QED
  BY <1>2, <1>4, <1>5, <1>6, <1>7, <1>8, <1>9 DEF IndInv

-----------------------------------------------------------------------------
(* Steps of one thread.                                                     *)

\* The parts that requests, leases and subagents have in the invariant.
WorkParts == WorkOK /\ Functions /\ JobsOK /\ LeasesOK /\ AgentsOK

\* What a step that writes the request of thread t alone has to show.
LEMMA OneThread ==
    ASSUME IndInv, NEW t \in Threads, NEW j, NEW e, NEW f,
           job' = [job EXCEPT ![t] = j], ended' = [ended EXCEPT ![t] = e],
           effects' = [effects EXCEPT ![t] = f],
           JobOK(j, e, f, lost), LeaseOK(t, j, work', InPlace, generation, lost),
           Sound(work'), Steady(work'),
           \A u \in Threads \ {t} : KeepsThread(u, work, work'),
           \A a \in Agents : KeepsAgent(a, work, work'),
           UNCHANGED <<phase, generation, mine, lost, agent>>, replay' \in [Threads -> Rows]
    PROVE  WorkParts' /\ job'[t] = j /\ \A u \in Threads \ {t} : job'[u] = job[u]
<1>1. j \in Jobs /\ e \in {0, 1} /\ f \in {0, 1}
  BY DEF JobOK
<1>2. /\ job' \in [Threads -> Jobs] /\ ended' \in [Threads -> {0, 1}]
      /\ effects' \in [Threads -> {0, 1}]
  BY <1>1 DEF IndInv, Functions
<1>3. job'[t] = j /\ ended'[t] = e /\ effects'[t] = f
  BY DEF IndInv, Functions
<1>4. \A u \in Threads \ {t} : job'[u] = job[u] /\ ended'[u] = ended[u] /\ effects'[u] = effects[u]
  BY DEF IndInv, Functions
<1>5. JobsOK'
  BY <1>3, <1>4, Facts DEF JobsOK
<1>6. LeasesOK'
  <2>1. ASSUME NEW u \in Threads \ {t}
        PROVE  LeaseOK(u, job[u], work', InPlace, generation, lost)
    BY Facts, <2>1 DEF LeaseOK, KeepsThread
  <2> QED
    BY <1>3, <1>4, <2>1 DEF LeasesOK, InPlace
<1>7. AgentsOK'
  BY Facts DEF AgentsOK, AgentOK, KeepsAgent
<1> QED
  BY <1>2, <1>3, <1>4, <1>5, <1>6, <1>7 DEF WorkParts, WorkOK, Functions, IndInv

\* The rows stay right under requests that are the same, or over.
LEMMA SameRows ==
    ASSUME IndInv, UNCHANGED <<mine, owed, replay, due, toSend>>,
           \A u \in Threads : job'[u].pc # "idle" => job[u].pc # "idle" /\ job'[u].by = job[u].by
    PROVE  ReplaysOK'
BY Facts DEF ReplaysOK, ReplayOK

\* So they do when the replay observes the end of a turn.
LEMMA ObservedRows ==
    ASSUME IndInv, NEW t \in Threads, NEW quota, ReplayObserves(t, quota),
           UNCHANGED <<mine, owed>>,
           \A u \in Threads : job'[u].pc # "idle" => job[u].pc # "idle" /\ job'[u].by = job[u].by
    PROVE  replay' \in [Threads -> Rows] /\ callers' \subseteq Threads /\ ReplaysOK'
<1>1. replay \in [Threads -> Rows] /\ callers \subseteq Threads
  BY DEF IndInv, Functions, RestOK
<1>2. CASE replay' = replay
  BY <1>1, <1>2, SameRows DEF ReplayObserves
<1>3. CASE replay' = [replay EXCEPT ![t] = [NoRow EXCEPT !.status = "pending",
                                                        !.generation = mine]]
  <2> DEFINE r == [NoRow EXCEPT !.status = "pending", !.generation = mine]
  <2>1. r \in Rows /\ r.status = "pending" /\ ~r.newer /\ r.generation = mine
    BY Facts DEF NoRow, Rows
  <2> HIDE DEF r
  <2>2. replay' \in [Threads -> Rows] /\ replay'[t] = r
        /\ \A u \in Threads \ {t} : replay'[u] = replay[u]
    BY <1>1, <1>3, <2>1 DEF r
  <2>3. ReplayOK(replay'[t], job'[t], mine', owed', (due \/ t \in toSend)')
    BY <2>1, <2>2, Facts DEF ReplayOK, Generations
  <2>4. \A u \in Threads \ {t} : ReplayOK(replay'[u], job'[u], mine', owed', (due \/ u \in toSend)')
    BY <2>2, Facts DEF ReplayOK, ReplayObserves
  <2> QED
    BY <1>1, <2>2, <2>3, <2>4 DEF ReplaysOK, ReplayObserves
<1> QED
  BY <1>2, <1>3 DEF ReplayObserves

\* The invariant after a step, from its parts.
LEMMA PartsAreEnough ==
    ASSUME AccountOK', RestOK', WorkParts', ReplaysOK'
    PROVE  IndInv'
BY DEF IndInv, WorkParts

\* Admission: the thread, which is not busy, has a lease of this generation.
LEMMA AdmitParts ==
    ASSUME IndInv, NEW t \in Threads, NEW kind \in {"turn", "realtime"},
           NEW by \in {"user", "continue"}, Admit(t, kind, by), replay' \in [Threads -> Rows]
    PROVE  /\ WorkParts' /\ AccountOK' /\ job'[t].by = by
           /\ \A u \in Threads \ {t} : job'[u] = job[u]
<1> DEFINE j == [NoJob EXCEPT !.pc = "preparing", !.kind = kind, !.by = by]
<1>1. JobOK(j, 0, 0, lost) /\ j.by = by /\ j.pc = "preparing" /\ j.kind = kind
  <2>1. NoJob \in Jobs /\ ~NoJob.tracked /\ NoJob.try = 1 /\ ~NoJob.responded
        /\ ~NoJob.started /\ ~NoJob.effect /\ NoJob.failure = None
    BY DEF NoJob, Jobs
  <2>2. /\ j \in Jobs /\ j.pc = "preparing" /\ j.kind = kind /\ j.by = by
        /\ ~j.tracked /\ j.try = 1 /\ ~j.responded /\ ~j.started /\ ~j.effect
        /\ j.failure = None
    BY <2>1 DEF Jobs
  <2> HIDE DEF j
  <2> QED
    BY <2>2 DEF JobOK
<1>2. /\ Sound(work') /\ Steady(work')
      /\ \A u \in Threads \ {t} : KeepsThread(u, work, work')
      /\ \A a \in Agents : KeepsAgent(a, work, work')
      /\ work'.lease[t] = mine /\ t \notin work'.completed /\ work'.active = work.active
      /\ t \in work'.realtime <=> t \in work.realtime \/ kind = "realtime"
  BY Facts, AdmittedKeeps DEF Admit
<1>3. LeaseOK(t, j, work', InPlace, generation, lost)
  BY <1>1, <1>2 DEF LeaseOK, InPlace, Admit, LetIn, Busy
<1> HIDE DEF j
<1>4. /\ job' = [job EXCEPT ![t] = j]
      /\ ended' = [ended EXCEPT ![t] = 0] /\ effects' = [effects EXCEPT ![t] = 0]
      /\ UNCHANGED <<phase, generation, switches, mine, upstream, owed, lost, agent>>
  BY DEF Admit, j, account
<1>5. WorkParts' /\ job'[t] = j /\ \A u \in Threads \ {t} : job'[u] = job[u]
  BY <1>1, <1>2, <1>3, <1>4, OneThread
<1> QED
  BY <1>1, <1>4, <1>5 DEF IndInv, AccountOK

LEMMA RequestKeeps ==
    ASSUME IndInv, NEW t \in Threads, NEW kind \in {"turn", "realtime"}, Request(t, kind)
    PROVE  IndInv'
<1>1. replay \in [Threads -> Rows] /\ Admit(t, kind, "user")
  BY DEF IndInv, Functions, Request
<1>2. /\ replay' \in [Threads -> Rows] /\ callers' \subseteq Threads
      /\ \A u \in Threads \ {t} : replay'[u] = replay[u]
      /\ replay'[t].status = "pending" =>
            replay[t].status = "pending" /\ replay'[t] = replay[t]
      /\ replay'[t].generation = replay[t].generation
  <2>1. CASE kind = "realtime"
    BY <1>1, <2>1 DEF Request, UserMovesOn, IndInv, RestOK
  <2>2. CASE kind = "turn"
    <3> DEFINE status == IF replay[t].status = "pending" THEN "cancelled" ELSE replay[t].status
               r == [replay[t] EXCEPT !.newer = TRUE, !.status = status]
    <3>1. replay' = [replay EXCEPT ![t] = r] /\ callers' = callers \cup {t}
      BY <1>1, <2>2 DEF Request, UserMovesOn, Rows
    <3>2. r \in Rows /\ r.status # "pending" /\ r.generation = replay[t].generation
      BY <1>1 DEF Rows
    <3> HIDE DEF r
    <3> QED
      BY <1>1, <3>1, <3>2 DEF IndInv, RestOK
  <2> QED
    BY <2>1, <2>2
<1>3. /\ WorkParts' /\ AccountOK' /\ job'[t].by = "user"
      /\ \A u \in Threads \ {t} : job'[u] = job[u]
  BY <1>1, <1>2, AdmitParts
<1>4. ReplaysOK'
  BY <1>2, <1>3, Facts DEF ReplaysOK, ReplayOK, Request, Admit, account
<1>5. RestOK'
  BY <1>2, WorkAssumption DEF IndInv, RestOK, Request, Admit
<1> QED
  BY <1>3, <1>4, <1>5, PartsAreEnough

LEMMA ContinueKeeps ==
    ASSUME IndInv, NEW t \in Threads, Continue(t)
    PROVE  IndInv'
<1> DEFINE r == [replay[t] EXCEPT !.status = "sent"]
<1>1. /\ replay \in [Threads -> Rows] /\ Admit(t, "turn", "continue")
      /\ replay' = [replay EXCEPT ![t] = r]
  BY DEF IndInv, Functions, Continue
<1>2. /\ r \in Rows /\ r.status = "sent" /\ ~r.newer
      /\ r.generation = replay[t].generation
  BY <1>1, Facts DEF Rows, ReplayOK, Continue, Claims
<1> HIDE DEF r
<1>3. /\ replay' \in [Threads -> Rows] /\ replay'[t] = r
      /\ \A u \in Threads \ {t} : replay'[u] = replay[u]
  BY <1>1, <1>2
<1>4. /\ WorkParts' /\ AccountOK' /\ job'[t].by = "continue"
      /\ \A u \in Threads \ {t} : job'[u] = job[u]
  BY <1>1, <1>3, AdmitParts
<1>5. ReplaysOK'
  BY <1>2, <1>3, <1>4, Facts DEF ReplaysOK, ReplayOK, Continue, Admit, account
<1>6. RestOK'
  BY DEF IndInv, RestOK, Continue, Admit
<1> QED
  BY <1>4, <1>5, <1>6, PartsAreEnough

\* What the steps of a request under way leave alone.
LEMMA RestKept ==
    ASSUME IndInv, UNCHANGED <<account, lost>>, alive' \in BOOLEAN, starts' = starts,
           context' \in [Threads -> Generations],
           callers' \subseteq Threads, due' = due, toSend' \subseteq toSend
    PROVE  AccountOK' /\ RestOK'
BY DEF IndInv, AccountOK, RestOK, account

\* A request of which only the record is written.
LEMMA JobStep ==
    ASSUME IndInv, NEW t \in Threads, NEW j, NEW f,
           job' = [job EXCEPT ![t] = j], effects' = [effects EXCEPT ![t] = f],
           JobOK(j, ended[t], f, lost), j.pc # "idle", job[t].pc # "idle", j.by = job[t].by,
           LeaseOK(t, j, work, InPlace, generation, lost),
           UNCHANGED <<account, alive, lost, starts, work, agent, ended, again>>,
           context' \in [Threads -> Generations]
    PROVE  IndInv'
<1>1. /\ ended' = [ended EXCEPT ![t] = ended[t]]
      /\ replay' \in [Threads -> Rows] /\ callers \subseteq Threads
  BY DEF IndInv, Functions, again, RestOK
<1>2. /\ Sound(work') /\ Steady(work')
      /\ \A u \in Threads \ {t} : KeepsThread(u, work, work')
      /\ \A a \in Agents : KeepsAgent(a, work, work')
  BY Facts DEF KeepsThread, KeepsAgent
<1>3. WorkParts' /\ job'[t] = j /\ \A u \in Threads \ {t} : job'[u] = job[u]
  BY <1>1, <1>2, OneThread DEF account
<1>4. ReplaysOK'
  BY <1>3, SameRows DEF account, again
<1>5. AccountOK' /\ RestOK'
  BY <1>1, RestKept DEF again, IndInv, RestOK
<1> QED
  BY <1>3, <1>4, <1>5, PartsAreEnough

\* A request that ends, with one lease more to give back.
LEMMA EndStep ==
    ASSUME IndInv, NEW t \in Threads, NEW w, EndsWith(t, w), job[t].pc # "idle",
           Sound(w), Steady(w),
           \A u \in Threads \ {t} : KeepsThread(u, work, w),
           \A a \in Agents : KeepsAgent(a, work, w),
           ~lost => t \notin w.starting \cup w.active /\ (w.lease[t] # None => t \in w.completed),
           UNCHANGED <<account, alive, lost, starts, agent, effects>>,
           context' \in [Threads -> Generations],
           \/ UNCHANGED again
           \/ \E quota \in BOOLEAN : ReplayObserves(t, quota)
           \/ callers' = callers \ {t} /\ UNCHANGED <<replay, due, toSend>>
    PROVE  IndInv'
<1>1. /\ job' = [job EXCEPT ![t] = NoJob] /\ ended' = [ended EXCEPT ![t] = 1]
      /\ effects' = [effects EXCEPT ![t] = effects[t]]
  <2>1. ended[t] = 0 /\ effects = [effects EXCEPT ![t] = effects[t]]
    BY Facts DEF JobOK, IndInv, Functions
  <2> QED
    BY <2>1 DEF EndsWith
<1>2. JobOK(NoJob, 1, effects[t], lost)
  BY Facts DEF JobOK, NoJob, Jobs
<1>3. LeaseOK(t, NoJob, work', InPlace, generation, lost)
  BY DEF LeaseOK, NoJob, EndsWith
<1>4. \A u \in Threads : job'[u].pc # "idle" => job[u].pc # "idle" /\ job'[u].by = job[u].by
  BY <1>1 DEF NoJob, IndInv, Functions
<1>5. /\ replay' \in [Threads -> Rows] /\ callers' \subseteq Threads /\ ReplaysOK'
      /\ due' = due /\ toSend' = toSend
  <2>1. CASE \E quota \in BOOLEAN : ReplayObserves(t, quota)
    BY <1>4, <2>1, ObservedRows DEF account, ReplayObserves
  <2>2. CASE callers' \subseteq callers /\ UNCHANGED <<replay, due, toSend>>
    BY <1>4, <2>2, SameRows DEF account, IndInv, Functions, RestOK
  <2> QED
    BY <2>1, <2>2 DEF again
<1>6. WorkParts'
  BY <1>1, <1>2, <1>3, <1>5, OneThread DEF EndsWith, account
<1>7. AccountOK' /\ RestOK'
  BY <1>5, RestKept DEF IndInv, RestOK
<1> QED
  BY <1>5, <1>6, <1>7, PartsAreEnough

LEMMA PrepareFailsKeeps ==
    ASSUME IndInv, NEW t \in Threads, PrepareFails(t)
    PROVE  IndInv'
<1> DEFINE w == Refused(work, {t})
<1>1. /\ Sound(w) /\ Steady(w)
      /\ \A u \in Threads \ {t} : KeepsThread(u, work, w)
      /\ \A a \in Agents : KeepsAgent(a, work, w)
      /\ t \notin w.starting /\ (t \in w.active <=> t \in work.active)
      /\ w.lease[t] # None => t \in w.completed
  BY Facts, RefusedKeeps
<1>2. t \notin work.active
  BY Facts DEF LeaseOK, PrepareFails
<1>3. context' \in [Threads -> Generations]
  BY Facts DEF PrepareFails, IndInv, RestOK
<1>4. EndsWith(t, w) /\ job[t].pc # "idle"
      /\ UNCHANGED <<account, alive, lost, starts, agent, effects, again>>
  BY DEF PrepareFails
<1> HIDE DEF w
<1> QED
  BY <1>1, <1>2, <1>3, <1>4, EndStep

LEMMA PreparedKeeps ==
    ASSUME IndInv, NEW t \in Threads, Prepared(t)
    PROVE  IndInv'
<1>1. PICK moved \in BOOLEAN :
         /\ job' = [job EXCEPT ![t].pc = "running",
                       ![t].tracked = job[t].kind = "turn" /\ context[t] < mine /\ ~moved]
         /\ context' = IF job[t].kind = "turn" \/ moved THEN [context EXCEPT ![t] = mine]
                       ELSE context
  BY DEF Prepared
<1> DEFINE j == [job[t] EXCEPT !.pc = "running",
                    !.tracked = job[t].kind = "turn" /\ context[t] < mine /\ ~moved]
<1>2. job' = [job EXCEPT ![t] = j] /\ effects' = [effects EXCEPT ![t] = effects[t]]
  BY <1>1 DEF IndInv, Functions, Prepared
<1>3. job[t] \in Jobs /\ job[t].pc = "preparing"
  BY DEF IndInv, Functions, Prepared
<1>4. /\ j \in Jobs /\ j.pc = "running" /\ j.tracked \in BOOLEAN
      /\ j.tracked => j.kind = "turn"
      /\ j.kind = job[t].kind /\ j.by = job[t].by /\ j.gone = job[t].gone
      /\ j.try = job[t].try /\ j.responded = job[t].responded
      /\ j.started = job[t].started /\ j.effect = job[t].effect
      /\ j.failure = job[t].failure
  BY <1>3 DEF Jobs
<1> HIDE DEF j
<1>5. JobOK(j, ended[t], effects[t], lost) /\ LeaseOK(t, j, work, InPlace, generation, lost)
  BY <1>3, <1>4, Facts DEF JobOK, LeaseOK
<1>6. context' \in [Threads -> Generations]
  BY <1>1, Facts DEF IndInv, RestOK
<1> QED
  BY <1>2, <1>3, <1>4, <1>5, <1>6, JobStep DEF Prepared

LEMMA RespondKeeps ==
    ASSUME IndInv, NEW t \in Threads, Respond(t)
    PROVE  IndInv'
<1> DEFINE j == [job[t] EXCEPT !.responded = TRUE]
<1>1. job' = [job EXCEPT ![t] = j] /\ effects' = [effects EXCEPT ![t] = effects[t]]
  BY DEF IndInv, Functions, Respond
<1>2. job[t] \in Jobs /\ job[t].pc = "running"
  BY DEF IndInv, Functions, Respond, Waiting
<1>3. /\ j \in Jobs
      /\ j.pc = job[t].pc /\ j.kind = job[t].kind /\ j.by = job[t].by
      /\ j.gone = job[t].gone /\ j.tracked = job[t].tracked /\ j.try = job[t].try
      /\ j.started = job[t].started /\ j.effect = job[t].effect
      /\ j.failure = job[t].failure
  BY <1>2 DEF Jobs
<1> HIDE DEF j
<1>4. JobOK(j, ended[t], effects[t], lost) /\ LeaseOK(t, j, work, InPlace, generation, lost)
  BY <1>2, <1>3, Facts DEF JobOK, LeaseOK
<1>5. context' \in [Threads -> Generations]
  BY DEF IndInv, RestOK, Respond
<1>6. UNCHANGED <<account, alive, lost, starts, work, agent, ended, again>>
  BY DEF Respond
<1>7. j.pc # "idle" /\ job[t].pc # "idle" /\ j.by = job[t].by
  BY <1>2, <1>3
<1> QED
  BY <1>1, <1>4, <1>5, <1>6, <1>7, JobStep

\* The failure of a first turn, held: its thread stays active when a turn of
\* its has been seen.
LEMMA RehomeKeeps ==
    ASSUME IndInv, NEW t \in Threads, NEW failure \in {"rpc", "terminal"},
           Rehome(t, failure), Retries(t), job[t].pc = "running",
           failure = "rpc" => ~job[t].started,
           UNCHANGED <<account, alive, lost, starts, agent, context, effects, again>>
    PROVE  IndInv'
<1> DEFINE j == [job[t] EXCEPT !.pc = "rehoming", !.failure = failure, !.responded = FALSE,
                               !.started = FALSE, !.effect = FALSE]
<1>1. job' = [job EXCEPT ![t] = j] /\ effects' = [effects EXCEPT ![t] = effects[t]]
  BY DEF IndInv, Functions, Rehome
<1>2. job[t] \in Jobs
  BY DEF IndInv, Functions
<1>3. /\ j \in Jobs /\ j.pc = "rehoming" /\ j.failure = failure
      /\ ~j.responded /\ ~j.started /\ ~j.effect
      /\ j.kind = job[t].kind /\ j.by = job[t].by /\ j.gone = job[t].gone
      /\ j.tracked = job[t].tracked /\ j.try = job[t].try
  BY <1>2 DEF Jobs
<1> HIDE DEF j
<1>4. failure # None
  BY WorkAssumption
<1>5. JobOK(j, ended[t], effects[t], lost) /\ LeaseOK(t, j, work, InPlace, generation, lost)
  BY <1>2, <1>3, <1>4, Facts, WorkAssumption DEF JobOK, LeaseOK, Retries
<1>6. context' \in [Threads -> Generations]
  BY DEF IndInv, RestOK
<1>7. UNCHANGED <<account, alive, lost, starts, work, agent, ended, again>>
  BY DEF Rehome
<1>8. j.pc # "idle" /\ job[t].pc # "idle" /\ j.by = job[t].by
  BY <1>2, <1>3
<1> QED
  BY <1>1, <1>5, <1>6, <1>7, <1>8, JobStep

\* A held terminal ends the request as a turn does, anything else as a refusal.
LEMMA DeliverFailureKeeps ==
    ASSUME IndInv, NEW t \in Threads, DeliverFailure(t), Observed(t),
           job[t].pc \in {"running", "rehoming"}, ~job[t].started,
           UNCHANGED <<account, alive, lost, starts, agent, context, effects>>
    PROVE  IndInv'
<1>1. t \notin Agents
  BY WorkAssumption
<1>2. job[t].failure = "terminal" => t \notin work.realtime
  BY WorkAssumption, Facts DEF JobOK, LeaseOK
<1>3. CASE job[t].failure = "terminal"
  <2> DEFINE w == Completed(work, {t})
  <2>1. /\ Sound(w) /\ Steady(w)
        /\ \A u \in Threads \ {t} : KeepsThread(u, work, w)
        /\ \A a \in Agents : KeepsAgent(a, work, w)
        /\ t \notin w.starting \cup w.active /\ (w.lease[t] # None => t \in w.completed)
    BY <1>1, <1>2, <1>3, Facts, CompletedKeeps
  <2>2. EndsWith(t, w)
    BY <1>3 DEF DeliverFailure
  <2> HIDE DEF w
  <2> QED
    BY <1>3, <2>1, <2>2, EndStep DEF Observed, IndInv, RestOK
<1>4. CASE job[t].failure # "terminal"
  <2> DEFINE w == Refused(work, {t})
  <2>1. /\ Sound(w) /\ Steady(w)
        /\ \A u \in Threads \ {t} : KeepsThread(u, work, w)
        /\ \A a \in Agents : KeepsAgent(a, work, w)
        /\ t \notin w.starting /\ (t \in w.active <=> t \in work.active)
        /\ w.lease[t] # None => t \in w.completed
    BY Facts, RefusedKeeps
  <2>2. t \notin work.active
    BY <1>4, Facts DEF LeaseOK
  <2>3. EndsWith(t, w) /\ UNCHANGED again
    BY <1>4 DEF DeliverFailure, Observed, again
  <2> HIDE DEF w
  <2> QED
    BY <2>1, <2>2, <2>3, EndStep DEF IndInv, RestOK
<1> QED
  BY <1>3, <1>4

LEMMA RespondErrorKeeps ==
    ASSUME IndInv, NEW t \in Threads, RespondError(t)
    PROVE  IndInv'
<1>1. CASE Retries(t) /\ Rehome(t, "rpc") /\ UNCHANGED again
  BY <1>1, RehomeKeeps DEF RespondError, Waiting
<1>2. CASE DeliverFailure(t) /\ Observed(t)
  BY <1>2, DeliverFailureKeeps DEF RespondError, Waiting
<1> QED
  BY <1>1, <1>2 DEF RespondError

LEMMA RehomeFailsKeeps ==
    ASSUME IndInv, NEW t \in Threads, RehomeFails(t)
    PROVE  IndInv'
<1>1. ~job[t].started
  BY Facts DEF RehomeFails, JobOK
<1> QED
  BY <1>1, DeliverFailureKeeps DEF RehomeFails

LEMMA TurnRetriedKeeps ==
    ASSUME IndInv, NEW t \in Threads, TurnRetried(t)
    PROVE  IndInv'
<1>1. job[t].pc = "running"
  BY Facts DEF JobOK, TurnRetried, Completes, NoJob, Jobs
<1> QED
  BY <1>1, RehomeKeeps DEF TurnRetried

LEMMA RehomedKeeps ==
    ASSUME IndInv, NEW t \in Threads, Rehomed(t)
    PROVE  IndInv'
<1> DEFINE j == [job[t] EXCEPT !.pc = "running", !.try = 2]
<1>1. /\ job' = [job EXCEPT ![t].pc = "running", ![t].try = job[t].try + 1]
      /\ effects' = [effects EXCEPT ![t] = effects[t]]
  BY DEF IndInv, Functions, Rehomed
<1>2. job[t] \in Jobs /\ job[t].pc = "rehoming" /\ job[t].try + 1 = 2
  BY Facts DEF JobOK, Rehomed
<1>3. job' = [job EXCEPT ![t] = j]
  BY <1>1, <1>2
<1>4. /\ j.pc = "running" /\ j.try = 2
      /\ j.kind = job[t].kind /\ j.by = job[t].by /\ j.gone = job[t].gone
      /\ j.tracked = job[t].tracked /\ j.responded = job[t].responded
      /\ j.started = job[t].started /\ j.effect = job[t].effect
      /\ j.failure = job[t].failure
  BY <1>2 DEF Jobs
<1>5. j \in Jobs
  <2>1. job[t] \in Jobs
    BY <1>2
  <2>2. 2 \in 1..2
    OBVIOUS
  <2> QED
    BY <2>1, <2>2 DEF Jobs
<1> HIDE DEF j
<1>6. JobOK(j, ended[t], effects[t], lost) /\ LeaseOK(t, j, work, InPlace, generation, lost)
  BY <1>2, <1>4, <1>5, Facts DEF JobOK, LeaseOK
<1>7. context' \in [Threads -> Generations]
  BY DEF IndInv, RestOK, Rehomed
<1>8. UNCHANGED <<account, alive, lost, starts, work, agent, ended, again>>
  BY DEF Rehomed
<1>9. j.pc # "idle" /\ job[t].pc # "idle" /\ j.by = job[t].by
  BY <1>2, <1>4
<1> QED
  BY <1>1, <1>6, <1>7, <1>8, <1>9, <1>3, JobStep

LEMMA UnderWay ==
    ASSUME IndInv, NEW t \in Threads, job[t].started \/ job[t].responded
    PROVE  job[t].pc = "running"
BY Facts DEF JobOK, NoJob, Jobs

LEMMA TurnStartsKeeps ==
    ASSUME IndInv, NEW t \in Threads, TurnStarts(t)
    PROVE  IndInv'
<1> DEFINE j == [job[t] EXCEPT !.started = TRUE]
<1>1. job' = [job EXCEPT ![t] = j]
  BY DEF TurnStarts
<1>2. /\ effects' = [effects EXCEPT ![t] = effects[t]] /\ ended' = [ended EXCEPT ![t] = ended[t]]
      /\ context' \in [Threads -> Generations] /\ replay' \in [Threads -> Rows]
      /\ callers' \subseteq Threads /\ alive \in BOOLEAN
  BY DEF IndInv, Functions, RestOK, TurnStarts, again
<1>3. job[t] \in Jobs /\ job[t].pc = "running" /\ t \notin Agents
  BY WorkAssumption DEF IndInv, Functions, TurnStarts
<1>4. /\ j \in Jobs /\ j.started
      /\ j.pc = job[t].pc /\ j.kind = job[t].kind /\ j.by = job[t].by
      /\ j.gone = job[t].gone /\ j.tracked = job[t].tracked /\ j.try = job[t].try
      /\ j.responded = job[t].responded /\ j.effect = job[t].effect
      /\ j.failure = job[t].failure
  BY <1>3 DEF Jobs
<1> HIDE DEF j
<1>5. JobOK(j, ended[t], effects[t], lost)
  BY <1>3, <1>4, Facts DEF JobOK
<1>6. UNCHANGED <<account, alive, lost, starts, agent, ended, again>>
  BY DEF TurnStarts
<1>7. j.pc # "idle" /\ job[t].pc # "idle" /\ j.by = job[t].by
  BY <1>3, <1>4
<1>8. CASE job[t].failure = "terminal"
  <2>1. LeaseOK(t, j, work, InPlace, generation, lost) /\ work' = work
    BY <1>3, <1>4, <1>8, Facts DEF LeaseOK, TurnStarts
  <2> QED
    BY <1>1, <1>2, <1>5, <1>6, <1>7, <2>1, JobStep
<1>9. CASE job[t].failure # "terminal"
  <2>1. work' = Started(work, t) /\ work.rows[t] > 0
    BY <1>3, <1>9, Facts DEF TurnStarts
  <2>2. /\ Sound(work') /\ Steady(work')
        /\ \A u \in Threads \ {t} : KeepsThread(u, work, work')
        /\ \A a \in Agents : KeepsAgent(a, work, work')
        /\ t \in work'.active /\ t \notin work'.completed
        /\ work'.lease = work.lease /\ work'.realtime = work.realtime
    BY <1>3, <2>1, Facts, StartedKeeps
  <2>3. LeaseOK(t, j, work', InPlace, generation, lost)
    BY <1>3, <1>4, <2>2, Facts DEF LeaseOK
  <2>4. WorkParts' /\ job'[t] = j /\ \A u \in Threads \ {t} : job'[u] = job[u]
    BY <1>1, <1>2, <1>5, <1>6, <2>2, <2>3, OneThread DEF account
  <2>5. ReplaysOK'
    BY <1>6, <1>7, <2>4, SameRows DEF account, again
  <2>6. AccountOK' /\ RestOK'
    BY <1>2, <1>6, RestKept DEF again
  <2> QED
    BY <2>4, <2>5, <2>6, PartsAreEnough
<1> QED
  BY <1>8, <1>9

LEMMA EffectKeeps ==
    ASSUME IndInv, NEW t \in Threads, Effect(t)
    PROVE  IndInv'
<1> DEFINE j == [job[t] EXCEPT !.effect = TRUE]
<1>1. job' = [job EXCEPT ![t] = j]
  BY DEF Effect
<1>2. job[t] \in Jobs /\ job[t].pc = "running"
  BY UnderWay DEF IndInv, Functions, Effect
<1>3. effects' = [effects EXCEPT ![t] = 1]
  <2>1. effects[t] = 0
    BY <1>2, Facts DEF JobOK, Effect
  <2>2. effects[t] + 1 = 1
    BY <2>1
  <2>3. effects' = [effects EXCEPT ![t] = effects[t] + 1]
    BY DEF Effect
  <2> QED
    BY <2>2, <2>3
<1>4. /\ j \in Jobs /\ j.effect
      /\ j.pc = job[t].pc /\ j.kind = job[t].kind /\ j.by = job[t].by
      /\ j.gone = job[t].gone /\ j.tracked = job[t].tracked /\ j.try = job[t].try
      /\ j.responded = job[t].responded /\ j.started = job[t].started
      /\ j.failure = job[t].failure
  BY <1>2 DEF Jobs
<1> HIDE DEF j
<1>5. JobOK(j, ended[t], 1, lost) /\ LeaseOK(t, j, work, InPlace, generation, lost)
  BY <1>2, <1>4, Facts DEF JobOK, LeaseOK
<1>6. context' \in [Threads -> Generations]
  BY DEF IndInv, RestOK, Effect
<1>7. UNCHANGED <<account, alive, lost, starts, work, agent, ended, again>>
  BY DEF Effect
<1>8. j.pc # "idle" /\ job[t].pc # "idle" /\ j.by = job[t].by
  BY <1>2, <1>4
<1> QED
  BY <1>1, <1>3, <1>5, <1>6, <1>7, <1>8, JobStep

LEMMA TurnCompletesKeeps ==
    ASSUME IndInv, NEW t \in Threads, NEW quota \in BOOLEAN, TurnCompletes(t, quota)
    PROVE  IndInv'
<1> DEFINE w == Completed(work, {t})
<1>1. job[t].pc = "running" /\ t \notin Agents
  BY UnderWay, WorkAssumption DEF TurnCompletes, Completes
<1>2. t \notin work.realtime
  BY <1>1, Facts DEF LeaseOK, TurnCompletes
<1>3. /\ Sound(w) /\ Steady(w)
      /\ \A u \in Threads \ {t} : KeepsThread(u, work, w)
      /\ \A a \in Agents : KeepsAgent(a, work, w)
      /\ t \notin w.starting \cup w.active /\ (w.lease[t] # None => t \in w.completed)
  BY <1>1, <1>2, Facts, CompletedKeeps
<1>4. EndsWith(t, w) /\ UNCHANGED <<account, alive, lost, starts, agent, effects>>
      /\ ReplayObserves(t, quota)
  BY DEF TurnCompletes
<1>5. context' \in [Threads -> Generations]
  BY DEF IndInv, RestOK, TurnCompletes
<1> HIDE DEF w
<1> QED
  BY <1>1, <1>3, <1>4, <1>5, EndStep

LEMMA RealtimeClosesKeeps ==
    ASSUME IndInv, NEW t \in Threads, RealtimeCloses(t)
    PROVE  IndInv'
<1> DEFINE w == Closed(work, t)
<1>1. job[t].pc = "running"
  BY UnderWay DEF RealtimeCloses
<1>2. /\ Sound(w) /\ Steady(w)
      /\ \A u \in Threads \ {t} : KeepsThread(u, work, w)
      /\ \A a \in Agents : KeepsAgent(a, work, w)
      /\ t \notin w.starting \cup w.active /\ (w.lease[t] # None => t \in w.completed)
  BY Facts, ClosedKeeps
<1>3. EndsWith(t, w) /\ UNCHANGED <<account, alive, lost, starts, agent, effects>>
      /\ UNCHANGED again
  BY DEF RealtimeCloses
<1>4. context' \in [Threads -> Generations]
  BY DEF IndInv, RestOK, RealtimeCloses
<1> HIDE DEF w
<1> QED
  BY <1>1, <1>2, <1>3, <1>4, EndStep

\* The session goes on: its turn is over, its lease stays.
LEMMA RealtimeTurnCompletesKeeps ==
    ASSUME IndInv, NEW t \in Threads, NEW quota \in BOOLEAN, RealtimeTurnCompletes(t, quota)
    PROVE  IndInv'
<1> DEFINE j == [job[t] EXCEPT !.started = FALSE]
<1>1. job' = [job EXCEPT ![t] = j]
  BY DEF RealtimeTurnCompletes
<1>2. /\ effects' = [effects EXCEPT ![t] = effects[t]] /\ ended' = [ended EXCEPT ![t] = ended[t]]
      /\ context' \in [Threads -> Generations]
  BY DEF IndInv, Functions, RestOK, RealtimeTurnCompletes
<1>3. job[t] \in Jobs /\ job[t].pc = "running" /\ t \notin Agents
  BY UnderWay, WorkAssumption DEF IndInv, Functions, RealtimeTurnCompletes, Completes
<1>4. /\ j \in Jobs /\ ~j.started
      /\ j.pc = job[t].pc /\ j.kind = job[t].kind /\ j.by = job[t].by
      /\ j.gone = job[t].gone /\ j.tracked = job[t].tracked /\ j.try = job[t].try
      /\ j.responded = job[t].responded /\ j.effect = job[t].effect
      /\ j.failure = job[t].failure
  BY <1>3 DEF Jobs
<1> HIDE DEF j
<1>5. JobOK(j, ended[t], effects[t], lost)
  BY <1>3, <1>4, Facts DEF JobOK
<1>6. t \in work.realtime /\ t \notin work.completed /\ work.lease[t] = generation
      /\ InPlace
  BY <1>3, Facts DEF LeaseOK, RealtimeTurnCompletes
<1>7. /\ Sound(work') /\ Steady(work')
      /\ \A u \in Threads \ {t} : KeepsThread(u, work, work')
      /\ \A a \in Agents : KeepsAgent(a, work, work')
      /\ t \notin work'.active /\ t \in work'.realtime /\ t \notin work'.completed
      /\ work'.lease[t] = generation
  <2>1. work' = Completed(work, {t})
    BY DEF RealtimeTurnCompletes
  <2> QED
    BY <1>3, <1>6, <2>1, Facts, CompletedKeeps
<1>8. LeaseOK(t, j, work', InPlace, generation, lost)
  BY <1>3, <1>4, <1>6, <1>7 DEF LeaseOK, RealtimeTurnCompletes
<1>9. UNCHANGED <<account, alive, lost, starts, agent>> /\ ReplayObserves(t, quota)
  BY DEF RealtimeTurnCompletes
<1>10. \A u \in Threads : job'[u].pc # "idle" => job[u].pc # "idle" /\ job'[u].by = job[u].by
  BY <1>1, <1>3, <1>4 DEF IndInv, Functions
<1>11. replay' \in [Threads -> Rows] /\ callers' \subseteq Threads /\ ReplaysOK'
       /\ UNCHANGED <<due, toSend>>
  BY <1>9, <1>10, ObservedRows DEF account, ReplayObserves
<1>12. WorkParts'
  BY <1>1, <1>2, <1>5, <1>7, <1>8, <1>9, <1>11, OneThread DEF account
<1>13. AccountOK' /\ RestOK'
  BY <1>2, <1>9, <1>11, RestKept DEF IndInv, RestOK
<1> QED
  BY <1>11, <1>12, <1>13, PartsAreEnough

-----------------------------------------------------------------------------
(* Steps of one subagent.                                                   *)

LEMMA OneAgent ==
    ASSUME IndInv, NEW a \in Agents, NEW g, agent' = [agent EXCEPT ![a] = g],
           AgentOK(a, g, work', lost), Sound(work'), Steady(work'),
           \A u \in Threads : KeepsThread(u, work, work'),
           \A b \in Agents \ {a} : KeepsAgent(b, work, work'),
           UNCHANGED <<account, alive, lost, starts, context, ended, again>>,
           job' \in [Threads -> Jobs], effects' \in [Threads -> {0, 1}], JobsOK',
           \A u \in Threads : /\ LeaseOK(u, job'[u], work, InPlace, generation, lost)
                              /\ job'[u].pc = job[u].pc /\ job'[u].by = job[u].by
    PROVE  IndInv'
<1>1. agent' \in [Agents -> AgentStates] /\ agent'[a] = g
      /\ \A b \in Agents \ {a} : agent'[b] = agent[b]
  BY DEF IndInv, Functions, AgentOK
<1>2. AgentsOK'
  <2>1. ASSUME NEW b \in Agents \ {a} PROVE AgentOK(b, agent[b], work', lost)
    BY Facts, <2>1 DEF AgentOK, KeepsAgent
  <2> QED
    BY <1>1, <2>1 DEF AgentsOK
<1>3. LeasesOK'
  <2>1. ASSUME NEW u \in Threads PROVE LeaseOK(u, job'[u], work', InPlace, generation, lost)
    BY <2>1 DEF LeaseOK, KeepsThread
  <2> QED
    BY <2>1 DEF LeasesOK, InPlace, account
<1>4. Functions'
  BY <1>1 DEF IndInv, Functions, again
<1>5. WorkParts'
  BY <1>2, <1>3, <1>4 DEF WorkParts, WorkOK
<1>6. ReplaysOK'
  BY SameRows DEF account, again
<1>7. alive \in BOOLEAN /\ callers \subseteq Threads /\ context \in [Threads -> Generations]
  BY DEF IndInv, RestOK
<1>8. AccountOK' /\ RestOK'
  BY <1>7, RestKept DEF again
<1> QED
  BY <1>5, <1>6, <1>8, PartsAreEnough

\* Its own messages leave the requests alone.
LEMMA AgentStep ==
    ASSUME IndInv, NEW a \in Agents, NEW g, agent' = [agent EXCEPT ![a] = g],
           AgentOK(a, g, work', lost), Sound(work'), Steady(work'),
           \A u \in Threads : KeepsThread(u, work, work'),
           \A b \in Agents \ {a} : KeepsAgent(b, work, work'),
           UNCHANGED <<account, alive, lost, starts, job, context, ended, effects, again>>
    PROVE  IndInv'
<1>1. job' \in [Threads -> Jobs] /\ effects' \in [Threads -> {0, 1}]
  BY DEF IndInv, Functions
<1>2. JobsOK'
  BY Facts DEF JobsOK
<1>3. \A u \in Threads : /\ LeaseOK(u, job'[u], work, InPlace, generation, lost)
                         /\ job'[u].pc = job[u].pc /\ job'[u].by = job[u].by
  BY Facts
<1> QED
  BY <1>1, <1>2, <1>3, OneAgent

LEMMA SpawnItemStartsKeeps ==
    ASSUME IndInv, NEW t \in Threads, NEW a \in Agents, SpawnItemStarts(t, a)
    PROVE  IndInv'
<1> DEFINE j == [job[t] EXCEPT !.effect = TRUE]
           g == [agent[a] EXCEPT !.item = "started"]
<1>1. job' = [job EXCEPT ![t] = j] /\ agent' = [agent EXCEPT ![a] = g]
      /\ UNCHANGED <<account, alive, lost, starts, context, ended, again>>
  BY DEF SpawnItemStarts
<1>2. job[t] \in Jobs /\ job[t].pc = "running" /\ work.rows[t] > 0
  BY UnderWay, Facts DEF IndInv, Functions, SpawnItemStarts
<1>3. /\ j \in Jobs /\ j.effect
      /\ j.pc = job[t].pc /\ j.kind = job[t].kind /\ j.by = job[t].by
      /\ j.gone = job[t].gone /\ j.tracked = job[t].tracked /\ j.try = job[t].try
      /\ j.responded = job[t].responded /\ j.started = job[t].started
      /\ j.failure = job[t].failure
  BY <1>2 DEF Jobs
<1>4. g \in AgentStates /\ g.item = "started" /\ g.turn = "none"
  <2>1. agent[a] \in AgentStates /\ agent[a].turn = "none"
    BY Facts DEF AgentOK, SpawnItemStarts
  <2> QED
    BY <2>1 DEF AgentStates
<1> HIDE DEF j, g
<1>5. effects' = [effects EXCEPT ![t] = 1]
  <2>1. (IF job[t].effect THEN effects[t] ELSE effects[t] + 1) = 1
    BY <1>2, Facts DEF JobOK
  <2>2. effects' = [effects EXCEPT ![t] = IF job[t].effect THEN effects[t] ELSE effects[t] + 1]
    BY DEF SpawnItemStarts
  <2> QED
    BY <2>1, <2>2
<1>6. /\ job' \in [Threads -> Jobs] /\ job'[t] = j
      /\ effects' \in [Threads -> {0, 1}] /\ effects'[t] = 1
      /\ \A u \in Threads \ {t} : job'[u] = job[u] /\ effects'[u] = effects[u]
  BY <1>1, <1>3, <1>5 DEF IndInv, Functions
<1>7. JobOK(j, ended[t], 1, lost) /\ LeaseOK(t, j, work, InPlace, generation, lost)
  BY <1>2, <1>3, Facts DEF JobOK, LeaseOK
<1>8. JobsOK'
  <2>1. \A u \in Threads \ {t} : JobOK(job'[u], ended'[u], effects'[u], lost')
    BY <1>1, <1>6, Facts
  <2>2. JobOK(job'[t], ended'[t], effects'[t], lost')
    BY <1>1, <1>6, <1>7
  <2> QED
    BY <2>1, <2>2 DEF JobsOK
<1>9. \A u \in Threads : /\ LeaseOK(u, job'[u], work, InPlace, generation, lost)
                         /\ job'[u].pc = job[u].pc /\ job'[u].by = job[u].by
  BY <1>3, <1>6, <1>7, Facts
<1>10. /\ Sound(work') /\ Steady(work')
       /\ \A u \in Threads : KeepsThread(u, work, work')
       /\ \A b \in Agents \ {a} : KeepsAgent(b, work, work')
       /\ a \in work'.spawnItems /\ work'.active = work.active /\ work'.finished = work.finished
  BY <1>2, Facts, SpawningKeeps DEF SpawnItemStarts
<1>11. AgentOK(a, g, work', lost)
  BY <1>4, <1>10, Facts DEF AgentOK, SpawnItemStarts
<1> QED
  BY <1>1, <1>6, <1>8, <1>9, <1>10, <1>11, OneAgent

LEMMA SpawnItemCompletesKeeps ==
    ASSUME IndInv, NEW a \in Agents, SpawnItemCompletes(a)
    PROVE  IndInv'
<1> DEFINE g == [agent[a] EXCEPT !.item = "completed"]
<1>1. agent[a] \in AgentStates /\ agent[a].item = "started" /\ a \in work.spawnItems
  BY Facts DEF AgentOK, SpawnItemCompletes
<1>2. g \in AgentStates /\ g.item = "completed" /\ g.turn = agent[a].turn
  BY <1>1 DEF AgentStates
<1>3. agent' = [agent EXCEPT ![a] = g] /\ work' = Spawned(work, a, {a})
      /\ UNCHANGED <<account, alive, lost, starts, job, context, ended, effects, again>>
  BY DEF SpawnItemCompletes
<1> HIDE DEF g
<1>4. /\ Sound(work') /\ Steady(work')
      /\ \A u \in Threads : KeepsThread(u, work, work')
      /\ \A b \in Agents \ {a} : KeepsAgent(b, work, work')
      /\ a \notin work'.spawnItems /\ (a \in work'.finished <=> a \in work.finished)
      /\ a \in work'.active <=> a \in work.active \/ a \notin work.finished
  BY <1>1, <1>3, Facts, SpawnedKeeps
<1>5. AgentOK(a, g, work', lost)
  BY <1>1, <1>2, <1>4, Facts DEF AgentOK, AgentStates
<1> QED
  BY <1>3, <1>4, <1>5, AgentStep

LEMMA SpawnFailsKeeps ==
    ASSUME IndInv, NEW a \in Agents, SpawnFails(a)
    PROVE  IndInv'
<1> DEFINE g == [agent[a] EXCEPT !.item = "failed"]
<1>1. agent[a] \in AgentStates /\ agent[a].item = "started" /\ agent[a].turn = "none"
      /\ a \in work.spawnItems
  BY Facts DEF AgentOK, SpawnFails
<1>2. g \in AgentStates /\ g.item = "failed" /\ g.turn = "none"
  BY <1>1 DEF AgentStates
<1>3. agent' = [agent EXCEPT ![a] = g] /\ work' = Spawned(work, a, {})
      /\ UNCHANGED <<account, alive, lost, starts, job, context, ended, effects, again>>
  BY DEF SpawnFails
<1> HIDE DEF g
<1>4. /\ Sound(work') /\ Steady(work')
      /\ \A u \in Threads : KeepsThread(u, work, work')
      /\ \A b \in Agents \ {a} : KeepsAgent(b, work, work')
      /\ a \notin work'.spawnItems /\ (a \in work'.finished <=> a \in work.finished)
      /\ a \in work'.active <=> a \in work.active
  BY <1>1, <1>3, Facts, SpawnedKeeps
<1>5. AgentOK(a, g, work', lost)
  BY <1>1, <1>2, <1>4, Facts DEF AgentOK
<1> QED
  BY <1>3, <1>4, <1>5, AgentStep

LEMMA AgentTurnStartsKeeps ==
    ASSUME IndInv, NEW a \in Agents, AgentTurnStarts(a)
    PROVE  IndInv'
<1> DEFINE g == [agent[a] EXCEPT !.turn = "running"]
<1>1. agent[a] \in AgentStates /\ agent[a].turn = "none" /\ a \notin Threads
      /\ agent[a].item \in {"started", "completed"}
  BY WorkAssumption, Facts DEF AgentOK, AgentTurnStarts
<1>2. g \in AgentStates /\ g.item = agent[a].item /\ g.turn = "running"
  BY <1>1 DEF AgentStates
<1>3. agent' = [agent EXCEPT ![a] = g] /\ work' = Started(work, a)
      /\ UNCHANGED <<account, alive, lost, starts, job, context, ended, effects, again>>
  BY DEF AgentTurnStarts
<1> HIDE DEF g
<1>4. \E t \in Threads : work.rows[t] > 0
  <2>1. a \in AtWork(work)
    BY <1>1, Facts DEF AgentOK, AtWork
  <2> QED
    BY <2>1, Facts DEF Steady, Rests
<1>5. /\ Sound(work') /\ Steady(work')
      /\ \A u \in Threads : KeepsThread(u, work, work')
      /\ \A b \in Agents \ {a} : KeepsAgent(b, work, work')
      /\ a \in work'.active /\ a \notin work'.finished /\ work'.spawnItems = work.spawnItems
  BY <1>1, <1>3, <1>4, Facts, StartedKeeps
<1>6. AgentOK(a, g, work', lost)
  BY <1>1, <1>2, <1>5, Facts DEF AgentOK
<1> QED
  BY <1>3, <1>5, <1>6, AgentStep

LEMMA AgentTurnEndsKeeps ==
    ASSUME IndInv, NEW a \in Agents, AgentTurnEnds(a)
    PROVE  IndInv'
<1> DEFINE g == [agent[a] EXCEPT !.turn = "ended"]
<1>1. agent[a] \in AgentStates /\ agent[a].turn = "running" /\ a \notin Threads
      /\ agent[a].item \in {"started", "completed"}
  BY WorkAssumption, Facts DEF AgentOK, AgentTurnEnds
<1>2. g \in AgentStates /\ g.item = agent[a].item /\ g.turn = "ended"
  BY <1>1 DEF AgentStates
<1>3. agent' = [agent EXCEPT ![a] = g] /\ work' = Completed(work, {a})
      /\ UNCHANGED <<account, alive, lost, starts, job, context, ended, effects, again>>
  BY DEF AgentTurnEnds
<1> HIDE DEF g
<1>4. /\ Sound(work') /\ Steady(work')
      /\ \A u \in Threads : KeepsThread(u, work, work')
      /\ \A b \in Agents \ {a} : KeepsAgent(b, work, work')
      /\ a \notin work'.active /\ a \in work'.finished
      /\ a \in work'.spawnItems <=> a \in work.spawnItems
  BY <1>1, <1>3, Facts, CompletedKeeps
<1>5. AgentOK(a, g, work', lost)
  BY <1>1, <1>2, <1>4, Facts DEF AgentOK
<1> QED
  BY <1>3, <1>4, <1>5, AgentStep

-----------------------------------------------------------------------------
(* The child and the app's connection.                                      *)

\* What waits is ended by an error, or by the terminal held for it; a turn
\* under way is lost, and so may its leases be.
LEMMA ChildExitKeeps ==
    ASSUME IndInv, ChildExit
    PROVE  IndInv'
<1> DEFINE waiting == {t \in Threads : Waiting(t)}
           held == {t \in waiting : job[t].failure = "terminal"}
           atWork == {t \in Threads : job[t].responded}
           w == Refused(work, waiting \ held)
<1>1. /\ work' = Completed(w, held) /\ alive' = FALSE
      /\ job' = [t \in Threads |-> IF t \in waiting \cup atWork THEN NoJob ELSE job[t]]
      /\ ended' = [t \in Threads |-> IF t \in waiting THEN ended[t] + 1 ELSE ended[t]]
      /\ callers' = callers \ held
      /\ UNCHANGED <<phase, generation, switches, mine, owed, starts, context, effects,
                     replay, due, toSend>>
      /\ upstream' = "running"
  BY DEF ChildExit
<1>2. lost' = \/ lost
              \/ atWork # {}
              \/ \E t \in waiting : job[t].started
              \/ \E a \in Agents : \/ agent[a].item = "started"
                                   \/ agent[a].turn = "running"
                                   \/ a \in work.active
  BY DEF ChildExit
<1>3. agent' = [a \in Agents |-> IF agent[a].item = "none" THEN agent[a]
                                 ELSE [item |-> "failed", turn |-> "ended"]]
  BY DEF ChildExit
<1>4. /\ waiting \in SUBSET Threads /\ held \in SUBSET waiting
      /\ \A t \in held : t \notin Agents
  BY WorkAssumption
<1>5. /\ \A t \in Threads : t \in waiting => job[t].pc = "running" /\ ~job[t].responded
      /\ \A t \in Threads : t \in atWork <=> job[t].responded
      /\ \A t \in waiting : t \in held <=> job[t].failure = "terminal"
  BY DEF Waiting
<1> HIDE DEF waiting, held, atWork, w
<1>6. lost' \in BOOLEAN /\ (lost => lost') /\ (lost' \/ ~lost')
  BY <1>2 DEF IndInv, RestOK
<1>7. /\ Sound(w) /\ Steady(w)
      /\ \A u \in Threads \ (waiting \ held) : KeepsThread(u, work, w)
      /\ \A a \in Agents : KeepsAgent(a, work, w)
      /\ \A t \in waiting \ held : /\ t \notin w.starting /\ (t \in w.active <=> t \in work.active)
                                   /\ w.lease[t] # None => t \in w.completed
  BY <1>4, Facts, RefusedKeeps DEF w
<1>8. /\ Sound(work') /\ Steady(work')
      /\ \A u \in Threads \ held : KeepsThread(u, w, work')
      /\ \A a \in Agents : KeepsAgent(a, w, work')
      /\ \A t \in held : /\ t \notin work'.active /\ t \notin work'.starting
                         /\ t \notin w.realtime => (work'.lease[t] # None => t \in work'.completed)
  BY <1>1, <1>4, <1>7, CompletedKeeps
<1>9. \A a \in Agents : KeepsAgent(a, work, work')
  BY <1>7, <1>8 DEF KeepsAgent
<1>10. \A u \in Threads \ waiting : KeepsThread(u, work, work')
  BY <1>4, <1>7, <1>8 DEF KeepsThread
<1>11. \A t \in Threads :
          /\ job'[t] = IF t \in waiting \cup atWork THEN NoJob ELSE job[t]
          /\ ended'[t] = IF t \in waiting THEN ended[t] + 1 ELSE ended[t]
          /\ effects'[t] = effects[t]
  BY <1>1
<1>12. NoJob \in Jobs /\ NoJob.pc = "idle" /\ ~NoJob.responded
  BY DEF NoJob, Jobs
<1>13. ASSUME NEW t \in Threads
       PROVE  JobOK(job'[t], ended'[t], effects'[t], lost') /\ ended'[t] \in {0, 1}
  <2>1. CASE t \in waiting
    <3>1. job'[t] = NoJob /\ ended'[t] = 1 /\ effects'[t] = effects[t]
      BY <1>5, <1>11, <2>1, Facts DEF JobOK
    <3> QED
      BY <3>1, Facts DEF JobOK, NoJob, Jobs
  <2>2. CASE t \in atWork \ waiting
    <3>1. job'[t] = NoJob /\ ended'[t] = ended[t] /\ effects'[t] = effects[t] /\ lost'
      BY <1>2, <1>11, <2>2
    <3> QED
      BY <3>1, Facts DEF JobOK, NoJob, Jobs
  <2>3. CASE t \notin waiting \cup atWork
    <3>1. job'[t] = job[t] /\ ended'[t] = ended[t] /\ effects'[t] = effects[t]
      BY <1>11, <2>3
    <3> QED
      BY <1>6, <3>1, Facts DEF JobOK
  <2> QED
    BY <2>1, <2>2, <2>3
<1>14. ASSUME NEW t \in Threads
       PROVE  LeaseOK(t, job'[t], work', InPlace, generation, lost')
  <2>1. CASE t \in held
    <3>1. t \notin work.realtime
      BY <1>4, <1>5, <2>1, WorkAssumption, Facts DEF JobOK, LeaseOK
    <3>2. t \notin w.realtime
      BY <1>4, <1>5, <1>7, <2>1, <3>1, Facts DEF KeepsThread, LeaseOK
    <3>3. job'[t] = NoJob
      BY <1>4, <1>11, <2>1
    <3> QED
      BY <1>8, <1>12, <2>1, <3>2, <3>3 DEF LeaseOK
  <2>2. CASE t \in waiting \ held
    <3>1. job'[t] = NoJob
      BY <1>11, <2>2
    <3>2. ~lost' => t \notin work.active
      BY <1>2, <1>5, <2>2, Facts DEF LeaseOK
    <3>3. t \notin work'.starting /\ (t \in work'.active <=> t \in work.active)
          /\ (work'.lease[t] # None => t \in work'.completed)
      BY <1>7, <1>8, <2>2 DEF KeepsThread
    <3> QED
      BY <1>12, <3>1, <3>2, <3>3 DEF LeaseOK
  <2>3. CASE t \in atWork \ waiting
    <3>1. job'[t] = NoJob /\ lost'
      BY <1>2, <1>11, <2>3
    <3> QED
      BY <1>12, <3>1 DEF LeaseOK
  <2>4. CASE t \notin waiting \cup atWork
    <3>1. job'[t] = job[t] /\ KeepsThread(t, work, work')
      BY <1>10, <1>11, <2>4
    <3> QED
      BY <1>6, <3>1, Facts DEF LeaseOK, KeepsThread
  <2> QED
    BY <2>1, <2>2, <2>3, <2>4
<1>15. ASSUME NEW a \in Agents
       PROVE  AgentOK(a, agent'[a], work', lost') /\ agent'[a] \in AgentStates
  <2>1. KeepsAgent(a, work, work')
    BY <1>9
  <2>2. CASE agent[a].item = "none"
    <3>1. agent'[a] = agent[a]
      BY <1>3, <2>2
    <3> QED
      BY <1>6, <2>1, <3>1, Facts DEF AgentOK, KeepsAgent
  <2>3. CASE agent[a].item # "none"
    <3>1. agent'[a] = [item |-> "failed", turn |-> "ended"]
      BY <1>3, <2>3
    <3>2. ~lost' => agent[a].item # "started" /\ a \notin work.active
      BY <1>2
    <3> QED
      BY <1>6, <2>1, <3>1, <3>2, Facts DEF AgentOK, KeepsAgent, AgentStates
  <2> QED
    BY <2>2, <2>3
<1>16. job' \in [Threads -> Jobs] /\ ended' \in [Threads -> {0, 1}]
       /\ effects' \in [Threads -> {0, 1}] /\ agent' \in [Agents -> AgentStates]
       /\ replay' \in [Threads -> Rows]
  BY <1>1, <1>3, <1>12, <1>13, <1>15 DEF IndInv, Functions
<1>17. WorkParts'
  BY <1>1, <1>8, <1>13, <1>14, <1>15, <1>16
  DEF WorkParts, WorkOK, Functions, JobsOK, LeasesOK, InPlace, AgentsOK
<1>18. ReplaysOK'
  BY <1>1, <1>11, <1>12, SameRows
<1>19. AccountOK' /\ RestOK'
  BY <1>1, <1>6 DEF IndInv, AccountOK, RestOK
<1> QED
  BY <1>17, <1>18, <1>19, PartsAreEnough

LEMMA DisconnectKeeps ==
    ASSUME IndInv, Disconnect
    PROVE  IndInv'
<1>1. /\ job' = [t \in Threads |-> IF job[t].pc = "idle" THEN job[t]
                                   ELSE [job[t] EXCEPT !.gone = TRUE]]
      /\ replay' = [t \in Threads |-> IF replay[t].status = "pending"
                                      THEN [replay[t] EXCEPT !.status = "cancelled"]
                                      ELSE replay[t]]
      /\ callers' = {}
      /\ UNCHANGED <<account, alive, lost, starts, work, agent, context, ended, effects,
                     due, toSend>>
  BY DEF Disconnect
<1>2. ASSUME NEW t \in Threads
      PROVE  /\ job'[t] \in Jobs
             /\ JobOK(job'[t], ended[t], effects[t], lost)
             /\ LeaseOK(t, job'[t], work, InPlace, generation, lost)
             /\ job'[t].pc = job[t].pc /\ job'[t].by = job[t].by
  <2>1. CASE job[t].pc = "idle"
    BY <1>1, <2>1, Facts DEF JobOK
  <2>2. CASE job[t].pc # "idle"
    <3> DEFINE j == [job[t] EXCEPT !.gone = TRUE]
    <3>1. job'[t] = j /\ job[t] \in Jobs
      BY <1>1, <2>2 DEF IndInv, Functions
    <3>2. /\ j \in Jobs
          /\ j.pc = job[t].pc /\ j.kind = job[t].kind /\ j.by = job[t].by
          /\ j.tracked = job[t].tracked /\ j.try = job[t].try /\ j.responded = job[t].responded
          /\ j.started = job[t].started /\ j.effect = job[t].effect
          /\ j.failure = job[t].failure
      BY <3>1 DEF Jobs
    <3> HIDE DEF j
    <3> QED
      BY <2>2, <3>1, <3>2, Facts DEF JobOK, LeaseOK
  <2> QED
    BY <2>1, <2>2
<1>3. ASSUME NEW t \in Threads
      PROVE  /\ replay'[t] \in Rows /\ replay'[t].status # "pending"
             /\ replay'[t].newer = replay[t].newer
             /\ replay'[t].generation = replay[t].generation
  <2>1. replay[t] \in Rows
    BY DEF IndInv, Functions
  <2> QED
    BY <1>1, <2>1 DEF Rows
<1>4. job' \in [Threads -> Jobs] /\ replay' \in [Threads -> Rows]
  BY <1>1, <1>2, <1>3
<1>5. WorkParts'
  BY <1>1, <1>2, <1>4
  DEF WorkParts, WorkOK, Functions, JobsOK, LeasesOK, InPlace, AgentsOK, AgentOK, IndInv, account
<1>6. ReplaysOK'
  BY <1>1, <1>2, <1>3, Facts DEF ReplaysOK, ReplayOK, account
<1>7. AccountOK' /\ RestOK'
  BY <1>1 DEF IndInv, AccountOK, RestOK, account
<1> QED
  BY <1>5, <1>6, <1>7, PartsAreEnough

\* The child is back: nothing is said of it but that it runs.
LEMMA RespawnKeeps ==
    ASSUME IndInv, Respawn
    PROVE  IndInv'
BY DEF IndInv, Respawn, account, again, AccountOK, RestOK, WorkOK, Functions, JobsOK, LeasesOK,
       InPlace, AgentsOK, ReplaysOK

-----------------------------------------------------------------------------
(* The switch of the account and the flush of the replay.                   *)

\* A step of the account that leaves work as it is: what is at work must not
\* see it, and what is owed a flush must have one due.
LEMMA AccountStep ==
    ASSUME IndInv, AccountOK', alive' \in BOOLEAN, due' \in BOOLEAN,
           UNCHANGED <<lost, starts, work, job, agent, context, ended, effects, replay, callers,
                       toSend>>,
           \A t \in Threads : job[t].pc # "idle" => generation' = generation /\ InPlace',
           mine' >= mine, due' \/ (due' = due /\ owed' = owed)
    PROVE  IndInv'
<1>1. RestOK' /\ WorkOK' /\ Functions' /\ JobsOK' /\ AgentsOK'
  BY DEF IndInv, RestOK, WorkOK, Functions, JobsOK, AgentsOK
<1>2. LeasesOK'
  BY Facts DEF LeasesOK, LeaseOK
<1>3. ReplaysOK'
  <2>1. ASSUME NEW t \in Threads
        PROVE  ReplayOK(replay[t], job[t], mine', owed', due' \/ t \in toSend)
    <3>1. replay[t].generation \in Nat /\ mine \in Nat /\ mine' \in Nat
      BY Facts DEF ReplayOK, Rows, Generations, AccountOK
    <3> QED
      BY <3>1, Facts DEF ReplayOK
  <2> QED
    BY <2>1 DEF ReplaysOK
<1> QED
  BY <1>1, <1>2, <1>3 DEF IndInv

\* The account and the participant before such a step.
LEMMA Account ==
    ASSUME IndInv
    PROVE  /\ alive \in BOOLEAN /\ due \in BOOLEAN
           /\ generation \in Nat /\ switches \in Generations /\ switches \in Nat
           /\ MaxSwitches \in Nat
           /\ generation + (IF phase = "open" THEN 0 ELSE 1) <= switches
           /\ mine \in Nat /\ mine \in 0..generation /\ owed \in 0..mine
           /\ upstream \in {"running", "stopped", "restarting"}
BY WorkAssumption DEF IndInv, RestOK, AccountOK, Generations

LEMMA SwitchKeeps ==
    ASSUME IndInv, Freeze \/ CancelDrain \/ StopChild \/ Reopen
    PROVE  IndInv'
<1>1. \A t \in Threads : job[t].pc # "idle" => InPlace
  BY Facts DEF LeaseOK
<1>2. CASE Freeze
  <2>1. AccountOK'
    BY <1>2, Account DEF Freeze, AccountOK, Generations
  <2> QED
    BY <1>1, <1>2, <2>1, Account, AccountStep DEF Freeze, again, InPlace
<1>3. CASE CancelDrain
  <2>1. AccountOK'
    BY <1>3, Account DEF CancelDrain, AccountOK
  <2> QED
    BY <1>1, <1>3, <2>1, Account, AccountStep DEF CancelDrain, again, InPlace
<1>4. CASE StopChild
  <2>1. AccountOK'
    BY <1>4, Account DEF StopChild, AccountOK
  <2>2. \A t \in Threads : job[t].pc = "idle"
    BY <1>4, Facts DEF StopChild
  <2>3. /\ alive' \in BOOLEAN /\ due' = due /\ mine' = mine /\ owed' = owed
        /\ UNCHANGED <<lost, starts, work, job, agent, context, ended, effects, replay, callers,
                       toSend>>
    BY <1>4 DEF StopChild, again
  <2>4. mine' >= mine
    BY <2>3, Account
  <2> QED
    BY <2>1, <2>2, <2>3, <2>4, Account, AccountStep
<1>5. CASE Reopen
  <2>1. AccountOK'
    <3>1. /\ phase = "stopped" /\ phase' = "open" /\ switches' = switches
          /\ UNCHANGED <<mine, upstream, owed>>
          /\ generation' = generation \/ generation' = generation + 1
      BY <1>5 DEF Reopen
    <3>2. generation + 1 <= switches
      BY <3>1, Account
    <3> QED
      BY <3>1, <3>2, Account DEF AccountOK
  <2>2. \A t \in Threads : job[t].pc = "idle"
    BY <1>1, <1>5 DEF Reopen, InPlace
  <2> QED
    BY <1>5, <2>1, <2>2, Account, AccountStep DEF Reopen, again
<1> QED
  BY <1>2, <1>3, <1>4, <1>5

\* The participant has no request when it is rebased, and a restart that ends
\* touches none.
LEMMA RestartKeeps ==
    ASSUME IndInv, Restart \/ RestartSucceeds \/ RestartFails
    PROVE  IndInv'
<1>1. \A t \in Threads : job[t].pc # "idle" => InPlace
  BY Facts DEF LeaseOK
<1>2. CASE Restart
  <2>1. AccountOK' /\ mine' >= mine
    BY <1>2, Account DEF Restart, AccountOK
  <2>2. \A t \in Threads : job[t].pc = "idle"
    BY <1>2, Facts DEF Restart
  <2>3. /\ alive' \in BOOLEAN /\ due' = due /\ owed' = owed
        /\ UNCHANGED <<lost, starts, work, job, agent, context, ended, effects, replay, callers,
                       toSend>>
    BY <1>2, Account DEF Restart, again
  <2>4. \A t \in Threads : job[t].pc # "idle" => generation' = generation /\ InPlace'
    BY <2>2
  <2>5. alive' \in BOOLEAN /\ due' \in BOOLEAN /\ (due' \/ (due' = due /\ owed' = owed))
    BY <2>3, Account
  <2> QED
    BY <2>1, <2>3, <2>4, <2>5, AccountStep
<1>3. CASE RestartSucceeds
  <2>1. AccountOK' /\ mine' >= mine
    <3>1. /\ UNCHANGED <<phase, generation, switches, mine>>
          /\ upstream' = "running" /\ owed' = mine
      BY <1>3 DEF RestartSucceeds
    <3>2. owed' \in 0..mine'
      BY <3>1, Account
    <3>3. AccountOK'
      BY <3>1, <3>2 DEF AccountOK, IndInv
    <3>4. mine' >= mine
      BY <3>1, Account
    <3> QED
      BY <3>3, <3>4
  <2>2. /\ generation' = generation /\ due' = TRUE /\ alive' = alive
        /\ UNCHANGED <<lost, starts, work, job, agent, context, ended, effects, replay, callers,
                       toSend>>
        /\ InPlace' = InPlace
    BY <1>3 DEF RestartSucceeds, InPlace
  <2>3. alive' \in BOOLEAN
    BY <2>2, Account
  <2> QED
    BY <1>1, <2>1, <2>2, <2>3, AccountStep
<1>4. CASE RestartFails
  <2>1. /\ UNCHANGED <<phase, generation, switches, mine, owed>>
        /\ upstream' = "running"
    BY <1>4 DEF RestartFails
  <2>2. AccountOK'
    BY <2>1 DEF AccountOK, IndInv
  <2>3. mine' >= mine
    BY <2>1, Account
  <2> QED
    BY <1>1, <1>4, <2>1, <2>2, <2>3, Account, AccountStep DEF RestartFails, again, InPlace
<1> QED
  BY <1>2, <1>3, <1>4

\* A step of the flush that admits nothing.
LEMMA FlushStep ==
    ASSUME IndInv, due' \in BOOLEAN, toSend' \subseteq Threads, replay' \in [Threads -> Rows],
           UNCHANGED <<phase, generation, switches, mine, upstream, alive, lost, starts, work, job,
                       agent, context, ended, effects, callers>>,
           owed' \in {0, owed},
           \A t \in Threads :
              /\ replay'[t].newer = replay[t].newer
              /\ replay'[t].generation = replay[t].generation
              /\ replay'[t].status = "pending" =>
                    /\ replay[t].status = "pending"
                    /\ replay[t].generation < owed' => due' \/ t \in toSend'
    PROVE  IndInv'
<1>1. AccountOK'
  BY Account DEF IndInv, AccountOK
<1>2. RestOK' /\ WorkParts'
  BY DEF IndInv, RestOK, WorkParts, WorkOK, Functions, JobsOK, LeasesOK, InPlace, AgentsOK
<1>3. ReplaysOK'
  BY Facts DEF ReplaysOK, ReplayOK
<1> QED
  BY <1>1, <1>2, <1>3, PartsAreEnough

LEMMA FlushReplayKeeps ==
    ASSUME IndInv, FlushReplay
    PROVE  IndInv'
<1>1. replay \in [Threads -> Rows] /\ Ready \subseteq Threads /\ toSend \subseteq Threads
  BY DEF IndInv, Functions, Ready, RestOK
<1>2. \A t \in Threads : replay[t].generation \in Nat
  BY <1>1 DEF Rows, Generations
<1>3. CASE toSend' = Ready /\ UNCHANGED owed
  <2>1. \A t \in Threads :
           replay[t].status = "pending" /\ replay[t].generation < owed => t \in toSend'
    BY <1>2, <1>3, Account DEF Ready
  <2> QED
    <3>1. /\ due' \in BOOLEAN /\ toSend' \subseteq Threads /\ replay' = replay
          /\ UNCHANGED <<phase, generation, switches, mine, upstream, alive, lost, starts, work,
                         job, agent, context, ended, effects, callers>>
          /\ owed' = owed
      BY <1>1, <1>3 DEF FlushReplay
    <3> QED
      BY <1>1, <2>1, <3>1, FlushStep
<1>4. CASE owed' = 0 /\ UNCHANGED toSend
  <2>1. /\ due' \in BOOLEAN /\ toSend' \subseteq Threads /\ replay' = replay
        /\ UNCHANGED <<phase, generation, switches, mine, upstream, alive, lost, starts, work,
                       job, agent, context, ended, effects, callers>>
        /\ owed' = 0
    BY <1>1, <1>4 DEF FlushReplay
  <2>2. \A t \in Threads : ~(replay[t].generation < owed')
    BY <1>2, <2>1
  <2> QED
    BY <1>1, <2>1, <2>2, FlushStep
<1> QED
  BY <1>3, <1>4 DEF FlushReplay

LEMMA ContinueRefusedKeeps ==
    ASSUME IndInv, NEW t \in Threads, ContinueRefused(t)
    PROVE  IndInv'
<1> DEFINE r == [replay[t] EXCEPT !.status = "sent"]
<1>1. replay \in [Threads -> Rows] /\ toSend \subseteq Threads /\ due \in BOOLEAN
  BY DEF IndInv, Functions, RestOK
<1>2. r \in Rows /\ r.status = "sent" /\ r.newer = replay[t].newer
      /\ r.generation = replay[t].generation
  BY <1>1 DEF Rows
<1>3. replay' = [replay EXCEPT ![t] = r] /\ toSend' = toSend \ {t}
  BY DEF ContinueRefused
<1> HIDE DEF r
<1>4. replay' \in [Threads -> Rows] /\ replay'[t] = r
      /\ \A u \in Threads \ {t} : replay'[u] = replay[u]
  BY <1>1, <1>2, <1>3
<1>5. \A u \in Threads :
         /\ replay'[u].newer = replay[u].newer
         /\ replay'[u].generation = replay[u].generation
         /\ replay'[u].status = "pending" =>
               /\ replay[u].status = "pending"
               /\ replay[u].generation < owed => due \/ u \in toSend'
  BY <1>2, <1>3, <1>4, Facts DEF ReplayOK
<1> QED
  BY <1>1, <1>3, <1>4, <1>5, FlushStep DEF ContinueRefused, account

LEMMA ContinueDroppedKeeps ==
    ASSUME IndInv, NEW t \in Threads, ContinueDropped(t)
    PROVE  IndInv'
<1>1. replay \in [Threads -> Rows] /\ toSend \subseteq Threads /\ due \in BOOLEAN
  BY DEF IndInv, Functions, RestOK
<1>2. \A u \in Threads :
         replay[u].status = "pending" /\ replay[u].generation < owed => due \/ u \in toSend \ {t}
  BY Facts DEF ReplayOK, ContinueDropped, Claims
<1> QED
  BY <1>1, <1>2, FlushStep DEF ContinueDropped, account

-----------------------------------------------------------------------------
LEMMA NextKeeps == IndInv /\ [Next]_vars => IndInv'
<1> SUFFICES ASSUME IndInv, [Next]_vars PROVE IndInv'
  OBVIOUS
<1>1. ASSUME NEW t \in Threads, ThreadSteps(t) PROVE IndInv'
  BY <1>1, RequestKeeps, PrepareFailsKeeps, PreparedKeeps, RespondKeeps, RespondErrorKeeps,
     TurnStartsKeeps, EffectKeeps, TurnCompletesKeeps, RealtimeTurnCompletesKeeps,
     TurnRetriedKeeps, RehomedKeeps, RehomeFailsKeeps, RealtimeClosesKeeps DEF ThreadSteps
<1>2. ASSUME NEW t \in Threads, FlushSteps(t) PROVE IndInv'
  BY <1>2, ContinueKeeps, ContinueRefusedKeeps, ContinueDroppedKeeps DEF FlushSteps
<1>3. ASSUME NEW a \in Agents, AgentSteps(a) PROVE IndInv'
  BY <1>3, SpawnItemStartsKeeps, SpawnItemCompletesKeeps, SpawnFailsKeeps,
     AgentTurnStartsKeeps, AgentTurnEndsKeeps DEF AgentSteps
<1>4. CASE ChildExit \/ Respawn \/ Disconnect
  BY <1>4, ChildExitKeeps, RespawnKeeps, DisconnectKeeps
<1>5. CASE \/ Freeze \/ CancelDrain \/ StopChild \/ Reopen
            \/ Restart \/ RestartSucceeds \/ RestartFails \/ FlushReplay
  BY <1>5, SwitchKeeps, RestartKeeps, FlushReplayKeeps
<1>6. CASE UNCHANGED vars
  BY <1>6 DEF vars, IndInv, AccountOK, RestOK, WorkOK, Functions, JobsOK, LeasesOK, InPlace, AgentsOK,
              ReplaysOK
<1> QED
  BY <1>1, <1>2, <1>3, <1>4, <1>5, <1>6 DEF Next

\* The invariant of the proof: the parts of the state fit each other.
THEOREM InvariantHolds == Spec => []IndInv
BY InitIndInv, NextKeeps, PTL DEF Spec

\* Types of the state, whatever the threads, subagents and switches.
THEOREM TypeCorrect == Spec => []TypeOK
<1>1. IndInv => TypeOK
  BY IndInvImplies
<1> QED
  BY InvariantHolds, <1>1, PTL

\* Whatever runs on the account keeps it in place, from its admission to its
\* end, over the retry of its turn and after the turn that spawned it.
THEOREM WorkKeepsItsLease == Spec => []WorkHoldsItsLease
<1>1. IndInv => WorkHoldsItsLease
  BY IndInvImplies
<1> QED
  BY InvariantHolds, <1>1, PTL

\* A row in the ledger is one AccountWork will give back.
THEOREM LeasesAreHeld == Spec => []NoLeakedLease
<1>1. IndInv => NoLeakedLease
  BY IndInvImplies
<1> QED
  BY InvariantHolds, <1>1, PTL

\* Nothing at work, nothing leased, in whatever order the work came to an end.
THEOREM RestGivesAllBack == Spec => []RestGivesBack
<1>1. IndInv => RestGivesBack
  BY IndInvImplies
<1> QED
  BY InvariantHolds, <1>1, PTL

\* A request is answered for once, by whichever attempt.
THEOREM AnsweredOnce == Spec => []OneEnd
<1>1. IndInv => OneEnd
  BY IndInvImplies
<1> QED
  BY InvariantHolds, <1>1, PTL

\* A retry repeats no effect of the first turn.
THEOREM EffectsHappenOnce == Spec => []CarriedOutOnce
<1>1. IndInv => CarriedOutOnce
  BY IndInvImplies
<1> QED
  BY InvariantHolds, <1>1, PTL

\* What continues a turn stopped at a usage limit is not behind its user.
THEOREM ContinuesNothingOlder == Spec => []ContinuesTheLastTurn
<1>1. IndInv => ContinuesTheLastTurn
  BY IndInvImplies
<1> QED
  BY InvariantHolds, <1>1, PTL

\* A restart that succeeds leaves, once the flush it asked for is through, no
\* row of an account before its own pending, unless the replay was off.
THEOREM NoRowForgotten == Spec => []NoneIsForgotten
<1>1. IndInv => NoneIsForgotten
  BY IndInvImplies
<1> QED
  BY InvariantHolds, <1>1, PTL
=============================================================================
