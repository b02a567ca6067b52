-------------------------- MODULE NativeChildProofs --------------------------
(***************************************************************************)
(* Theorems about NativeChild, for any launches, restarts, exits and        *)
(* switches.                                                               *)
(*                                                                         *)
(* The inductive invariant ties, for each launch, the row, the process      *)
(* group and the place of the launcher's code (Held, Tracked), and the      *)
(* upstream's fields with what the children have been told (Handshakes)     *)
(* and with the hook that stops it (Stopping).  A step that moves a launch, *)
(* a group or the upstream alone is an instance of one lemma each           *)
(* (LaunchMoves, GroupChanges, UpChanges).                                 *)
(***************************************************************************)
EXTENDS NativeChild, TLAPS

\* What has a grant or runs has its row; a grant waits for a blocked supervisor.
Held ==
    \A l \in Launches :
       /\ group[l].native => row[l] = "native"
       /\ group[l].run => row[l] = "native" /\ group[l].sup = "blocked"
       /\ group[l].sup = "running" => group[l].native

Going == {"ready", "attached", "launched", "undo"}

\* Where the code of a live launcher is says what the ledger and the group are.
Tracked ==
    process = "up" =>
       /\ \A l \in Launches :
             /\ launch[l] = "none" => row[l] = "none" /\ group[l] = NoGroup
             /\ launch[l] = "over" => row[l] = "none" /\ Exited(l)
             /\ launch[l] = "ready" => row[l] = "reserved"
             /\ launch[l] \in {"attached", "launched", "child", "stopping"} => row[l] = "native"
             /\ launch[l] \in Going => up.starting = l
             /\ up.starting = l => launch[l] \in Going \cup {"stopping"}
             /\ up.child = l => launch[l] = "child"
       /\ up.starting # None => up.child = None

\* A sealed account has no family.
Sealed == phase = "stopped" => \A l \in Launches : row[l] = "none"

\* The child there is has been told once if sent, and then has answered.
Handshakes ==
    /\ \A l \in Launches :
          /\ told[l].initialized \in {0, 1}
          /\ told[l].initialized = 1 => told[l].answered
          /\ launch[l] \in Going \cup {"none"} => told[l].initialized = 0
          /\ up.child = l => told[l].initialized = IF up.sent THEN 1 ELSE 0
          /\ up.child = l /\ up.handshaken => told[l].answered
    /\ up.ready => up.child # None /\ up.sent

\* What is left of the upstream at each place of the hook that stops it.
Stopping ==
    process = "up" =>
       /\ hook \in {"starting", "child", "family"} => up.stopping
       /\ hook \in {"child", "family"} \/ (hook = "done" /\ up.stopping) =>
             up.starting = None /\ up.child = None /\ ~up.timer
       /\ hook = "done" /\ up.stopping =>
             \A l \in Launches : launch[l] \in {"none", "over"}

\* A call that has been sent has the child it was sent to.
Sent == \A c \in inits : c.at # "await" => c.child \in Launches

\* The types of all variables but the calls.
TypeRest ==
    /\ phase \in {"open", "draining", "stopped"}
    /\ row \in [Launches -> {"none", "reserved", "native"}]
    /\ group \in [Launches -> Group]
    /\ launch \in [Launches -> Steps]
    /\ refusing \in BOOLEAN
    /\ process \in {"up", "gone"}
    /\ up \in Upstream
    /\ hook \in {"none", "starting", "child", "family", "done"}
    /\ told \in [Launches -> [answered : BOOLEAN, initialized : 0 .. 2]]
    /\ exits \in 0 .. MaxExits /\ switches \in 0 .. MaxSwitches

\* Everything but what is said of the calls.
Core == TypeRest /\ Held /\ Tracked /\ Sealed /\ Handshakes /\ Stopping

Calls == inits \subseteq Call /\ Sent

IndInv == Core /\ Calls

LEMMA UnchangedCalls == ASSUME Calls, UNCHANGED inits PROVE Calls'
BY DEF Calls, Sent

-----------------------------------------------------------------------------
(* Steps that change one process group.                                     *)

\* A group changes, within what its row and its launch say of it.
LEMMA GroupChanges ==
  ASSUME Core, NEW l \in Launches, NEW g \in Group,
         group' = [group EXCEPT ![l] = g],
         UNCHANGED <<phase, row, launch, refusing, process, up, hook, told, switches>>,
         exits' \in 0 .. MaxExits,
         launch[l] # "none" \/ group[l].sup # "none",
         g.native => row[l] = "native",
         g.run => row[l] = "native" /\ g.sup = "blocked",
         g.sup = "running" => g.native,
         Exited(l) => g.sup = "dead" /\ ~g.native
  PROVE  Core'
<1>1. \A k \in Launches : group'[k] = IF k = l THEN g ELSE group[k]
  BY DEF Core, TypeRest
<1>2. TypeRest'
  BY DEF Core, TypeRest
<1>3. Held'
  BY <1>1 DEF Core, Held
<1>4. Tracked'
  <2>1. \A k \in Launches : Exited(k) => Exited(k)'
    BY <1>1 DEF Exited
  <2>2. ASSUME process = "up", NEW k \in Launches, launch[k] = "none"
        PROVE  group'[k] = NoGroup
    BY <1>1, <2>2 DEF Core, Tracked, NoGroup
  <2> QED
    BY <2>1, <2>2 DEF Core, Tracked
<1>5. Sealed' /\ Handshakes' /\ Stopping'
  BY DEF Core, Sealed, Handshakes, Stopping
<1> QED
  BY <1>2, <1>3, <1>4, <1>5 DEF Core

LEMMA GroupSteps ==
  ASSUME IndInv, NEW l \in Launches,
         \/ SupervisorRuns(l) \/ SupervisorGivesUp(l) \/ CodexExits(l)
         \/ SupervisorStops(l) \/ SupervisorEnds(l) \/ GroupKilled(l)
  PROVE  IndInv'
<1>1. /\ group[l] \in Group /\ exits \in 0 .. MaxExits /\ MaxExits \in Nat
      /\ Held /\ Core /\ Calls
  BY ChildAssumption DEF IndInv, Core, TypeRest
<1>2. ASSUME NEW g \in Group, group' = [group EXCEPT ![l] = g],
             GroupStep, exits' \in 0 .. MaxExits,
             launch[l] # "none" \/ group[l].sup # "none",
             g.native => row[l] = "native",
             g.run => row[l] = "native" /\ g.sup = "blocked",
             g.sup = "running" => g.native,
             Exited(l) => g.sup = "dead" /\ ~g.native
      PROVE  IndInv'
  BY <1>1, <1>2, GroupChanges, UnchangedCalls DEF GroupStep, IndInv
<1>3. ASSUME SupervisorRuns(l),
             group' = [group EXCEPT ![l] = [sup |-> "running", native |-> TRUE, run |-> FALSE, said |-> TRUE]]
      PROVE  IndInv'
  <2> DEFINE g == [sup |-> "running", native |-> TRUE, run |-> FALSE, said |-> TRUE]
  <2>1. g \in Group /\ group' = [group EXCEPT ![l] = g]
    BY <1>1, <1>3 DEF SupervisorRuns, Dead, NoGroup, Group
  <2>2. /\ launch[l] # "none" \/ group[l].sup # "none"
        /\ g.native => row[l] = "native"
        /\ g.run => row[l] = "native" /\ g.sup = "blocked"
        /\ g.sup = "running" => g.native
        /\ Exited(l) => g.sup = "dead" /\ ~g.native
    BY <1>1, <1>3 DEF SupervisorRuns, Dead, NoGroup, Group, Held, Exited
  <2>3. GroupStep /\ exits' \in 0 .. MaxExits
    BY <1>1, <1>3 DEF SupervisorRuns
  <2> HIDE DEF g
  <2> QED
    BY <1>2, <2>1, <2>2, <2>3
<1>4. ASSUME SupervisorRuns(l),
             group' = [group EXCEPT ![l] = Dead]
      PROVE  IndInv'
  <2> DEFINE g == Dead
  <2>1. g \in Group /\ group' = [group EXCEPT ![l] = g]
    BY <1>1, <1>4 DEF SupervisorRuns, Dead, NoGroup, Group
  <2>2. /\ launch[l] # "none" \/ group[l].sup # "none"
        /\ g.native => row[l] = "native"
        /\ g.run => row[l] = "native" /\ g.sup = "blocked"
        /\ g.sup = "running" => g.native
        /\ Exited(l) => g.sup = "dead" /\ ~g.native
    BY <1>1, <1>4 DEF SupervisorRuns, Dead, NoGroup, Group, Held, Exited
  <2>3. GroupStep /\ exits' \in 0 .. MaxExits
    BY <1>1, <1>4 DEF SupervisorRuns
  <2> HIDE DEF g
  <2> QED
    BY <1>2, <2>1, <2>2, <2>3
<1>5. ASSUME SupervisorGivesUp(l)
      PROVE  IndInv'
  <2> DEFINE g == Dead
  <2>1. g \in Group /\ group' = [group EXCEPT ![l] = g]
    BY <1>1, <1>5 DEF SupervisorGivesUp, Dead, NoGroup, Group
  <2>2. /\ launch[l] # "none" \/ group[l].sup # "none"
        /\ g.native => row[l] = "native"
        /\ g.run => row[l] = "native" /\ g.sup = "blocked"
        /\ g.sup = "running" => g.native
        /\ Exited(l) => g.sup = "dead" /\ ~g.native
    BY <1>1, <1>5 DEF SupervisorGivesUp, Dead, NoGroup, Group, Held, Exited
  <2>3. GroupStep /\ exits' \in 0 .. MaxExits
    BY <1>1, <1>5 DEF SupervisorGivesUp
  <2> HIDE DEF g
  <2> QED
    BY <1>2, <2>1, <2>2, <2>3
<1>6. ASSUME SupervisorStops(l)
      PROVE  IndInv'
  <2> DEFINE g == [group[l] EXCEPT !.sup = "ending"]
  <2>1. g \in Group /\ group' = [group EXCEPT ![l] = g]
    BY <1>1, <1>6 DEF SupervisorStops, Dead, NoGroup, Group
  <2>2. /\ launch[l] # "none" \/ group[l].sup # "none"
        /\ g.native => row[l] = "native"
        /\ g.run => row[l] = "native" /\ g.sup = "blocked"
        /\ g.sup = "running" => g.native
        /\ Exited(l) => g.sup = "dead" /\ ~g.native
    BY <1>1, <1>6 DEF SupervisorStops, Dead, NoGroup, Group, Held, Exited
  <2>3. GroupStep /\ exits' \in 0 .. MaxExits
    BY <1>1, <1>6 DEF SupervisorStops
  <2> HIDE DEF g
  <2> QED
    BY <1>2, <2>1, <2>2, <2>3
<1>7. ASSUME SupervisorEnds(l)
      PROVE  IndInv'
  <2> DEFINE g == [group[l] EXCEPT !.sup = "dead", !.native = FALSE]
  <2>1. g \in Group /\ group' = [group EXCEPT ![l] = g]
    BY <1>1, <1>7 DEF SupervisorEnds, Dead, NoGroup, Group
  <2>2. /\ launch[l] # "none" \/ group[l].sup # "none"
        /\ g.native => row[l] = "native"
        /\ g.run => row[l] = "native" /\ g.sup = "blocked"
        /\ g.sup = "running" => g.native
        /\ Exited(l) => g.sup = "dead" /\ ~g.native
    BY <1>1, <1>7 DEF SupervisorEnds, Dead, NoGroup, Group, Held, Exited
  <2>3. GroupStep /\ exits' \in 0 .. MaxExits
    BY <1>1, <1>7 DEF SupervisorEnds
  <2> HIDE DEF g
  <2> QED
    BY <1>2, <2>1, <2>2, <2>3
<1>8. ASSUME GroupKilled(l)
      PROVE  IndInv'
  <2> DEFINE g == [group[l] EXCEPT !.sup = "dead", !.native = FALSE, !.run = FALSE]
  <2>1. g \in Group /\ group' = [group EXCEPT ![l] = g]
    BY <1>1, <1>8 DEF GroupKilled, Dead, NoGroup, Group
  <2>2. /\ launch[l] # "none" \/ group[l].sup # "none"
        /\ g.native => row[l] = "native"
        /\ g.run => row[l] = "native" /\ g.sup = "blocked"
        /\ g.sup = "running" => g.native
        /\ Exited(l) => g.sup = "dead" /\ ~g.native
    BY <1>1, <1>8 DEF GroupKilled, Dead, NoGroup, Group, Held, Exited
  <2>3. GroupStep /\ exits' \in 0 .. MaxExits
    BY <1>1, <1>8 DEF GroupKilled
  <2> HIDE DEF g
  <2> QED
    BY <1>2, <2>1, <2>2, <2>3
<1>9. ASSUME CodexExits(l)
      PROVE  IndInv'
  <2>1. PICK left \in BOOLEAN :
           group' = [group EXCEPT ![l].sup = "dead", ![l].native = left]
    BY <1>9 DEF CodexExits
  <2> DEFINE g == [group[l] EXCEPT !.sup = "dead", !.native = left]
  <2>2. g \in Group /\ group' = [group EXCEPT ![l] = g]
    BY <1>1, <2>1 DEF Group, Core, TypeRest
  <2>3. /\ launch[l] # "none" \/ group[l].sup # "none"
        /\ g.native => row[l] = "native"
        /\ g.run => row[l] = "native" /\ g.sup = "blocked"
        /\ g.sup = "running" => g.native
        /\ Exited(l) => g.sup = "dead" /\ ~g.native
    BY <1>1, <1>9 DEF CodexExits, Group, Held, Exited
  <2>4. GroupStep /\ exits' \in 0 .. MaxExits
    BY <1>1, <1>9 DEF CodexExits
  <2> HIDE DEF g
  <2> QED
    BY <1>2, <2>2, <2>3, <2>4
<1> QED
  BY <1>3, <1>4, <1>5, <1>6, <1>7, <1>8, <1>9 DEF SupervisorRuns
-----------------------------------------------------------------------------
(* Steps of the upstream: start, initialize and markInitialized.            *)

\* The upstream changes, but not what it says of its child.
LEMMA UpChanges ==
  ASSUME Core, NEW v \in Upstream, up' = v, Stopping',
         v.child = up.child, v.starting = up.starting, v.sent = up.sent,
         v.handshaken = up.handshaken, v.ready = up.ready,
         hook' \in {"none", "starting", "child", "family", "done"},
         UNCHANGED <<phase, row, group, launch, refusing, process, told, exits, switches>>
  PROVE  Core'
<1>1. TypeRest'
  BY DEF Core, TypeRest
<1>2. Held' /\ Sealed'
  BY DEF Core, Held, Sealed
<1>3. Tracked'
  BY DEF Core, Tracked, Exited
<1>4. Handshakes'
  BY DEF Core, Handshakes
<1> QED
  BY <1>1, <1>2, <1>3, <1>4 DEF Core

\* A start outside the stop hook, whatever it comes to.
LEMMA Starts ==
  ASSUME Core, NEW u \in Upstream, Start(u), process = "up", ~u.stopping,
         hook \in {"none", "done"},
         u.child = up.child, u.starting = up.starting, u.sent = up.sent,
         u.handshaken = up.handshaken, u.ready = up.ready,
         UNCHANGED <<phase, refusing, process, hook, told, exits, switches>>
  PROVE  Core' /\ up' \in Upstream
<1>1. CASE up' = u /\ UNCHANGED <<row, group, launch>>
  <2>1. Stopping'
    BY <1>1 DEF Stopping
  <2> QED
    BY <1>1, <2>1, UpChanges
<1>2. CASE up' = [u EXCEPT !.unavailable = TRUE] /\ UNCHANGED <<row, group, launch>>
  <2> DEFINE v == [u EXCEPT !.unavailable = TRUE]
  <2>1. /\ v \in Upstream /\ up' = v /\ ~v.stopping
        /\ v.child = u.child /\ v.starting = u.starting /\ v.sent = u.sent
        /\ v.handshaken = u.handshaken /\ v.ready = u.ready
    BY <1>2 DEF Upstream
  <2> HIDE DEF v
  <2>2. Stopping'
    BY <2>1 DEF Stopping
  <2> QED
    BY <1>2, <2>1, <2>2, UpChanges
<1>3. ASSUME Admitted, u.child = None, u.starting = None,
             NEW l \in Launches, Fresh(l),
             up' = [u EXCEPT !.starting = l],
             row' = [row EXCEPT ![l] = "reserved"],
             group' = [group EXCEPT ![l] = Blocked],
             launch' = [launch EXCEPT ![l] = "ready"]
      PROVE  Core' /\ up' \in Upstream
  <2>1. /\ up' \in Upstream /\ ~up'.stopping /\ up'.starting = l
        /\ up'.child = None /\ up'.ready = up.ready
    BY <1>3 DEF Upstream
  <2>2. Blocked \in Group /\ ~Blocked.native /\ ~Blocked.run /\ Blocked.sup = "blocked"
    BY DEF Blocked, NoGroup, Group
  <2>3. \A k \in Launches :
          /\ row'[k] = IF k = l THEN "reserved" ELSE row[k]
          /\ group'[k] = IF k = l THEN Blocked ELSE group[k]
          /\ launch'[k] = IF k = l THEN "ready" ELSE launch[k]
    BY <1>3 DEF Core, TypeRest
  <2>4. /\ \A k \in Launches : launch[k] \notin Going /\ k # None
        /\ launch[l] = "none" /\ phase = "open" /\ ~up.ready
    BY <1>3, ChildAssumption DEF Core, Tracked, Handshakes, Fresh, Admitted
  <2>5. TypeRest'
    BY <1>3, <2>1, <2>2 DEF Core, TypeRest, Steps
  <2>6. Held'
    BY <2>2, <2>3, <2>4 DEF Core, Held, Tracked
  <2>7. Tracked'
    BY <2>1, <2>3, <2>4 DEF Core, Tracked, Exited, Going
  <2>8. Sealed' /\ Stopping'
    BY <2>1, <2>4 DEF Core, Sealed, Stopping
  <2>9. Handshakes'
    BY <2>1, <2>3, <2>4 DEF Core, Handshakes, Going
  <2> QED
    BY <2>1, <2>5, <2>6, <2>7, <2>8, <2>9 DEF Core
<1> QED
  BY <1>1, <1>2, <1>3, UpChanges DEF Start, Upstream

LEMMA Initializes ==
  ASSUME Calls, NEW u \in Upstream, Initialize(u)
  PROVE  Calls'
<1>1. u.child # None => u.child \in Launches
  BY DEF Upstream
<1> QED
  BY <1>1 DEF Calls, Sent, Initialize, Call

LEMMA Marks ==
  ASSUME Core, Mark, process = "up",
         UNCHANGED <<phase, row, group, launch, refusing, process, hook, exits, switches>>
  PROVE  Core'
<1>1. CASE UNCHANGED <<up, told>>
  BY <1>1 DEF Core, TypeRest, Held, Tracked, Exited, Sealed, Handshakes, Stopping
<1>2. CASE /\ ~up.sent /\ up.handshaken /\ up.child # None
           /\ up' = [up EXCEPT !.sent = TRUE, !.ready = TRUE]
           /\ told' = [told EXCEPT ![up.child].initialized = @ + 1]
  <2>1. /\ up' \in Upstream /\ up.child \in Launches
        /\ up'.child = up.child /\ up'.starting = up.starting /\ up'.sent /\ up'.ready
        /\ up'.handshaken = up.handshaken
        /\ up'.stopping = up.stopping /\ up'.timer = up.timer
    BY <1>2 DEF Core, TypeRest, Upstream
  <2>2. told[up.child].initialized = 0 /\ told[up.child].answered /\ launch[up.child] = "child"
    BY <1>2, <2>1 DEF Core, Handshakes, Tracked
  <2>3. /\ told' \in [Launches -> [answered : BOOLEAN, initialized : 0 .. 2]]
        /\ \A k \in Launches :
              /\ told'[k].answered = told[k].answered
              /\ told'[k].initialized = IF k = up.child THEN 1 ELSE told[k].initialized
    BY <1>2, <2>1, <2>2 DEF Core, TypeRest
  <2>4. TypeRest' /\ Held' /\ Sealed'
    BY <2>1, <2>3 DEF Core, TypeRest, Held, Sealed
  <2>5. Tracked' /\ Stopping'
    BY <2>1 DEF Core, Tracked, Exited, Stopping
  <2>6. Handshakes'
    BY <1>2, <2>1, <2>2, <2>3 DEF Core, Handshakes, Going
  <2> QED
    BY <2>4, <2>5, <2>6 DEF Core
<1> QED
  BY <1>1, <1>2 DEF Mark
-----------------------------------------------------------------------------
(* Steps of a launch.                                                       *)

\* A launch may go on at step s, with the row r and the group g, while the
\* upstream becomes v.
Fits(l, s, r, g, v) ==
    /\ launch[l] \notin {"none", "over"}
    /\ s \in Steps \ {"none"} /\ r \in {"none", "reserved", "native"} /\ g \in Group
    /\ v \in Upstream
    /\ r = row[l] \/ r = "none" \/ phase # "stopped"
    /\ g.native => r = "native"
    /\ g.run => r = "native" /\ g.sup = "blocked"
    /\ g.sup = "running" => g.native
    /\ s = "over" => r = "none" /\ g.sup = "dead" /\ ~g.native
    /\ s = "ready" => r = "reserved"
    /\ s \in {"attached", "launched", "child", "stopping"} => r = "native"
    /\ s \in Going => launch[l] \in Going /\ v.starting = l
    /\ v.starting = l => s \in Going \cup {"stopping"}
    /\ v.starting = up.starting \/ (v.starting = None /\ up.starting \in {l, None})
    /\ v.child = up.child /\ v.child # l /\ v.sent = up.sent /\ v.ready = up.ready
    /\ v.handshaken = up.handshaken /\ v.stopping = up.stopping /\ v.timer = up.timer

LEMMA LaunchMoves ==
  ASSUME Core, process = "up", NEW l \in Launches, NEW s, NEW r, NEW g, NEW v,
         Fits(l, s, r, g, v),
         launch' = [launch EXCEPT ![l] = s], row' = [row EXCEPT ![l] = r],
         group' = [group EXCEPT ![l] = g], up' = v,
         UNCHANGED <<phase, refusing, process, hook, told, exits, switches>>
  PROVE  Core'
<1>1. \A k \in Launches :
        /\ row'[k] = IF k = l THEN r ELSE row[k]
        /\ group'[k] = IF k = l THEN g ELSE group[k]
        /\ launch'[k] = IF k = l THEN s ELSE launch[k]
  BY DEF Core, TypeRest
<1>2. TypeRest'
  BY DEF Core, TypeRest, Fits
<1>3. Held' /\ Sealed'
  BY <1>1 DEF Core, Held, Sealed, Fits
<1>4. Tracked'
  BY <1>1, ChildAssumption DEF Core, Tracked, Exited, Going, Fits
<1>5. Handshakes'
  BY <1>1 DEF Core, Handshakes, Going, Fits
<1>6. Stopping'
  BY <1>1 DEF Core, Stopping, Fits
<1> QED
  BY <1>2, <1>3, <1>4, <1>5, <1>6 DEF Core

LEMMA LaunchSteps ==
  ASSUME IndInv, NEW l \in Launches, LaunchStep(l)
  PROVE  IndInv'
<1>1. /\ Core /\ Calls /\ Held /\ Tracked /\ Sealed /\ Stopping /\ process = "up"
      /\ group[l] \in Group /\ row[l] \in {"none", "reserved", "native"} /\ launch[l] \in Steps
      /\ up \in Upstream
      /\ group = [group EXCEPT ![l] = group[l]] /\ row = [row EXCEPT ![l] = row[l]]
      /\ l # None
  BY ChildAssumption
     DEF IndInv, Core, TypeRest, LaunchStep, Ready, Grant, LaunchFails, Launched, Undone,
         ChildStopped
<1>2. CASE Ready(l)
  <2>1. Fits(l, "attached", "native", group[l], up)
    BY <1>1, <1>2 DEF Fits, Ready, Held, Tracked, Sealed, Steps, Going
  <2> QED
    BY <1>1, <1>2, <2>1, LaunchMoves, UnchangedCalls DEF IndInv, Ready
<1>3. CASE Grant(l)
  <2> DEFINE g == [group[l] EXCEPT !.run = (@ \/ group[l].sup = "blocked")]
  <2>1. /\ g \in Group /\ group' = [group EXCEPT ![l] = g]
        /\ g.native = group[l].native /\ g.sup = group[l].sup
        /\ g.run = (group[l].run \/ group[l].sup = "blocked")
    BY <1>1, <1>3 DEF Grant, Group, Core, TypeRest
  <2> HIDE DEF g
  <2>2. Fits(l, "launched", row[l], g, up)
    BY <1>1, <1>3, <2>1 DEF Fits, Grant, Held, Tracked, Steps, Going
  <2>3. /\ process = "up" /\ launch' = [launch EXCEPT ![l] = "launched"]
        /\ UNCHANGED <<phase, row, refusing, process, up, inits, hook, told, exits, switches>>
    BY <1>3 DEF Grant
  <2> QED
    BY <1>1, <2>1, <2>2, <2>3, LaunchMoves, UnchangedCalls DEF IndInv
<1>4. CASE LaunchFails(l)
  <2>1. Fits(l, "undo", row[l], group[l], up)
    BY <1>1, <1>4 DEF Fits, LaunchFails, Held, Tracked, Steps, Going
  <2> QED
    BY <1>1, <1>4, <2>1, LaunchMoves, UnchangedCalls DEF IndInv, LaunchFails
<1>5. CASE Undone(l)
  <2> DEFINE v == [up EXCEPT !.starting = None, !.unavailable = TRUE]
  <2>1. /\ v \in Upstream /\ up' = v /\ v.starting = None
        /\ v.child = up.child /\ v.sent = up.sent /\ v.ready = up.ready
        /\ v.handshaken = up.handshaken /\ v.stopping = up.stopping /\ v.timer = up.timer
    BY <1>1, <1>5 DEF Undone, Upstream
  <2> HIDE DEF v
  <2>2. Fits(l, "over", "none", group[l], v)
    BY <1>1, <1>5, <2>1 DEF Fits, Undone, Exited, Held, Tracked, Steps, Going
  <2> QED
    BY <1>1, <1>5, <2>1, <2>2, LaunchMoves, UnchangedCalls DEF IndInv, Undone
<1>6. CASE ChildStopped(l)
  <2> DEFINE v == [up EXCEPT !.starting = IF @ = l THEN None ELSE @]
  <2>1. /\ v \in Upstream /\ up' = v /\ v.starting = IF up.starting = l THEN None ELSE up.starting
        /\ v.child = up.child /\ v.sent = up.sent /\ v.ready = up.ready
        /\ v.handshaken = up.handshaken /\ v.stopping = up.stopping /\ v.timer = up.timer
    BY <1>1, <1>6 DEF ChildStopped, Upstream
  <2> HIDE DEF v
  <2>2. Fits(l, "over", "none", group[l], v)
    BY <1>1, <1>6, <2>1 DEF Fits, ChildStopped, Exited, Held, Tracked, Steps, Going
  <2> QED
    BY <1>1, <1>6, <2>1, <2>2, LaunchMoves, UnchangedCalls DEF IndInv, ChildStopped
<1>7. ASSUME Launched(l), up.stopping, launch' = [launch EXCEPT ![l] = "stopping"], UNCHANGED up
      PROVE  IndInv'
  <2>1. Fits(l, "stopping", row[l], group[l], up)
    BY <1>1, <1>7 DEF Fits, Launched, Held, Tracked, Steps, Going
  <2> QED
    BY <1>1, <1>7, <2>1, LaunchMoves, UnchangedCalls DEF IndInv, Launched
<1>8. ASSUME Launched(l), ~up.stopping, launch' = [launch EXCEPT ![l] = "child"],
             up' = [up EXCEPT !.starting = None, !.child = l, !.handshaken = FALSE,
                              !.sent = FALSE, !.ready = FALSE]
      PROVE  IndInv'
  <2>1. /\ up' \in Upstream /\ up'.starting = None /\ up'.child = l /\ ~up'.handshaken
        /\ ~up'.sent /\ ~up'.ready /\ ~up'.stopping
    BY <1>1, <1>8 DEF Upstream
  <2>2. /\ up.starting = l /\ launch[l] = "launched" /\ told[l].initialized = 0
        /\ \A k \in Launches \ {l} : launch[k] \notin Going
        /\ hook \notin {"starting", "child", "family"}
    BY <1>1, <1>8 DEF Launched, Tracked, Going, Core, Handshakes, Stopping
  <2>3. \A k \in Launches : launch'[k] = IF k = l THEN "child" ELSE launch[k]
    BY <1>8 DEF Core, TypeRest, IndInv
  <2>4. TypeRest' /\ Held' /\ Sealed'
    <3>1. /\ launch' \in [Launches -> Steps]
          /\ UNCHANGED <<phase, row, group, refusing, process, hook, told, exits, switches>>
      BY <1>1, <1>8 DEF Launched, Core, TypeRest, Steps
    <3> QED
      BY <1>1, <2>1, <3>1 DEF Core, TypeRest, Held, Sealed
  <2>5. Tracked'
    <3>1. UNCHANGED <<row, group, process>>
      BY <1>8 DEF Launched
    <3> QED
      BY <1>1, <2>1, <2>2, <2>3, <3>1, ChildAssumption DEF Tracked, Exited, Going
  <2>6. Handshakes' /\ Stopping'
    BY <1>1, <1>8, <2>1, <2>2, <2>3 DEF Launched, Core, Handshakes, Stopping, Going
  <2> QED
    BY <1>1, <1>8, <2>4, <2>5, <2>6, UnchangedCalls DEF IndInv, Core, Launched
<1> QED
  BY <1>2, <1>3, <1>4, <1>5, <1>6, <1>7, <1>8 DEF LaunchStep, Launched
-----------------------------------------------------------------------------
(* Exits, restarts and the handshake.                                       *)

LEMMA ExitSeenStep ==
  ASSUME IndInv, NEW l \in Launches, ExitSeen(l)
  PROVE  IndInv'
<1>1. /\ Core /\ Calls /\ up \in Upstream /\ process = "up" /\ up.child = l
      /\ UNCHANGED <<phase, row, group, launch, refusing, process, hook, told, exits, switches>>
  BY DEF IndInv, Core, TypeRest, ExitSeen
<1>2. /\ up' \in Upstream /\ up'.child = None /\ ~up'.ready /\ ~up'.handshaken
      /\ up'.starting = up.starting /\ up'.stopping = up.stopping
      /\ ~up.stopping \/ up'.timer = up.timer
  <2> DEFINE n == NoChild(up)
  <2>1. /\ n \in Upstream /\ n.child = None /\ ~n.ready /\ ~n.handshaken
        /\ n.starting = up.starting /\ n.stopping = up.stopping /\ n.timer = up.timer
        /\ n.restarts = up.restarts
    BY <1>1 DEF NoChild, Upstream
  <2>2. \/ up.stopping /\ up' = n
        \/ up' = [n EXCEPT !.unavailable = TRUE]
        \/ /\ ~up.stopping /\ up.restarts < MaxRestarts
           /\ up' = [n EXCEPT !.timer = TRUE, !.restarts = @ + 1]
    BY DEF ExitSeen
  <2> HIDE DEF n
  <2>3. up.restarts \in 0 .. MaxRestarts /\ MaxRestarts \in Nat
    BY <1>1, ChildAssumption DEF Upstream
  <2>4. CASE up.stopping /\ up' = n
    BY <2>1, <2>4
  <2>5. CASE up' = [n EXCEPT !.unavailable = TRUE]
    BY <2>1, <2>5 DEF Upstream
  <2>6. CASE /\ ~up.stopping /\ up.restarts < MaxRestarts
             /\ up' = [n EXCEPT !.timer = TRUE, !.restarts = @ + 1]
    <3>1. up.restarts + 1 \in 0 .. MaxRestarts
      BY <2>3, <2>6
    <3> QED
      BY <2>1, <2>6, <3>1 DEF Upstream
  <2> QED
    BY <2>2, <2>4, <2>5, <2>6
<1>3. l # None /\ up.starting = None /\ hook \notin {"child", "family"} /\ ~(hook = "done" /\ up.stopping)
  BY <1>1, ChildAssumption DEF Core, Tracked, Stopping
<1>4. TypeRest' /\ Held' /\ Sealed'
  BY <1>1, <1>2 DEF Core, TypeRest, Held, Sealed
<1>5. Tracked' /\ Stopping'
  BY <1>1, <1>2, <1>3, ChildAssumption DEF Core, Tracked, Exited, Stopping
<1>6. Handshakes'
  BY <1>1, <1>2, ChildAssumption DEF Core, Handshakes
<1>7. Calls'
  BY <1>1 DEF Calls, Sent, ExitSeen, FailPending
<1> QED
  BY <1>4, <1>5, <1>6, <1>7 DEF IndInv, Core

LEMMA TimerStep ==
  ASSUME IndInv, TimerFires
  PROVE  IndInv'
<1> DEFINE u == [up EXCEPT !.timer = FALSE]
<1>1. /\ Core /\ Calls /\ Stopping /\ up \in Upstream /\ process = "up"
      /\ UNCHANGED <<phase, refusing, process, hook, told, exits, switches>>
  BY DEF IndInv, Core, TypeRest, TimerFires
<1>2. /\ u \in Upstream /\ u.child = up.child /\ u.starting = up.starting /\ u.sent = up.sent
      /\ u.handshaken = up.handshaken /\ u.ready = up.ready /\ u.stopping = up.stopping
      /\ u.timer = FALSE
  BY <1>1 DEF Upstream
<1>3. hook \in {"none", "starting", "child", "family", "done"}
  BY <1>1 DEF Core, TypeRest
<1>4. \/ up.stopping /\ up' = u /\ UNCHANGED <<row, group, launch, inits>>
      \/ ~up.stopping /\ Start(u) /\ (Initialize(up') \/ UNCHANGED inits)
  BY DEF TimerFires
<1> HIDE DEF u
<1>5. CASE up.stopping /\ up' = u /\ UNCHANGED <<row, group, launch, inits>>
  <2>1. Stopping'
    BY <1>1, <1>2, <1>5 DEF Stopping
  <2> QED
    BY <1>1, <1>2, <1>3, <1>5, <2>1, UpChanges, UnchangedCalls DEF IndInv
<1>6. CASE ~up.stopping /\ Start(u) /\ (Initialize(up') \/ UNCHANGED inits)
  <2>1. hook \in {"none", "done"}
    BY <1>1, <1>3, <1>6 DEF Stopping
  <2>2. Core' /\ up' \in Upstream
    BY <1>1, <1>2, <1>6, <2>1, Starts
  <2> QED
    BY <1>1, <1>6, <2>2, Initializes, UnchangedCalls DEF IndInv
<1> QED
  BY <1>4, <1>5, <1>6

LEMMA AppSteps ==
  ASSUME IndInv, AppStarts \/ AppInitializes \/ AppInitialized
  PROVE  IndInv'
<1>1. Core /\ Calls /\ Stopping /\ up \in Upstream
      /\ hook \in {"none", "starting", "child", "family", "done"}
  BY DEF IndInv, Core, TypeRest
<1>2. CASE AppStarts
  <2>1. /\ Start(up) /\ process = "up" /\ ~up.stopping
        /\ UNCHANGED <<phase, refusing, process, inits, hook, told, exits, switches>>
    BY <1>2 DEF AppStarts
  <2>2. hook \in {"none", "done"}
    BY <1>1, <2>1 DEF Stopping
  <2> QED
    BY <1>1, <2>1, <2>2, Starts, UnchangedCalls DEF IndInv
<1>3. ASSUME AppInitializes, Mark, UNCHANGED inits
      PROVE  IndInv'
  BY <1>1, <1>3, Marks, UnchangedCalls DEF IndInv, AppInitializes
<1>4. ASSUME AppInitializes, up' = [up EXCEPT !.params = TRUE], Initialize(up), UNCHANGED told
      PROVE  IndInv'
  <2>1. /\ up' \in Upstream /\ up'.child = up.child /\ up'.starting = up.starting
        /\ up'.sent = up.sent /\ up'.handshaken = up.handshaken /\ up'.ready = up.ready
        /\ up'.stopping = up.stopping /\ up'.timer = up.timer
    BY <1>1, <1>4 DEF Upstream
  <2>2. UNCHANGED <<phase, row, group, launch, refusing, process, hook, exits, switches>>
    BY <1>4 DEF AppInitializes
  <2>3. Stopping'
    BY <1>1, <2>1, <2>2 DEF Stopping
  <2> QED
    BY <1>1, <1>4, <2>1, <2>2, <2>3, UpChanges, Initializes DEF IndInv
<1>5. CASE AppInitialized
  BY <1>1, <1>5, Marks, UnchangedCalls DEF IndInv, AppInitialized
<1> QED
  BY <1>2, <1>3, <1>4, <1>5 DEF AppInitializes

LEMMA CallSteps ==
  ASSUME IndInv, NEW c \in inits,
         CallResumes(c) \/ CallAnswered(c) \/ CallFails(c) \/ CallReturns(c)
  PROVE  IndInv'
<1>1. Core /\ Calls /\ up \in Upstream /\ c \in Call
  BY DEF IndInv, Core, TypeRest, Calls
<1>2. CASE CallResumes(c)
  <2>1. Core'
    BY <1>1, <1>2 DEF CallResumes, Core, TypeRest, Held, Tracked, Exited, Sealed, Handshakes, Stopping
  <2>2. up.child # None => up.child \in Launches
    BY <1>1 DEF Upstream
  <2>3. Calls'
    BY <1>1, <1>2, <2>2 DEF CallResumes, Calls, Sent, Call
  <2> QED
    BY <2>1, <2>3 DEF IndInv
<1>3. CASE CallAnswered(c)
  <2>1. /\ c.child \in Launches /\ up.child = c.child /\ process = "up"
        /\ UNCHANGED <<phase, row, group, launch, refusing, process, hook, exits, switches>>
        /\ told' = [told EXCEPT ![c.child].answered = TRUE]
        /\ inits' = (inits \ {c}) \cup {[c EXCEPT !.at = "after"]}
    BY <1>1, <1>3 DEF CallAnswered, Calls, Sent
  <2>2. /\ up' \in Upstream /\ up'.child = up.child /\ up'.starting = up.starting
        /\ up'.sent = up.sent /\ up'.ready = up.ready
        /\ up'.stopping = up.stopping /\ up'.timer = up.timer
    BY <1>1, <1>3 DEF CallAnswered, Upstream
  <2>3. /\ told' \in [Launches -> [answered : BOOLEAN, initialized : 0 .. 2]]
        /\ \A k \in Launches :
              /\ told'[k].initialized = told[k].initialized
              /\ told'[k].answered = IF k = c.child THEN TRUE ELSE told[k].answered
    BY <1>1, <2>1 DEF Core, TypeRest
  <2>4. TypeRest' /\ Held' /\ Sealed'
    BY <1>1, <2>1, <2>2, <2>3 DEF Core, TypeRest, Held, Sealed
  <2>5. Tracked' /\ Stopping'
    BY <1>1, <2>1, <2>2 DEF Core, Tracked, Exited, Stopping
  <2>6. Handshakes'
    BY <1>1, <2>1, <2>2, <2>3 DEF Core, Handshakes
  <2>7. Calls'
    BY <1>1, <2>1 DEF Calls, Sent, Call
  <2> QED
    BY <2>4, <2>5, <2>6, <2>7 DEF IndInv, Core
<1>4. CASE CallFails(c)
  <2>1. Core'
    BY <1>1, <1>4 DEF CallFails, Core, TypeRest, Held, Tracked, Exited, Sealed, Handshakes, Stopping
  <2>2. Calls'
    BY <1>1, <1>4 DEF CallFails, Calls, Sent
  <2> QED
    BY <2>1, <2>2 DEF IndInv
<1>5. CASE CallReturns(c)
  <2>1. Calls'
    BY <1>1, <1>5 DEF CallReturns, Calls, Sent
  <2>2. CASE Mark
    BY <1>1, <1>5, <2>1, <2>2, Marks DEF IndInv, CallReturns
  <2>3. CASE UNCHANGED <<up, told>>
    <3>1. Core'
      BY <1>1, <1>5, <2>3
         DEF CallReturns, Core, TypeRest, Held, Tracked, Exited, Sealed, Handshakes, Stopping
    <3> QED
      BY <2>1, <3>1 DEF IndInv
  <2> QED
    BY <1>5, <2>2, <2>3 DEF CallReturns
<1> QED
  BY <1>2, <1>3, <1>4, <1>5
-----------------------------------------------------------------------------
(* The hooks, the switch and the adapter's death.                           *)

LEMMA HookStopsSteps ==
  ASSUME IndInv, HookStops \/ HookStopsChild \/ HookStopsFamily
  PROVE  IndInv'
<1>1. Core /\ Calls /\ Stopping /\ Tracked /\ up \in Upstream
  BY DEF IndInv, Core, TypeRest
<1>2. CASE HookStops
  <2>1. /\ up' \in Upstream /\ up'.child = up.child /\ up'.starting = up.starting
        /\ up'.sent = up.sent /\ up'.handshaken = up.handshaken /\ up'.ready = up.ready
        /\ up'.stopping
    BY <1>1, <1>2 DEF HookStops, Upstream
  <2>2. /\ hook' = "starting"
        /\ UNCHANGED <<phase, row, group, launch, refusing, process, inits, told, exits, switches>>
    BY <1>2 DEF HookStops
  <2>3. Stopping'
    BY <2>1, <2>2 DEF Stopping
  <2> QED
    BY <1>1, <2>1, <2>2, <2>3, UpChanges, UnchangedCalls DEF IndInv
<1>3. CASE HookStopsChild
  <2>1. /\ up' \in Upstream /\ up'.child = None /\ up'.starting = None /\ ~up'.timer
        /\ ~up'.handshaken /\ ~up'.ready /\ up'.stopping
    BY <1>1, <1>3 DEF HookStopsChild, NoChild, Upstream, Stopping
  <2>2. /\ hook' = "child" /\ inits' = FailPending /\ up.starting = None
        /\ UNCHANGED <<phase, row, group, refusing, process, told, exits, switches>>
        /\ launch' = [l \in Launches |-> IF l = up.child THEN "stopping" ELSE launch[l]]
        /\ process = "up"
    BY <1>3 DEF HookStopsChild
  <2>3. /\ TypeRest' /\ Held' /\ Sealed'
    BY <1>1, <2>1, <2>2 DEF Core, TypeRest, Held, Sealed, Steps
  <2>4. Tracked' /\ Stopping'
    BY <1>1, <2>1, <2>2, ChildAssumption DEF Tracked, Exited, Going, Stopping
  <2>5. Handshakes'
    BY <1>1, <2>1, <2>2, ChildAssumption DEF Core, Handshakes, Going
  <2>6. Calls'
    BY <1>1, <2>2 DEF Calls, Sent, FailPending
  <2> QED
    BY <2>3, <2>4, <2>5, <2>6 DEF IndInv, Core
<1>4. CASE HookStopsFamily
  <2>1. Stopping'
    BY <1>1, <1>4 DEF HookStopsFamily, Stopping
  <2>2. Core'
    BY <1>1, <1>4, <2>1
       DEF HookStopsFamily, Core, TypeRest, Held, Tracked, Exited, Sealed, Handshakes
  <2> QED
    BY <1>1, <1>4, <2>2, UnchangedCalls DEF HookStopsFamily, IndInv
<1> QED
  BY <1>2, <1>3, <1>4

LEMMA FamilySteps ==
  ASSUME IndInv, FamilyStops \/ FamilyStopped
  PROVE  IndInv'
<1>1. /\ Core /\ Calls /\ Stopping /\ Tracked /\ process = "up" /\ hook = "family"
      /\ up.starting = None /\ up.child = None /\ up.stopping
  BY DEF IndInv, Core, Stopping, FamilyStops, FamilyStopped
<1>2. CASE FamilyStops
  <2>1. /\ UNCHANGED <<phase, row, group, refusing, process, up, inits, hook, told, exits, switches>>
        /\ launch' = [l \in Launches |-> IF launch[l] = "child" THEN "stopping" ELSE launch[l]]
    BY <1>2 DEF FamilyStops
  <2>2. TypeRest' /\ Held' /\ Sealed'
    BY <1>1, <2>1 DEF Core, TypeRest, Held, Sealed, Steps
  <2>3. Tracked' /\ Stopping'
    BY <1>1, <2>1, ChildAssumption DEF Tracked, Exited, Going, Stopping
  <2>4. Handshakes'
    BY <1>1, <2>1, ChildAssumption DEF Core, Handshakes, Going
  <2> QED
    BY <1>1, <2>1, <2>2, <2>3, <2>4, UnchangedCalls DEF IndInv, Core
<1>3. CASE FamilyStopped
  <2>1. /\ refusing' = FALSE /\ hook' = "done"
        /\ UNCHANGED <<phase, row, group, launch, process, up, inits, told, exits, switches>>
        /\ \A l \in Launches : launch[l] \notin {"child", "stopping"} \cup Pending
    BY <1>3 DEF FamilyStopped, Pending
  <2>2. \A l \in Launches : launch[l] \in {"none", "over"}
    BY <1>1, <1>3, <2>1 DEF FamilyStopped, Pending, Core, TypeRest, Steps
  <2>3. Stopping'
    BY <1>1, <2>1, <2>2 DEF Stopping
  <2>4. TypeRest' /\ Held' /\ Sealed'
    BY <1>1, <2>1 DEF Core, TypeRest, Held, Sealed
  <2>5. Tracked'
    BY <1>1, <2>1 DEF Tracked, Exited
  <2>6. Handshakes'
    BY <1>1, <2>1 DEF Core, Handshakes
  <2> QED
    BY <1>1, <2>1, <2>3, <2>4, <2>5, <2>6, UnchangedCalls DEF IndInv, Core
<1> QED
  BY <1>2, <1>3

LEMMA HookRestartsStep ==
  ASSUME IndInv, HookRestarts
  PROVE  IndInv'
<1> DEFINE u == [up EXCEPT !.stopping = FALSE, !.unavailable = FALSE, !.restarts = 0]
<1>1. /\ Core /\ Calls /\ up \in Upstream /\ process = "up" /\ hook = "done" /\ Start(u)
      /\ UNCHANGED <<phase, refusing, process, hook, told, exits, switches>>
      /\ Initialize(up') \/ UNCHANGED inits
  BY DEF IndInv, Core, TypeRest, HookRestarts
<1>2. /\ u \in Upstream /\ u.child = up.child /\ u.starting = up.starting /\ u.sent = up.sent
      /\ u.handshaken = up.handshaken /\ u.ready = up.ready /\ ~u.stopping
  <2>1. 0 \in 0 .. MaxRestarts
    BY ChildAssumption
  <2> QED
    BY <1>1, <2>1 DEF Upstream
<1> HIDE DEF u
<1>3. Core' /\ up' \in Upstream
  BY <1>1, <1>2, Starts
<1> QED
  BY <1>1, <1>3, Initializes, UnchangedCalls DEF IndInv

LEMMA SwitchSteps ==
  ASSUME IndInv, Freeze \/ Cancel \/ Seal \/ Reopen \/ Die
  PROVE  IndInv'
<1>1. Core /\ Calls /\ MaxSwitches \in Nat
  BY ChildAssumption DEF IndInv
<1>2. CASE Freeze \/ Cancel \/ Seal \/ Reopen
  <2>1. /\ phase' \in {"open", "draining", "stopped"} /\ switches' \in 0 .. MaxSwitches
        /\ phase' = "stopped" => \A l \in Launches : row[l] = "none"
        /\ UNCHANGED <<row, group, launch, refusing, process, up, inits, hook, told, exits>>
    BY <1>1, <1>2 DEF Freeze, Cancel, Seal, Reopen, SwitchStep, Core, TypeRest
  <2>2. Core'
    BY <1>1, <2>1 DEF Core, TypeRest, Held, Tracked, Exited, Sealed, Handshakes, Stopping
  <2> QED
    BY <1>1, <2>1, <2>2, UnchangedCalls DEF IndInv
<1>3. CASE Die
  <2>1. Core'
    BY <1>1, <1>3 DEF Die, Core, TypeRest, Held, Tracked, Sealed, Handshakes, Stopping
  <2> QED
    BY <1>1, <1>3, <2>1, UnchangedCalls DEF IndInv, Die
<1> QED
  BY <1>2, <1>3

LEMMA RetireStep ==
  ASSUME IndInv, NEW l \in Launches, RetireRow(l)
  PROVE  IndInv'
<1>1. /\ Core /\ Calls /\ process = "gone"
      /\ UNCHANGED <<phase, switches, launch, refusing, process, up, inits, hook, told, exits>>
      /\ row' = [row EXCEPT ![l] = "none"]
  BY DEF IndInv, RetireRow, SwitchStep
<1>2. PICK g \in Group : /\ group' = [group EXCEPT ![l] = g]
                         /\ ~g.native /\ ~g.run /\ g.sup # "running"
  <2>1. CASE row[l] = "reserved" /\ UNCHANGED group
    BY <1>1, <2>1 DEF Core, TypeRest, Held
  <2>2. CASE group' = [group EXCEPT ![l] = Dead]
    <3>1. Dead \in Group /\ ~Dead.native /\ ~Dead.run /\ Dead.sup = "dead"
      BY DEF Dead, NoGroup, Group
    <3> QED
      BY <2>2, <3>1
  <2> QED
    BY <2>1, <2>2 DEF RetireRow
<1>3. TypeRest' /\ Held' /\ Sealed'
  BY <1>1, <1>2 DEF Core, TypeRest, Held, Sealed
<1>4. Tracked' /\ Handshakes' /\ Stopping'
  BY <1>1 DEF Core, Tracked, Handshakes, Stopping
<1> QED
  BY <1>1, <1>3, <1>4, UnchangedCalls DEF IndInv, Core

-----------------------------------------------------------------------------
LEMMA InitHolds == Init => IndInv
<1> SUFFICES ASSUME Init PROVE IndInv
  OBVIOUS
<1>1. NoGroup \in Group /\ ~NoGroup.native /\ ~NoGroup.run /\ NoGroup.sup = "none"
  BY DEF NoGroup, Group
<1>2. up \in Upstream
  BY ChildAssumption DEF Init, Upstream
<1>3. TypeRest
  <2>1. /\ row \in [Launches -> {"none", "reserved", "native"}]
        /\ group \in [Launches -> Group] /\ launch \in [Launches -> Steps]
        /\ told \in [Launches -> [answered : BOOLEAN, initialized : 0 .. 2]]
    BY <1>1 DEF Init, Steps
  <2>2. phase = "open" /\ refusing = FALSE /\ process = "up" /\ hook = "none"
    BY DEF Init
  <2>3. exits \in 0 .. MaxExits /\ switches \in 0 .. MaxSwitches
    BY ChildAssumption DEF Init
  <2> QED
    BY <1>2, <2>1, <2>2, <2>3 DEF TypeRest
<1>4. Held /\ Sealed /\ Handshakes /\ Calls /\ Stopping
  BY <1>1, ChildAssumption DEF Init, Held, Sealed, Handshakes, Calls, Sent, Stopping
<1>5. Tracked
  BY ChildAssumption DEF Init, Tracked, Going
<1> QED
  BY <1>3, <1>4, <1>5 DEF IndInv, Core

LEMMA NextKeeps == IndInv /\ [Next]_vars => IndInv'
<1> SUFFICES ASSUME IndInv, [Next]_vars PROVE IndInv'
  OBVIOUS
<1>1. CASE UNCHANGED vars
  BY <1>1 DEF vars, IndInv, Core, TypeRest, Held, Tracked, Exited, Sealed, Handshakes, Stopping,
              Calls, Sent
<1>2. CASE Next
  BY <1>2, GroupSteps, LaunchSteps, ExitSeenStep, RetireStep, TimerStep, AppSteps, CallSteps,
     HookStopsSteps, FamilySteps, HookRestartsStep, SwitchSteps DEF Next, HookStep
<1> QED
  BY <1>1, <1>2

LEMMA Invariance == Spec => []IndInv
BY InitHolds, NextKeeps, PTL DEF Spec

\* Every reachable state is well typed: the restarts scheduled since the last
\* restart of the account never pass maxRestarts.
THEOREM TypeCorrect == Spec => []TypeOK
<1>1. IndInv => TypeOK
  BY DEF IndInv, Core, TypeRest, Calls, TypeOK
<1> QED
  BY <1>1, Invariance, PTL

\* A native process has its row, and none runs under a sealed account, wherever
\* the launcher dies.
THEOREM NativeIsAlwaysHeld == Spec => []NativeIsHeld
<1>1. IndInv => NativeIsHeld
  BY DEF IndInv, Core, TypeRest, Held, Sealed, NativeIsHeld
<1> QED
  BY <1>1, Invariance, PTL

\* A stop that has answered leaves no launch, child, process, row or timer.
THEOREM StopsLeaveNothing == Spec => []StopLeavesNothing
<1>1. IndInv => StopLeavesNothing
  BY DEF IndInv, Core, Stopping, Tracked, Exited, NoGroup, StopLeavesNothing
<1> QED
  BY <1>1, Invariance, PTL

\* A child is told `initialized` once, and after its own answer.
THEOREM HandshakesComeFirst == Spec => []HandshakeFirst
<1>1. IndInv => HandshakeFirst
  BY DEF IndInv, Core, TypeRest, Upstream, Handshakes, HandshakeFirst
<1> QED
  BY <1>1, Invariance, PTL
=============================================================================
