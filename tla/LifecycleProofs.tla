---------------------------- MODULE LifecycleProofs ----------------------------
(***************************************************************************)
(* The safety of Lifecycle, for any devices and commands and any number of *)
(* signals.                                                                *)
(***************************************************************************)
EXTENDS Lifecycle, FiniteSetTheorems, TLAPS

Statuses == {"absent", "created", "running", "waiting", "failing",
             "cancelling"} \cup Ended

\* A shutdown has gathered nothing before it has begun.
GathersLater ==
  \A i \in ShutdownIds :
    status[Shutdown(i)] \in {"absent", "created"} => gathered[i] = {}

\* A shutdown that nobody has cancelled waits for every task that lives but
\* those shutdowns that have not begun and what a run() of MQTTClient that has
\* survived a shutdown has left behind,
InHand(i) ==
  Live \ {Shutdown(i)}
    \subseteq gathered[i] \cup Strays \cup {t \in Shutdowns : status[t] = "created"}

\* and no task that could start another is going to run again, but that run().
NoneStarts ==
  /\ status[Handler] = "created" => Handler \in doomed
  /\ \A t \in {Bus, Manager} : status[t] = "running" => t \in doomed
  /\ status[Mqtt] = "running" => Mqtt \in doomed \/ survived

Sweeping(i) == status[Shutdown(i)] = "waiting" /\ Shutdown(i) \notin doomed

SweepsUp == \A i \in ShutdownIds : Sweeping(i) => InHand(i) /\ NoneStarts

\* Only a shutdown cancels a client, and each does so once.
CancelledBy(d) == {i \in ShutdownIds : Client(d) \in gathered[i]}

CancelledByShutdown ==
  \A d \in Devices :
    /\ Client(d) \in doomed \/ status[Client(d)] = "cancelling"
         => CancelledBy(d) # {}
    /\ Client(d) \in doomed /\ status[Client(d)] = "cancelling"
         => \E i, j \in CancelledBy(d) : i # j

Sweep == GathersLater /\ SweepsUp /\ CancelledByShutdown

LifeInv == LifecycleTypeOK /\ Sweep /\ NothingPending
-------------------------------------------------------------------------------
(* Tasks and their kinds.                                                  *)

\* A task is told from another by its kind and by what it works for.
LEMMA Kinds ==
  /\ Bus[1] = "bus" /\ Mqtt[1] = "mqtt" /\ Handler[1] = "handler"
  /\ Manager[1] = "manager"
  /\ \A t \in Pollers      : t[1] = "poll" /\ \E d \in Devices : t = Poll(d)
  /\ \A t \in Clients      : t[1] = "client"
  /\ \A t \in CommandTasks : t[1] = "command"
  /\ \A t \in Writers      : t[1] = "writer"
  /\ \A t \in Shutdowns    : t[1] = "shutdown"
  /\ \A d : Client(d)[1] = "client" /\ Client(d)[2] = d
  /\ \A c : Command(c)[1] = "command" /\ Command(c)[2] = c
  /\ \A n : Writer(n)[1] = "writer" /\ Writer(n)[2] = n
  /\ \A i : Shutdown(i)[1] = "shutdown" /\ Shutdown(i)[2] = i
  BY DEF Bus, Mqtt, Handler, Manager, Pollers, Clients, CommandTasks,
         Writers, Shutdowns, Poll, Client, Command, Writer, Shutdown

\* Who the tasks are.
LEMMA Members ==
  /\ {Bus, Mqtt, Handler, Manager} \subseteq Tasks
  /\ Pollers \cup Clients \cup CommandTasks \cup Writers \cup Shutdowns
       \subseteq Tasks
  /\ \A d \in Devices     : Client(d) \in Clients
  /\ \A c \in Commands    : Command(c) \in CommandTasks
  /\ \A n \in 1 .. MaxBroken : Writer(n) \in Writers
  /\ \A i \in ShutdownIds : Shutdown(i) \in Shutdowns
  /\ \A t \in Shutdowns : \E i \in ShutdownIds : t = Shutdown(i)
  BY DEF Tasks, Clients, CommandTasks, Writers, Shutdowns

\* The tasks that stand alone, and the sets of the others, are disjoint.
LEMMA Apart ==
  /\ Bus # Mqtt /\ Bus # Handler /\ Bus # Manager
  /\ Mqtt # Handler /\ Mqtt # Manager /\ Handler # Manager
  /\ \A t \in {Bus, Mqtt, Handler, Manager} :
       t \notin Pollers \cup Clients \cup CommandTasks \cup Writers \cup Shutdowns
  /\ \A t \in Pollers : t \notin Clients \cup CommandTasks \cup Writers \cup Shutdowns
  /\ \A t \in Clients : t \notin CommandTasks \cup Writers \cup Shutdowns
  /\ \A t \in CommandTasks : t \notin Writers \cup Shutdowns
  /\ \A t \in Writers : t \notin Shutdowns
  /\ \A i, j : Shutdown(i) = Shutdown(j) => i = j
  /\ \A d, e : Client(d) = Client(e) => d = e
<1>1. /\ Bus # Mqtt /\ Bus # Handler /\ Bus # Manager
      /\ Mqtt # Handler /\ Mqtt # Manager /\ Handler # Manager
  BY Kinds
<1>2. \A t \in {Bus, Mqtt, Handler, Manager} :
        t \notin Pollers \cup Clients \cup CommandTasks \cup Writers \cup Shutdowns
  BY Kinds
<1>3. /\ \A t \in Pollers : t \notin Clients \cup CommandTasks \cup Writers \cup Shutdowns
      /\ \A t \in Clients : t \notin CommandTasks \cup Writers \cup Shutdowns
      /\ \A t \in CommandTasks : t \notin Writers \cup Shutdowns
      /\ \A t \in Writers : t \notin Shutdowns
  BY Kinds
<1>4. /\ \A i, j : Shutdown(i) = Shutdown(j) => i = j
      /\ \A d, e : Client(d) = Client(e) => d = e
  BY Kinds
<1>. QED
  BY <1>1, <1>2, <1>3, <1>4

-------------------------------------------------------------------------------
(* Steps of one task.                                                      *)

\* What becomes of the tasks that live when one task moves.
LEMMA LiveAfter ==
  ASSUME LifecycleTypeOK, NEW t \in Tasks, NEW u \in Statuses, Becomes(t, u)
  PROVE  /\ status' \in [Tasks -> Statuses]
         /\ status'[t] = u
         /\ \A x \in Tasks : x # t => status'[x] = status[x]
         /\ u \in Ended \cup {"absent"} => Live' = Live \ {t}
         /\ u \notin Ended \cup {"absent"} => Live' = Live \cup {t}
<1>1. status \in [Tasks -> Statuses]
  BY DEF LifecycleTypeOK, Statuses
<1>2. /\ status' \in [Tasks -> Statuses]
      /\ status'[t] = u
      /\ \A x \in Tasks : x # t => status'[x] = status[x]
  BY <1>1 DEF Becomes
<1>. QED
  BY <1>2 DEF Live

\* A task that lives, and is no shutdown, goes on or ends.  It does not begin
\* again, and a client disconnects for no cancellation but one that it had.
Moves(t, u) ==
  /\ t \in Live \ Shutdowns /\ u \in Statuses \ {"absent", "created", "running"}
  /\ Becomes(t, u)
  /\ t \in Clients /\ u = "cancelling" => t \in doomed
  /\ doomed' = doomed \ {t}
  /\ UNCHANGED <<gathered, survived>>

\* Such a step leaves the shutdowns in charge of what they were in charge of.
LEMMA MoveKeepsSweep ==
  ASSUME LifecycleTypeOK, Sweep, NEW t, NEW u, Moves(t, u)
  PROVE  Sweep' /\ doomed' \subseteq Live' /\ status' \in [Tasks -> Statuses]
<1>1. t \in Tasks /\ t \in Live /\ t \notin Shutdowns /\ u \in Statuses
  BY DEF Moves, Live
<1>2. /\ status' \in [Tasks -> Statuses]
      /\ status'[t] = u
      /\ \A x \in Tasks : x # t => status'[x] = status[x]
      /\ Live' \subseteq Live
      /\ \A x \in Live : x # t => x \in Live'
  BY <1>1, LiveAfter DEF Moves
<1>3. doomed' = doomed \ {t} /\ gathered' = gathered /\ survived' = survived
  BY DEF Moves
<1>4. \A i \in ShutdownIds :
        status'[Shutdown(i)] = status[Shutdown(i)] /\ Shutdown(i) # t
  BY <1>1, <1>2, Members
<1>5. GathersLater'
  BY <1>3, <1>4 DEF Sweep, GathersLater
<1>6. SweepsUp'
  <2>. SUFFICES ASSUME NEW i \in ShutdownIds, Sweeping(i)'
                PROVE  InHand(i)' /\ NoneStarts'
    BY DEF SweepsUp
  <2>1. InHand(i) /\ NoneStarts
    BY <1>3, <1>4 DEF Sweep, SweepsUp, Sweeping
  <2>2. InHand(i)'
    BY <1>1, <1>2, <1>3, <2>1, Members DEF InHand, Strays
  <2>3. NoneStarts'
    BY <1>1, <1>2, <1>3, <2>1, Members DEF NoneStarts, Moves
  <2>. QED
    BY <2>2, <2>3
<1>7. CancelledByShutdown'
  <2>. SUFFICES ASSUME NEW d \in Devices
                PROVE  /\ Client(d) \in doomed' \/ status'[Client(d)] = "cancelling"
                            => CancelledBy(d)' # {}
                       /\ Client(d) \in doomed' /\ status'[Client(d)] = "cancelling"
                            => \E i, j \in CancelledBy(d)' : i # j
    BY DEF CancelledByShutdown
  <2>1. CancelledBy(d)' = CancelledBy(d)
    BY <1>3 DEF CancelledBy
  <2>2. Client(d) \in Clients /\ Client(d) \in Tasks
    BY Members
  <2>3. /\ Client(d) \in doomed \/ status[Client(d)] = "cancelling"
             => CancelledBy(d) # {}
        /\ Client(d) \in doomed /\ status[Client(d)] = "cancelling"
             => \E i, j \in CancelledBy(d) : i # j
    BY DEF Sweep, CancelledByShutdown
  <2>4. CASE Client(d) = t
    BY <1>2, <1>3, <2>1, <2>2, <2>3, <2>4 DEF Moves
  <2>5. CASE Client(d) # t
    BY <1>2, <1>3, <2>1, <2>2, <2>3, <2>5
  <2>. QED
    BY <2>4, <2>5
<1>8. doomed' \subseteq Live'
  BY <1>2, <1>3 DEF LifecycleTypeOK
<1>. QED
  BY <1>2, <1>5, <1>6, <1>7, <1>8 DEF Sweep
\* The step of one task that changes nothing else keeps the invariant.
LEMMA MoveKeepsInv ==
  ASSUME LifeInv, ~stopped, NEW t, NEW u, Moves(t, u), RestOfLife
  PROVE  LifeInv'
<1>1. Sweep' /\ doomed' \subseteq Live' /\ status' \in [Tasks -> Statuses]
  BY MoveKeepsSweep DEF LifeInv
<1>2. LifecycleTypeOK'
  BY <1>1 DEF LifeInv, LifecycleTypeOK, RestOfLife, Moves, Statuses
<1>3. NothingPending'
  BY DEF NothingPending, RestOfLife
<1>. QED
  BY <1>1, <1>2, <1>3 DEF LifeInv

\* Step(t, s, u) is such a step.
LEMMA StepMoves ==
  ASSUME LifecycleTypeOK, NEW t \in Tasks \ Shutdowns,
         NEW s \in {"running", "waiting"},
         NEW u \in Statuses \ {"absent", "created", "running", "cancelling"},
         Step(t, s, u), UNCHANGED <<gathered, survived>>
  PROVE  Moves(t, u)
  BY DEF Step, Moves, Live, Ended

-------------------------------------------------------------------------------
(* Steps that create tasks.                                                *)

\* A new shutdown has gathered nothing yet and is waited for by nobody.
LEMMA NewShutdownKeeps ==
  ASSUME LifeInv, ~stopped, NewShutdown,
         UNCHANGED <<doomed, disabled, awaited, gathered, survived, stopped>>,
         signals' \in 0 .. MaxSignals, reported' \subseteq {Mqtt, Handler}
  PROVE  LifeInv'
<1>1. PICK k \in ShutdownIds :
        status[Shutdown(k)] = "absent" /\ Becomes(Shutdown(k), "created")
  <2>1. PICK k \in ShutdownIds :
          /\ \A j \in ShutdownIds : status[Shutdown(j)] = "absent" <=> j >= k
          /\ Becomes(Shutdown(k), "created")
    BY DEF NewShutdown
  <2>2. k >= k
    BY LifecycleBounds DEF ShutdownIds
  <2>. QED
    BY <2>1, <2>2
<1>2. Shutdown(k) \in Tasks /\ Shutdown(k) \in Shutdowns /\ "created" \in Statuses
  BY Members DEF Statuses
<1>3. /\ status' \in [Tasks -> Statuses]
      /\ status'[Shutdown(k)] = "created"
      /\ \A x \in Tasks : x # Shutdown(k) => status'[x] = status[x]
      /\ Live' = Live \cup {Shutdown(k)}
  BY <1>1, <1>2, LiveAfter DEF LifeInv, Ended
<1>4. LifecycleTypeOK'
  BY <1>3 DEF LifeInv, LifecycleTypeOK, Statuses
<1>5. GathersLater'
  <2>. SUFFICES ASSUME NEW i \in ShutdownIds,
                       status'[Shutdown(i)] \in {"absent", "created"}
                PROVE  gathered'[i] = {}
    BY DEF GathersLater
  <2>1. status[Shutdown(i)] \in {"absent", "created"}
    BY <1>1, <1>3, Members
  <2>. QED
    BY <2>1 DEF LifeInv, Sweep, GathersLater
<1>6. SweepsUp'
  <2>. SUFFICES ASSUME NEW i \in ShutdownIds, Sweeping(i)'
                PROVE  InHand(i)' /\ NoneStarts'
    BY DEF SweepsUp
  <2>1. i # k /\ status[Shutdown(i)] = status'[Shutdown(i)]
    BY <1>3, Members, Apart DEF Sweeping
  <2>2. InHand(i) /\ NoneStarts
    BY <2>1 DEF LifeInv, Sweep, SweepsUp, Sweeping
  <2>3. InHand(i)'
    BY <1>1, <1>2, <1>3, <2>2, Members DEF InHand, Strays
  <2>4. NoneStarts'
    BY <1>2, <1>3, <2>2, Members, Apart DEF NoneStarts
  <2>. QED
    BY <2>3, <2>4
<1>7. CancelledByShutdown'
  <2>1. \A d \in Devices : status'[Client(d)] = status[Client(d)]
    BY <1>2, <1>3, Members, Apart
  <2>2. \A d \in Devices : CancelledBy(d)' = CancelledBy(d)
    BY DEF CancelledBy
  <2>. QED
    BY <2>1, <2>2 DEF LifeInv, Sweep, CancelledByShutdown
<1>8. NothingPending'
  BY DEF NothingPending
<1>. QED
  BY <1>4, <1>5, <1>6, <1>7, <1>8 DEF LifeInv, Sweep

\* Tasks other than shutdowns begin to run: only while no shutdown sweeps up.
LEMMA StartKeeps ==
  ASSUME LifeInv, ~stopped, ~NoneStarts,
         status' \in [Tasks -> Statuses],
         Live \subseteq Live',
         \A t \in Shutdowns : status'[t] = status[t],
         \A t \in Clients : status'[t] \in {status[t], "running"},
         UNCHANGED doomed, RestOfLife
  PROVE  LifeInv'
<1>1. UNCHANGED <<doomed, gathered, survived, stopped>>
  BY DEF RestOfLife
<1>2. \A i \in ShutdownIds : status'[Shutdown(i)] = status[Shutdown(i)]
  BY Members
<1>3. LifecycleTypeOK'
  BY <1>1 DEF LifeInv, LifecycleTypeOK, RestOfLife, Statuses
<1>4. GathersLater'
  BY <1>1, <1>2 DEF LifeInv, Sweep, GathersLater
<1>5. SweepsUp'
  BY <1>1, <1>2 DEF LifeInv, Sweep, SweepsUp, Sweeping
<1>6. CancelledByShutdown'
  <2>1. \A d \in Devices : CancelledBy(d)' = CancelledBy(d)
    BY <1>1 DEF CancelledBy
  <2>2. \A d \in Devices : status'[Client(d)] \in {status[Client(d)], "running"}
    BY Members
  <2>. QED
    BY <1>1, <2>1, <2>2 DEF LifeInv, Sweep, CancelledByShutdown
<1>7. NothingPending'
  BY <1>1 DEF NothingPending
<1>. QED
  BY <1>3, <1>4, <1>5, <1>6, <1>7 DEF LifeInv, Sweep

LEMMA HandlerStartsKeeps ==
  ASSUME LifeInv, ~stopped, HandlerStarts
  PROVE  LifeInv'
<1>1. ~NoneStarts
  BY DEF HandlerStarts, NoneStarts
<1>2. /\ status \in [Tasks -> Statuses]
      /\ \A t \in Tasks : status'[t] \in {status[t], "running", "waiting"}
      /\ status' \in [Tasks -> Statuses]
  BY DEF LifeInv, LifecycleTypeOK, Statuses, HandlerStarts
<1>3. Live \subseteq Live'
  BY <1>2 DEF Live, Ended
<1>4. \A t \in Shutdowns \cup Clients : status'[t] = status[t]
  BY Members, Apart DEF HandlerStarts
<1>. QED
  BY <1>1, <1>2, <1>3, <1>4, StartKeeps DEF HandlerStarts

LEMMA ScanDoneKeeps ==
  ASSUME LifeInv, ~stopped, ScanDone
  PROVE  LifeInv'
<1>1. ~NoneStarts
  BY DEF ScanDone, NoneStarts
<1>2. /\ status \in [Tasks -> Statuses]
      /\ \A t \in Tasks : status'[t] \in {status[t], "running", "waiting"}
      /\ status' \in [Tasks -> Statuses]
  BY DEF LifeInv, LifecycleTypeOK, Statuses, ScanDone
<1>3. Live \subseteq Live'
  BY <1>2 DEF Live, Ended
<1>4. /\ \A t \in Shutdowns : status'[t] = status[t]
      /\ \A t \in Clients : status'[t] = "running"
  BY Members, Apart DEF ScanDone
<1>. QED
  BY <1>1, <1>2, <1>3, <1>4, StartKeeps DEF ScanDone

LEMMA CommandArrivesKeeps ==
  ASSUME LifeInv, ~stopped, NEW c \in Commands, CommandArrives(c)
  PROVE  LifeInv'
<1>1. ~NoneStarts
  BY DEF CommandArrives, NoneStarts
<1>2. Command(c) \in Tasks /\ Command(c) \in CommandTasks /\ "running" \in Statuses
  BY Members DEF Statuses
<1>3. /\ status' \in [Tasks -> Statuses]
      /\ \A x \in Tasks : x # Command(c) => status'[x] = status[x]
      /\ Live' = Live \cup {Command(c)}
  BY <1>2, LiveAfter DEF LifeInv, CommandArrives, Step, Ended
<1>4. \A t \in Shutdowns \cup Clients : status'[t] = status[t]
  BY <1>2, <1>3, Members, Apart
<1>. QED
  BY <1>1, <1>3, <1>4, StartKeeps DEF CommandArrives, Step

\* A broken connection leaves a task behind: while a shutdown sweeps up, only
\* that of a run() which has survived it.
LEMMA ConnectionBreaksKeeps ==
  ASSUME LifeInv, ~stopped, NEW n \in 1 .. MaxBroken, ConnectionBreaks(n)
  PROVE  LifeInv'
<1>1. Writer(n) \in Tasks /\ Writer(n) \in Writers /\ "running" \in Statuses
  BY Members DEF Statuses
<1>2. /\ status' \in [Tasks -> Statuses]
      /\ \A x \in Tasks : x # Writer(n) => status'[x] = status[x]
      /\ Live' = Live \cup {Writer(n)}
  BY <1>1, LiveAfter DEF LifeInv, ConnectionBreaks, Step, Ended
<1>3. \A t \in Shutdowns \cup Clients : status'[t] = status[t]
  BY <1>1, <1>2, Members, Apart
<1>4. CASE ~survived
  <2>1. ~NoneStarts
    BY <1>4 DEF ConnectionBreaks, NoneStarts
  <2>. QED
    BY <1>2, <1>3, <2>1, StartKeeps DEF ConnectionBreaks, Step
<1>5. CASE survived
  <2>1. UNCHANGED <<doomed, disabled, awaited, gathered, signals, reported,
                    survived, stopped>>
    BY DEF ConnectionBreaks, Step, RestOfLife
  <2>2. LifecycleTypeOK'
    BY <1>2, <2>1 DEF LifeInv, LifecycleTypeOK, Statuses
  <2>3. GathersLater'
    BY <1>3, <2>1, Members DEF LifeInv, Sweep, GathersLater
  <2>4. SweepsUp'
    <3>. SUFFICES ASSUME NEW i \in ShutdownIds, Sweeping(i)'
                  PROVE  InHand(i)' /\ NoneStarts'
      BY DEF SweepsUp
    <3>1. InHand(i) /\ NoneStarts
      BY <1>3, <2>1, Members DEF LifeInv, Sweep, SweepsUp, Sweeping
    <3>2. InHand(i)'
      BY <1>1, <1>2, <1>3, <1>5, <2>1, <3>1 DEF InHand, Strays
    <3>3. NoneStarts'
      BY <1>1, <1>2, <1>5, <2>1, <3>1, Members, Apart DEF NoneStarts
    <3>. QED
      BY <3>2, <3>3
  <2>5. CancelledByShutdown'
    BY <1>3, <2>1, Members DEF LifeInv, Sweep, CancelledByShutdown, CancelledBy
  <2>6. NothingPending'
    BY <2>1 DEF NothingPending
  <2>. QED
    BY <2>2, <2>3, <2>4, <2>5, <2>6 DEF LifeInv, Sweep
<1>. QED
  BY <1>4, <1>5
\* run() of MQTTClient goes on after a cancellation.
Survives ==
  /\ status[Mqtt] \in {"running", "cancelling"}
  /\ Becomes(Mqtt, "running")
  /\ doomed' = doomed \ {Mqtt}
  /\ survived' = TRUE
  /\ UNCHANGED <<disabled, awaited, gathered, signals, reported, stopped>>

LEMMA SurvivalKeeps ==
  ASSUME LifeInv, ~stopped, Survives
  PROVE  LifeInv'
<1>1. LifecycleTypeOK /\ Sweep
  BY DEF LifeInv
<1>2. Mqtt \in Tasks /\ "running" \in Statuses
  BY Members DEF Statuses
<1>3. /\ status' \in [Tasks -> Statuses]
      /\ status'[Mqtt] = "running"
      /\ \A x \in Tasks : x # Mqtt => status'[x] = status[x]
      /\ Live' = Live
  <2>1. Mqtt \in Live
    BY <1>2 DEF Survives, Live, Ended
  <2>. QED
    BY <1>1, <1>2, <2>1, LiveAfter DEF Survives, Ended
<1>4. /\ doomed' = doomed \ {Mqtt} /\ survived'
      /\ UNCHANGED <<disabled, awaited, gathered, signals, reported, stopped>>
  BY DEF Survives
<1>5. \A t \in Shutdowns \cup Clients : t # Mqtt /\ status'[t] = status[t]
  BY <1>3, Members, Apart
<1>6. LifecycleTypeOK'
  BY <1>1, <1>2, <1>3, <1>4 DEF LifecycleTypeOK, Statuses, Survives, Live, Ended
<1>7. GathersLater'
  BY <1>1, <1>4, <1>5, Members DEF Sweep, GathersLater
<1>8. SweepsUp'
  <2>. SUFFICES ASSUME NEW i \in ShutdownIds, Sweeping(i)'
                PROVE  InHand(i)' /\ NoneStarts'
    BY DEF SweepsUp
  <2>1. InHand(i) /\ NoneStarts
    BY <1>1, <1>4, <1>5, Members DEF Sweep, SweepsUp, Sweeping
  <2>2. InHand(i)'
    BY <1>3, <1>4, <1>5, <2>1 DEF InHand, Strays
  <2>3. NoneStarts'
    BY <1>3, <1>4, <2>1, Members, Apart DEF NoneStarts
  <2>. QED
    BY <2>2, <2>3
<1>9. CancelledByShutdown'
  BY <1>1, <1>4, <1>5, Members DEF Sweep, CancelledByShutdown, CancelledBy
<1>10. NothingPending'
  BY <1>4 DEF NothingPending
<1>. QED
  BY <1>6, <1>7, <1>8, <1>9, <1>10 DEF LifeInv, Sweep

\* A cancellation ends run(), makes it disconnect, or is swallowed.
LEMMA MqttKeeps ==
  ASSUME LifeInv, ~stopped, MqttCancelled \/ MqttDisconnected
  PROVE  LifeInv'
<1>1. Mqtt \in Live \ Shutdowns /\ Mqtt \in Tasks /\ Mqtt \notin Clients
  BY Members, Apart DEF MqttCancelled, MqttDisconnected, Live, Ended
<1>2. {"cancelled", "cancelling"} \subseteq Statuses \ {"absent", "created", "running"}
  BY DEF Statuses, Ended
<1>3. ASSUME NEW u \in {"cancelled", "cancelling"}, Becomes(Mqtt, u),
             UNCHANGED survived
      PROVE  LifeInv'
  <2>1. doomed' = doomed \ {Mqtt} /\ RestOfLife
    BY <1>3 DEF MqttCancelled, MqttDisconnected, RestOfLife
  <2>2. Moves(Mqtt, u)
    BY <1>1, <1>2, <1>3, <2>1 DEF Moves, RestOfLife
  <2>. QED
    BY <2>1, <2>2, MoveKeepsInv
<1>4. ASSUME Survives
      PROVE  LifeInv'
  BY <1>4, SurvivalKeeps
<1>5. MqttCancelled /\ UNCHANGED status => Becomes(Mqtt, "running")
  BY <1>1 DEF MqttCancelled, Becomes, LifeInv, LifecycleTypeOK
<1>. QED
  BY <1>3, <1>4, <1>5 DEF MqttCancelled, MqttDisconnected, Survives
-------------------------------------------------------------------------------
(* Steps of several tasks.                                                 *)

\* The loop runs the cancelled tasks that have nothing to clean up.
LEMMA CancelledEndKeeps ==
  ASSUME LifeInv, ~stopped, CancelledEnd
  PROVE  LifeInv'
<1>. DEFINE over ==
       {t \in doomed :
          \/ status[t] = "created"
          \/ t \in Plain /\ status[t] = "running"}
<1>1. /\ status \in [Tasks -> Statuses]
      /\ doomed \subseteq Live
      /\ Live \subseteq Tasks
  BY DEF LifeInv, LifecycleTypeOK, Statuses, Live
<1>2. /\ status' = [t \in Tasks |-> IF t \in over THEN "cancelled" ELSE status[t]]
      /\ doomed' = doomed \ over
      /\ RestOfLife
  BY DEF CancelledEnd
<1>3. UNCHANGED <<gathered, survived, stopped>>
  BY <1>2 DEF RestOfLife
<1>. HIDE DEF over
<1>4. /\ status' \in [Tasks -> Statuses]
      /\ \A t \in Tasks : status'[t] = IF t \in over THEN "cancelled" ELSE status[t]
      /\ Live' = Live \ over
  BY <1>1, <1>2 DEF Live, Statuses, Ended
<1>5. LifecycleTypeOK'
  BY <1>1, <1>2, <1>4 DEF LifeInv, LifecycleTypeOK, RestOfLife, Statuses
<1>6. GathersLater'
  BY <1>3, <1>4, Members DEF LifeInv, Sweep, GathersLater
<1>7. SweepsUp'
  <2>. SUFFICES ASSUME NEW i \in ShutdownIds, Sweeping(i)'
                PROVE  InHand(i)' /\ NoneStarts'
    BY DEF SweepsUp
  <2>1. Shutdown(i) \in Tasks /\ status[Shutdown(i)] = "waiting"
    BY <1>4, Members DEF Sweeping
  <2>2. Shutdown(i) \notin over
    BY <2>1, Kinds, Members, Apart DEF over, Plain
  <2>3. InHand(i) /\ NoneStarts
    BY <1>2, <2>1, <2>2 DEF LifeInv, Sweep, SweepsUp, Sweeping
  <2>4. InHand(i)'
    BY <1>1, <1>3, <1>4, <2>3 DEF InHand, Strays
  <2>5. NoneStarts'
    BY <1>2, <1>3, <1>4, <2>3, Members DEF NoneStarts
  <2>. QED
    BY <2>4, <2>5
<1>8. CancelledByShutdown'
  <2>1. \A d \in Devices : CancelledBy(d)' = CancelledBy(d)
    BY <1>3 DEF CancelledBy
  <2>. QED
    BY <1>2, <1>4, <2>1, Members DEF LifeInv, Sweep, CancelledByShutdown
<1>9. NothingPending'
  BY <1>3 DEF NothingPending
<1>. QED
  BY <1>5, <1>6, <1>7, <1>8, <1>9 DEF LifeInv, Sweep

\* run() of the handler dooms the command tasks that live, nothing else.
LEMMA HandlerWakesKeeps ==
  ASSUME LifeInv, ~stopped, HandlerWakes
  PROVE  LifeInv'
<1>1. PICK u \in {"failed", "cancelled", "cancelling", "failing"} :
        Becomes(Handler, u)
  BY DEF HandlerWakes, Finally, Outcome
<1>2. /\ status[Handler] = "waiting"
      /\ awaited' = LiveCommands
      /\ doomed' = (doomed \ {Handler}) \cup LiveCommands
      /\ UNCHANGED <<disabled, gathered, signals, reported, survived, stopped>>
  BY DEF HandlerWakes, Finally
<1>3. Handler \in Tasks /\ u \in Statuses
  BY Members DEF Statuses, Ended
<1>4. LifecycleTypeOK /\ Sweep
  BY DEF LifeInv
<1>5. /\ status' \in [Tasks -> Statuses]
      /\ status'[Handler] = u
      /\ \A x \in Tasks : x # Handler => status'[x] = status[x]
      /\ Live' \subseteq Live
      /\ \A x \in Live : x # Handler => x \in Live'
  BY <1>1, <1>2, <1>3, <1>4, LiveAfter DEF Live, Ended
<1>6. LiveCommands \subseteq Live /\ LiveCommands \subseteq CommandTasks
  BY DEF LiveCommands
<1>7. LifecycleTypeOK'
  <2>1. doomed' \subseteq Live'
    BY <1>2, <1>4, <1>5, <1>6, Apart DEF LifecycleTypeOK
  <2>. QED
    BY <1>2, <1>4, <1>5, <1>6, <2>1 DEF LifecycleTypeOK, Statuses
<1>8. \A i \in ShutdownIds : /\ Shutdown(i) # Handler
                             /\ Shutdown(i) \notin LiveCommands
                             /\ status'[Shutdown(i)] = status[Shutdown(i)]
  BY <1>5, <1>6, Members, Apart
<1>9. GathersLater'
  BY <1>2, <1>4, <1>8 DEF Sweep, GathersLater
<1>10. SweepsUp'
  <2>. SUFFICES ASSUME NEW i \in ShutdownIds, Sweeping(i)'
                PROVE  InHand(i)' /\ NoneStarts'
    BY DEF SweepsUp
  <2>1. InHand(i) /\ NoneStarts
    BY <1>2, <1>4, <1>8 DEF Sweep, SweepsUp, Sweeping
  <2>2. InHand(i)'
    <3>1. \A t \in Shutdowns : t # Handler /\ status'[t] = status[t]
      BY <1>8, Members
    <3>. QED
      BY <1>2, <1>5, <2>1, <3>1 DEF InHand, Strays
  <2>3. NoneStarts'
    BY <1>1, <1>2, <1>5, <2>1, Members, Apart DEF NoneStarts
  <2>. QED
    BY <2>2, <2>3
<1>11. CancelledByShutdown'
  <2>1. \A d \in Devices : CancelledBy(d)' = CancelledBy(d)
    BY <1>2 DEF CancelledBy
  <2>2. \A d \in Devices : /\ status'[Client(d)] = status[Client(d)]
                           /\ Client(d) \notin LiveCommands
    BY <1>5, <1>6, Members, Apart
  <2>. QED
    BY <1>2, <1>4, <2>1, <2>2 DEF Sweep, CancelledByShutdown
<1>12. NothingPending'
  BY <1>2 DEF NothingPending
<1>. QED
  BY <1>7, <1>9, <1>10, <1>11, <1>12 DEF LifeInv, Sweep

-------------------------------------------------------------------------------
(* Shutdowns.                                                              *)

\* A shutdown that begins dooms all that lives, the shutdowns that wait
\* among them, and takes it in hand.
LEMMA ShutdownStartsKeeps ==
  ASSUME LifeInv, ~stopped, NEW k \in ShutdownIds, ShutdownStarts(k)
  PROVE  LifeInv'
<1>1. /\ status[Shutdown(k)] = "created" /\ Shutdown(k) \notin doomed
      /\ Becomes(Shutdown(k), "waiting")
      /\ doomed' = doomed \cup Others(k)
      /\ gathered' = [gathered EXCEPT ![k] = Others(k)]
      /\ UNCHANGED <<disabled, awaited, signals, reported, survived, stopped>>
  BY DEF ShutdownStarts, Shut
<1>2. LifecycleTypeOK /\ Sweep
  BY DEF LifeInv
<1>3. Shutdown(k) \in Tasks /\ Shutdown(k) \in Shutdowns /\ "waiting" \in Statuses
  BY Members DEF Statuses
<1>4. /\ status' \in [Tasks -> Statuses]
      /\ status'[Shutdown(k)] = "waiting"
      /\ \A x \in Tasks : x # Shutdown(k) => status'[x] = status[x]
      /\ Live' = Live \cup {Shutdown(k)}
  BY <1>1, <1>2, <1>3, LiveAfter DEF Ended
<1>5. Shutdown(k) \in Live /\ Live' = Live
  BY <1>1, <1>3, <1>4 DEF Live, Ended
<1>6. Others(k) = Live \ {Shutdown(k)} /\ Live \subseteq Tasks
  BY DEF Others, Live
<1>7. /\ gathered' \in [ShutdownIds -> SUBSET Tasks]
      /\ gathered'[k] = Others(k)
      /\ \A i \in ShutdownIds : i # k => gathered'[i] = gathered[i]
  BY <1>1, <1>2, <1>6 DEF LifecycleTypeOK
<1>8. LifecycleTypeOK'
  BY <1>1, <1>2, <1>4, <1>5, <1>6, <1>7 DEF LifecycleTypeOK, Statuses
<1>9. \A i \in ShutdownIds : i # k => /\ Shutdown(i) # Shutdown(k)
                                      /\ status'[Shutdown(i)] = status[Shutdown(i)]
  BY <1>4, Members, Apart
<1>10. GathersLater'
  BY <1>2, <1>4, <1>7, <1>9 DEF Sweep, GathersLater
<1>11. SweepsUp'
  <2>. SUFFICES ASSUME NEW i \in ShutdownIds, Sweeping(i)'
                PROVE  InHand(i)' /\ NoneStarts'
    BY DEF SweepsUp
  <2>1. i = k
    <3>. SUFFICES ASSUME i # k
                  PROVE  FALSE
      OBVIOUS
    <3>1. Shutdown(i) \in Live \ {Shutdown(k)}
      BY <1>9, Members DEF Sweeping, Live, Ended
    <3>. QED
      BY <1>1, <1>6, <3>1 DEF Sweeping
  <2>2. InHand(i)'
    BY <1>5, <1>6, <1>7, <2>1 DEF InHand, Strays
  <2>3. NoneStarts'
    <3>1. \A t \in {Handler, Bus, Manager, Mqtt} :
            t \in Tasks /\ t # Shutdown(k) /\ status'[t] = status[t]
      BY <1>3, <1>4, Members, Apart
    <3>2. \A t \in {Handler, Bus, Manager, Mqtt} :
            status[t] \in {"created", "running"} => t \in Others(k)
      BY <1>6, <3>1 DEF Live, Ended
    <3>. QED
      BY <1>1, <3>1, <3>2 DEF NoneStarts
  <2>. QED
    BY <2>2, <2>3
<1>12. CancelledByShutdown'
  <2>. SUFFICES ASSUME NEW d \in Devices
                PROVE  /\ Client(d) \in doomed' \/ status'[Client(d)] = "cancelling"
                            => CancelledBy(d)' # {}
                       /\ Client(d) \in doomed' /\ status'[Client(d)] = "cancelling"
                            => \E i, j \in CancelledBy(d)' : i # j
    BY DEF CancelledByShutdown
  <2>1. /\ Client(d) \in Tasks /\ Client(d) # Shutdown(k)
        /\ status'[Client(d)] = status[Client(d)]
    BY <1>3, <1>4, Members, Apart
  <2>2. /\ Client(d) \in doomed \/ status[Client(d)] = "cancelling"
             => CancelledBy(d) # {}
        /\ Client(d) \in doomed /\ status[Client(d)] = "cancelling"
             => \E i, j \in CancelledBy(d) : i # j
    BY <1>2 DEF Sweep, CancelledByShutdown
  <2>3. k \notin CancelledBy(d)
    BY <1>1, <1>2 DEF CancelledBy, Sweep, GathersLater
  <2>4. /\ CancelledBy(d) \subseteq CancelledBy(d)'
        /\ Client(d) \in Live => k \in CancelledBy(d)'
    BY <1>6, <1>7, <2>1, <2>3 DEF CancelledBy
  <2>5. Client(d) \in doomed' \/ status[Client(d)] = "cancelling" => Client(d) \in Live
    BY <1>1, <1>2, <1>6, <2>1 DEF LifecycleTypeOK, Live, Ended
  <2>. QED
    BY <2>1, <2>2, <2>3, <2>4, <2>5
<1>13. NothingPending'
  BY <1>1 DEF NothingPending
<1>. QED
  BY <1>8, <1>10, <1>11, <1>12, <1>13 DEF LifeInv, Sweep

\* A shutdown that ends, cancelled or having seen the end of what it had in
\* hand.
LEMMA ShutdownEndsKeeps ==
  ASSUME LifeInv, ~stopped, NEW k \in ShutdownIds, ShutdownEnds(k)
  PROVE  LifeInv'
<1>1. /\ status[Shutdown(k)] = "waiting"
      /\ gathered[k] \cap Live = {}
      /\ doomed' = doomed \ {Shutdown(k)}
      /\ UNCHANGED <<disabled, awaited, gathered, signals, reported,
                     survived>>
  BY DEF ShutdownEnds
<1>2. PICK u \in {"cancelled", "returned"} :
        /\ Becomes(Shutdown(k), u)
        /\ stopped' \in BOOLEAN
        /\ stopped' => Shutdown(k) \notin doomed
  BY DEF ShutdownEnds, LifeInv, LifecycleTypeOK
<1>3. LifecycleTypeOK /\ Sweep
  BY DEF LifeInv
<1>4. Shutdown(k) \in Tasks /\ Shutdown(k) \in Shutdowns /\ u \in Statuses
  BY Members DEF Statuses, Ended
<1>5. /\ status' \in [Tasks -> Statuses]
      /\ status'[Shutdown(k)] = u
      /\ \A x \in Tasks : x # Shutdown(k) => status'[x] = status[x]
      /\ Live' = Live \ {Shutdown(k)}
  BY <1>2, <1>3, <1>4, LiveAfter DEF Ended
<1>6. LifecycleTypeOK'
  BY <1>1, <1>2, <1>3, <1>5 DEF LifecycleTypeOK, Statuses
<1>7. \A i \in ShutdownIds : i # k => /\ Shutdown(i) # Shutdown(k)
                                      /\ status'[Shutdown(i)] = status[Shutdown(i)]
  BY <1>5, Members, Apart
<1>8. GathersLater'
  BY <1>1, <1>3, <1>5, <1>7 DEF Sweep, GathersLater
<1>9. SweepsUp'
  <2>. SUFFICES ASSUME NEW i \in ShutdownIds, Sweeping(i)'
                PROVE  InHand(i)' /\ NoneStarts'
    BY DEF SweepsUp
  <2>1. i # k
    BY <1>5 DEF Sweeping
  <2>2. InHand(i) /\ NoneStarts
    BY <1>1, <1>3, <1>7, <2>1 DEF Sweep, SweepsUp, Sweeping
  <2>3. InHand(i)'
    <3>1. \A t \in Shutdowns \ {Shutdown(k)} : status'[t] = status[t]
      BY <1>5, Members
    <3>. QED
      BY <1>1, <1>5, <2>2, <3>1 DEF InHand, Strays
  <2>4. NoneStarts'
    BY <1>1, <1>4, <1>5, <2>2, Members, Apart DEF NoneStarts
  <2>. QED
    BY <2>3, <2>4
<1>10. CancelledByShutdown'
  <2>1. \A d \in Devices : CancelledBy(d)' = CancelledBy(d)
    BY <1>1 DEF CancelledBy
  <2>2. \A d \in Devices : status'[Client(d)] = status[Client(d)]
    BY <1>4, <1>5, Members, Apart
  <2>. QED
    BY <1>1, <1>3, <2>1, <2>2 DEF Sweep, CancelledByShutdown
<1>11. NothingPending'
  <2>. SUFFICES ASSUME stopped', NEW t \in Live'
                PROVE  t \in Strays' \/ (t \in Shutdowns /\ status'[t] = "created")
    BY DEF NothingPending
  <2>1. InHand(k)
    BY <1>1, <1>2, <1>3 DEF Sweep, SweepsUp, Sweeping
  <2>2. t \in Live /\ t # Shutdown(k) /\ t \in Tasks
    BY <1>5 DEF Live
  <2>3. t \in Strays \/ (t \in Shutdowns /\ status[t] = "created")
    BY <1>1, <2>1, <2>2 DEF InHand
  <2>. QED
    BY <1>1, <1>5, <2>2, <2>3 DEF Strays
<1>. QED
  BY <1>6, <1>8, <1>9, <1>10, <1>11 DEF LifeInv, Sweep
-------------------------------------------------------------------------------
(* The invariant.                                                          *)

LEMMA LifecycleStart == LifecycleInit => LifeInv
<1>. SUFFICES ASSUME LifecycleInit
              PROVE  LifeInv
  OBVIOUS
<1>1. /\ status = [t \in Tasks |-> IF t \in {Bus, Mqtt} THEN "running"
                                 ELSE IF t = Handler   THEN "created"
                                                       ELSE "absent"]
      /\ doomed = {} /\ disabled = {}
      /\ awaited = {} /\ gathered = [i \in ShutdownIds |-> {}]
      /\ signals = 0 /\ reported = {} /\ survived = FALSE /\ stopped = FALSE
  BY DEF LifecycleInit
<1>2. LifecycleTypeOK
  <2>1. status \in [Tasks -> Statuses]
    BY <1>1 DEF Statuses
  <2>2. gathered \in [ShutdownIds -> SUBSET Tasks]
    BY <1>1
  <2>3. signals \in 0 .. MaxSignals
    BY <1>1, LifecycleBounds
  <2>. QED
    BY <1>1, <2>1, <2>2, <2>3 DEF LifecycleTypeOK, Statuses
<1>3. GathersLater
  BY <1>1 DEF GathersLater
<1>4. \A t \in Shutdowns \cup Clients : status[t] = "absent"
  BY <1>1, Members, Apart
<1>5. SweepsUp
  BY <1>4, Members DEF SweepsUp, Sweeping
<1>6. CancelledByShutdown
  BY <1>1, <1>4, Members DEF CancelledByShutdown
<1>. QED
  BY <1>1, <1>2, <1>3, <1>5, <1>6 DEF LifeInv, Sweep, NothingPending

\* The steps of one task that neither begins nor is a shutdown.
OneTaskMoves ==
  \/ MqttFails \/ HandlerEnds \/ ScanFails \/ ManagerWakes
  \/ \E t \in Pollers : PollFails(t) \/ PollReturns(t)
  \/ \E c \in Commands : CommandReturns(c)
  \/ \E n \in 1 .. MaxBroken : WriterEnds(n)
  \/ \E d \in Devices : ClientFails(d) \/ ClientCancelled(d) \/ Disconnected(d)

LEMMA OneTaskKeeps ==
  ASSUME LifeInv, ~stopped, OneTaskMoves
  PROVE  LifeInv'
<1>. USE DEF LifeInv
<1>1. LifecycleTypeOK
  OBVIOUS
<1>2. {Bus, Mqtt, Handler, Manager} \subseteq Tasks \ Shutdowns
  BY Members, Apart
<1>3. Pollers \cup Clients \cup CommandTasks \cup Writers \subseteq Tasks \ Shutdowns
  BY Members, Apart
<1>4. {"failed", "returned", "cancelled", "failing"}
        \subseteq Statuses \ {"absent", "created", "running", "cancelling"}
  BY DEF Statuses, Ended
<1>5. ASSUME MqttFails
      PROVE  LifeInv'
  <2>1. Moves(Mqtt, "failed")
    BY <1>1, <1>2, <1>4, <1>5, StepMoves DEF MqttFails, RestOfLife
  <2>. QED
    BY <1>5, <2>1, MoveKeepsInv DEF MqttFails
<1>6. ASSUME HandlerEnds
      PROVE  LifeInv'
  <2>1. Handler \in Live \ Shutdowns /\ Handler \notin Clients
    BY <1>2, <1>6, Apart DEF HandlerEnds, Live, Ended
  <2>2. PICK u \in {"cancelled", "failed"} : Becomes(Handler, u)
    BY <1>6 DEF HandlerEnds, Outcome
  <2>3. Moves(Handler, u)
    BY <1>4, <1>6, <2>1, <2>2 DEF Moves, HandlerEnds, RestOfLife
  <2>. QED
    BY <1>6, <2>3, MoveKeepsInv DEF HandlerEnds
<1>7. ASSUME ScanFails
      PROVE  LifeInv'
  <2>1. Moves(Manager, "failed")
    BY <1>1, <1>2, <1>4, <1>7, StepMoves DEF ScanFails, RestOfLife
  <2>. QED
    BY <1>7, <2>1, MoveKeepsInv DEF ScanFails
<1>8. ASSUME ManagerWakes
      PROVE  LifeInv'
  <2>1. Manager \in Live \ Shutdowns /\ Manager \notin Clients
    BY <1>2, <1>8, Apart DEF ManagerWakes, Live, Ended
  <2>2. PICK u \in {"cancelled", "failed"} : Becomes(Manager, u)
    BY <1>8 DEF ManagerWakes, Outcome
  <2>3. Moves(Manager, u)
    BY <1>4, <1>8, <2>1, <2>2 DEF Moves, ManagerWakes, RestOfLife
  <2>. QED
    BY <1>8, <2>3, MoveKeepsInv DEF ManagerWakes
<1>9. ASSUME NEW t \in Pollers, PollFails(t)
      PROVE  LifeInv'
  <2>1. Moves(t, "failed")
    BY <1>1, <1>3, <1>4, <1>9, StepMoves DEF PollFails, RestOfLife
  <2>. QED
    BY <1>9, <2>1, MoveKeepsInv DEF PollFails
<1>10. ASSUME NEW t \in Pollers, PollReturns(t)
       PROVE  LifeInv'
  <2>1. Moves(t, "returned")
    BY <1>1, <1>3, <1>4, <1>10, StepMoves DEF PollReturns
  <2>2. Sweep' /\ doomed' \subseteq Live' /\ status' \in [Tasks -> Statuses]
    BY <2>1, MoveKeepsSweep
  <2>3. disabled' \subseteq Unusable
    BY <1>10 DEF PollReturns, LifecycleTypeOK
  <2>4. UNCHANGED <<awaited, gathered, signals, reported, survived, stopped>>
    BY <1>10 DEF PollReturns
  <2>5. LifecycleTypeOK'
    BY <1>1, <2>2, <2>3, <2>4 DEF LifecycleTypeOK, Statuses
  <2>. QED
    BY <2>2, <2>4, <2>5 DEF NothingPending
<1>11. ASSUME NEW c \in Commands, CommandReturns(c)
       PROVE  LifeInv'
  <2>1. Command(c) \in Tasks \ Shutdowns
    BY <1>3, Members
  <2>2. Moves(Command(c), "returned")
    BY <1>1, <1>4, <1>11, <2>1, StepMoves DEF CommandReturns, RestOfLife
  <2>. QED
    BY <1>11, <2>2, MoveKeepsInv DEF CommandReturns
<1>12. ASSUME NEW d \in Devices, ClientFails(d)
       PROVE  LifeInv'
  <2>1. Client(d) \in Tasks \ Shutdowns
    BY <1>3, Members
  <2>2. Moves(Client(d), "failing")
    BY <1>1, <1>4, <1>12, <2>1, StepMoves DEF ClientFails, RestOfLife
  <2>. QED
    BY <1>12, <2>2, MoveKeepsInv DEF ClientFails
<1>13. ASSUME NEW d \in Devices, ClientCancelled(d)
       PROVE  LifeInv'
  <2>1. Client(d) \in Live \ Shutdowns
    BY <1>3, <1>13, Members DEF ClientCancelled, Live, Ended
  <2>2. Moves(Client(d), "cancelling")
    BY <1>13, <2>1 DEF Moves, ClientCancelled, RestOfLife, Statuses
  <2>. QED
    BY <1>13, <2>2, MoveKeepsInv DEF ClientCancelled
<1>14. ASSUME NEW d \in Devices, Disconnected(d)
       PROVE  LifeInv'
  <2>1. Client(d) \in Live \ Shutdowns
    BY <1>3, <1>14, Members DEF Disconnected, CleaningUp, Live, Ended
  <2>2. PICK u \in {"cancelled", "failed"} : Becomes(Client(d), u)
    BY <1>14 DEF Disconnected
  <2>3. Moves(Client(d), u)
    BY <1>4, <1>14, <2>1, <2>2 DEF Moves, Disconnected, RestOfLife
  <2>. QED
    BY <1>14, <2>3, MoveKeepsInv DEF Disconnected
<1>15. ASSUME NEW n \in 1 .. MaxBroken, WriterEnds(n)
       PROVE  LifeInv'
  <2>1. Writer(n) \in Tasks \ Shutdowns
    BY <1>3, Members
  <2>2. Moves(Writer(n), "returned")
    BY <1>1, <1>4, <1>15, <2>1, StepMoves DEF WriterEnds, RestOfLife
  <2>. QED
    BY <1>15, <2>2, MoveKeepsInv DEF WriterEnds
<1>. QED
  BY <1>5, <1>6, <1>7, <1>8, <1>9, <1>10, <1>11, <1>12, <1>13, <1>14, <1>15
  DEF OneTaskMoves

LEMMA LifecycleStep == LifeInv /\ [LifecycleNext]_lifeVars => LifeInv'
<1>. SUFFICES ASSUME LifeInv, [LifecycleNext]_lifeVars
              PROVE  LifeInv'
  OBVIOUS
<1>1. ASSUME ~stopped, CancelledEnd
      PROVE  LifeInv'
  BY <1>1, CancelledEndKeeps
<1>2. ASSUME ~stopped, HandlerStarts \/ HandlerWakes \/ ScanDone
      PROVE  LifeInv'
  BY <1>2, HandlerStartsKeeps, HandlerWakesKeeps, ScanDoneKeeps
<1>3. ASSUME ~stopped, OneTaskMoves
      PROVE  LifeInv'
  BY <1>3, OneTaskKeeps
<1>4. ASSUME ~stopped, NEW c \in Commands, CommandArrives(c)
      PROVE  LifeInv'
  BY <1>4, CommandArrivesKeeps
<1>5. ASSUME ~stopped, Signal
      PROVE  LifeInv'
  <2>1. signals' \in 0 .. MaxSignals
    BY <1>5, LifecycleBounds DEF Signal, LifeInv, LifecycleTypeOK
  <2>2. reported' \subseteq {Mqtt, Handler}
    BY <1>5 DEF Signal, LifeInv, LifecycleTypeOK
  <2>. QED
    BY <1>5, <2>1, <2>2, NewShutdownKeeps DEF Signal
<1>6. ASSUME ~stopped, NEW t \in {Mqtt, Handler}, HandleException(t)
      PROVE  LifeInv'
  <2>1. signals' \in 0 .. MaxSignals /\ reported' \subseteq {Mqtt, Handler}
    BY <1>6 DEF HandleException, LifeInv, LifecycleTypeOK
  <2>. QED
    BY <1>6, <2>1, NewShutdownKeeps DEF HandleException
<1>7. ASSUME ~stopped, NEW i \in ShutdownIds, ShutdownStarts(i) \/ ShutdownEnds(i)
      PROVE  LifeInv'
  BY <1>7, ShutdownStartsKeeps, ShutdownEndsKeeps
<1>8. CASE UNCHANGED lifeVars
  BY <1>8 DEF lifeVars, LifeInv, LifecycleTypeOK, Live, Sweep, GathersLater,
     SweepsUp, Sweeping, InHand, NoneStarts, CancelledByShutdown, CancelledBy,
     NothingPending, Strays
<1>10. ASSUME ~stopped, MqttCancelled \/ MqttDisconnected
       PROVE  LifeInv'
  BY <1>10, MqttKeeps
<1>11. ASSUME ~stopped, NEW n \in 1 .. MaxBroken, ConnectionBreaks(n)
       PROVE  LifeInv'
  BY <1>11, ConnectionBreaksKeeps
<1>9. LifecycleNext =>
        /\ ~stopped
        /\ \/ CancelledEnd \/ Signal \/ OneTaskMoves
           \/ HandlerStarts \/ HandlerWakes \/ ScanDone
           \/ MqttCancelled \/ MqttDisconnected
           \/ \E n \in 1 .. MaxBroken : ConnectionBreaks(n)
           \/ \E c \in Commands : CommandArrives(c)
           \/ \E t \in {Mqtt, Handler} : HandleException(t)
           \/ \E i \in ShutdownIds : ShutdownStarts(i) \/ ShutdownEnds(i)
  BY DEF LifecycleNext, LoopStep, Event, OneTaskMoves
<1>. QED
  BY <1>1, <1>2, <1>3, <1>4, <1>5, <1>6, <1>7, <1>8, <1>9, <1>10, <1>11

\* The tasks and what is recorded of them stay as described: a shutdown that
\* nobody has cancelled has everything that lives in hand, and a client is
\* cancelled by shutdowns alone (server_cli.py, device_handler.py,
\* manager.py).
THEOREM LifecycleInvariant == LifecycleSpec => []LifeInv
<1>. QED
  BY LifecycleStart, LifecycleStep, PTL DEF LifecycleSpec

\* Every task is in a state of its kind, and only a task that lives has a
\* cancellation to notice.
THEOREM LifecycleTypeCorrect == LifecycleSpec => []LifecycleTypeOK
<1>1. LifeInv => LifecycleTypeOK
  BY DEF LifeInv
<1>. QED
  BY <1>1, LifecycleInvariant, PTL

\* The loop is stopped only when every task is over, but a shutdown that has
\* not begun (shutdown: gather, then loop.stop()), however many signals and
\* failures ask for it.
THEOREM StopsWithNothingPending == LifecycleSpec => []NothingPending
<1>1. LifeInv => NothingPending
  BY DEF LifeInv
<1>. QED
  BY <1>1, LifecycleInvariant, PTL

\* A client that disconnects because it was cancelled is interrupted by a
\* second shutdown only (BluetoothClient.run, finally).
THEOREM InterruptedByShutdownOnly == LifecycleSpec => []DisconnectsInPeace
<1>1. ASSUME LifeInv
      PROVE  DisconnectsInPeace
  <2>. SUFFICES ASSUME NEW d \in Devices, status[Client(d)] = "cancelling",
                       Client(d) \in doomed
                PROVE  Cardinality(CancelledBy(d)) > 1
    BY DEF DisconnectsInPeace, CancelledBy
  <2>1. PICK i, j \in CancelledBy(d) : i # j
    BY <1>1 DEF LifeInv, Sweep, CancelledByShutdown
  <2>2. IsFiniteSet(CancelledBy(d)) /\ Cardinality(CancelledBy(d)) \in Nat
    <3>1. IsFiniteSet(ShutdownIds)
      BY LifecycleBounds, FS_Interval DEF ShutdownIds
    <3>2. CancelledBy(d) \in SUBSET ShutdownIds
      BY DEF CancelledBy
    <3>. QED
      BY <3>1, <3>2, FS_Subset, FS_CardinalityType
  <2>3. Cardinality(CancelledBy(d)) # 0 /\ Cardinality(CancelledBy(d)) # 1
    BY <2>1, <2>2, FS_EmptySet, FS_Singleton
  <2>. QED
    BY <2>2, <2>3
<1>. QED
  BY <1>1, LifecycleInvariant, PTL
===============================================================================
