----------------------------- MODULE SettingOrder -----------------------------
(***************************************************************************)
(* What the user of the MQTT topics sees of CommandExecutor: the order in  *)
(* which commands for one setting arrive, the results they get, and the    *)
(* value the device is left with.  The two variables only record.          *)
(***************************************************************************)
EXTENDS CommandExecutor

CONSTANT
  Watched         \* bound: the scopes that are recorded

ASSUME WatchedScopes == Watched \subseteq Scopes

VARIABLES
  register,       \* scope -> the value the device holds, None at first
  latest          \* scope -> the last command that arrived, or None

orderVars == <<register, latest>>

OrderInit ==
  /\ Init
  /\ register = [s \in Watched |-> None]
  /\ latest   = [s \in Watched |-> None]

WrittenNow(t)  == req[t] # None /\ written'[t] > written[t]
ConfirmedNow(t) ==
  req[t] # None /\ transit[t] = "dispatched" /\ transit'[t] = "none"
    /\ fut'[t] = "response"

\* A write may or may not reach the device; an acknowledged one has.
MayHold(s) ==
  LET wrote == {t \in Calls : WrittenNow(t)   /\ Scope(req[t]) = s}
      acked == {t \in Calls : ConfirmedNow(t) /\ Scope(req[t]) = s}
  IN  IF acked # {} THEN {req[t].value : t \in acked}
                    ELSE {req[t].value : t \in wrote} \cup {register[s]}

DeviceStep ==
  /\ register' \in [Watched -> UNION {MayHold(s) : s \in Watched}]
  /\ \A s \in Watched : register'[s] \in MayHold(s)

Arrival(t, k) ==
  /\ Execute(t, k)
  /\ latest' = [s \in Watched |-> IF s # Scope(k) THEN latest[s] ELSE
       [task |-> t, value |-> k.value,
        status |-> IF published' = {} THEN "open"
                   ELSE (CHOOSE m \in published' : TRUE).result.status]]
  /\ UNCHANGED register

\* The results that this step publishes, for the commands that were waited
\* for.
Note ==
  latest' = [s \in Watched |->
    LET mine == {m \in published' :
                   latest[s] # None /\ m.task = latest[s].task
                     /\ Scope(m.key) = s /\ latest[s].status = "open"}
    IN  IF mine = {} THEN latest[s]
        ELSE [latest[s] EXCEPT !.status = (CHOOSE m \in mine : TRUE).result.status]]

OrderNext ==
  \/ \E t \in Calls, k \in Keys : Arrival(t, k)
  \/ /\ \/ \E t \in Calls :
             \/ AcquireLock(t) \/ LockTimeout(t) \/ Complete(t)
             \/ Attempt(t) \/ Settle(t) \/ ExpireCall(t)
             \/ CancelActive(t) \/ CancelJoined(t)
        \/ ClientStep \/ Shutdown \/ Tick
     /\ DeviceStep
     /\ Note

OrderSpec == OrderInit /\ [][OrderNext]_<<vars, orderVars>>

-------------------------------------------------------------------------------
Quiet(s) == \A t \in Calls : pc[t] = "idle" \/ Scope(req[t]) # s

\* When a result says `applied', cached or not, the device holds that value
\* (README: `applied' means the device returned a valid acknowledgement).
AppliedMeansSet ==
  [][\A m \in published' :
       Scope(m.key) \in Watched /\ m.result.status = "applied" /\ ~stopping
         => register[Scope(m.key)] = m.key.value]_<<vars, orderVars>>

\* Once all commands for a setting have been answered, the last of them to
\* arrive, if it was applied, is the one the device is left with.
SettledBy(s) ==
  latest[s] # None /\ latest[s].status = "applied" /\ Quiet(s) /\ ~stopping
    => register[s] = latest[s].value

\* ... for the rate-limited setpoint, which never has two values in flight,
LastSetpointWins == \A s \in Rated \cap Watched : SettledBy(s)

\* ... and for the switches, such as grid_charge_on.
LastSwitchWins == \A s \in Watched \ Rated : SettledBy(s)
===============================================================================
