----------------------------- MODULE SensorManager -----------------------------
(***************************************************************************)
(* The sensor manager, kernel/sensor.c: which driver serves a sensor and   *)
(* which client waits for its data.  The driver's function is entry id of  *)
(* the manager's own function table, linked through FnTable.  What a driver*)
(* does with a command is external: it accepts or refuses, and a driver    *)
(* that accepted SENSOR_GET_DATA_CMD calls ker_sensor_data_ready later.    *)
(***************************************************************************)
EXTENDS FnTable

CONSTANT SENSOR      \* KER_SENSOR_PID, the manager's own module

\* The manager is part of the kernel, and binds its entries at run time only.
ASSUME SensorAssumption == SENSOR \in Kernel /\ \A i \in Subs(SENSOR) : Runtime(SENSOR, i)

VARIABLES driver,    \* driver[id]: st[id].pid
          client,    \* client[id]: st[id].client_pid
          sampling   \* sampling[id]: the driver that accepted a request and owes data

sensVars == <<driver, client, sampling>>

SensorId == Subs(SENSOR)

sensInit ==
  /\ driver = [id \in SensorId |-> NULL_PID]
  /\ client = [id \in SensorId |-> NULL_PID]
  /\ sampling = [id \in SensorId |-> NULL_PID]

Vacant(id) == driver[id] = NULL_PID

\* ker_sensor_register by module m, whose control function is fid.
ker_sensor_register(m, id, fid) ==
  /\ m \in live
  /\ Vacant(id)
  /\ ker_fntable_subscribe(SENSOR, m, fid, id)
  /\ driver' = [driver EXCEPT ![id] = m]
  /\ UNCHANGED <<dfunc, client, sampling>>

\* ker_sensor_deregister: SENSOR_DISABLE_CMD stops the driver, the link and a
\* waiting client stay as they are.
Deregistered(ids) ==
  /\ driver' = [id \in SensorId |-> IF id \in ids THEN NULL_PID ELSE driver[id]]
  /\ sampling' = [id \in SensorId |-> IF id \in ids THEN NULL_PID ELSE sampling[id]]
  /\ UNCHANGED client

ker_sensor_deregister(m, id) ==
  /\ m \in live
  /\ driver[id] = m
  /\ Deregistered({id})
  /\ UNCHANGED fnVars

\* Mutant: only the first sensor of a driver is given up.
sensor_remove_all_first(m) ==
  Deregistered(LET mine == {id \in SensorId : driver[id] = m}
               IN  IF mine = {} THEN {} ELSE {Min(mine)})

\* sensor_remove_all in ker_deregister_module.
sensor_remove_all(m) == Deregistered({id \in SensorId : driver[id] = m})

\* The guard of ker_sensor_get_data, _enable, _disable and _control.
Idle(id) == driver[id] # NULL_PID /\ client[id] = NULL_PID

\* ker_sensor_get_data by module m: the driver's function accepts or refuses; the
\* stub refuses.  (While enabled, ker_sensor_enable, _disable and _control change
\* nothing of the manager's: _disable clears a client that Idle says is NULL_PID.)
ker_sensor_get_data(m, id) ==
  /\ m \in live
  /\ Idle(id)
  /\ ~Unlinked(SENSOR, id)
  /\ client' = [client EXCEPT ![id] = m]
  /\ sampling' = [sampling EXCEPT ![id] = link[SENSOR][id][1]]
  /\ UNCHANGED <<fnVars, driver>>

\* ker_sensor_data_ready by the driver that sampled: MSG_DATA_READY, or MSG_ERROR,
\* goes to the client.
ker_sensor_data_ready(id) ==
  /\ sampling[id] # NULL_PID
  /\ sampling' = [sampling EXCEPT ![id] = NULL_PID]
  /\ client' = IF driver[id] = NULL_PID THEN client ELSE [client EXCEPT ![id] = NULL_PID]
  /\ UNCHANGED <<fnVars, driver>>

--------------------------------------------------------------------------------
sensTypeOK ==
  /\ driver \in [SensorId -> Module \cup {NULL_PID}]
  /\ client \in [SensorId -> Module \cup {NULL_PID}]
  /\ sampling \in [SensorId -> Module \cup {NULL_PID}]

\* The driver of a sensor is registered, and the function the manager calls for
\* the sensor is the stub or a function of that driver: ker_sensor_deregister
\* leaves the old pointer in place, but nobody else is called through it.
DriverLinked ==
  \A id \in SensorId : driver[id] # NULL_PID =>
    /\ driver[id] \in live
    /\ Unlinked(SENSOR, id) \/ link[SENSOR][id][1] = driver[id]

\* A driver samples for a client that waits: the data of ker_sensor_data_ready
\* always has a receiver, and answers are never sent twice.
SamplesForClient ==
  \A id \in SensorId : sampling[id] # NULL_PID =>
    client[id] # NULL_PID /\ sampling[id] = driver[id]

\* The sensor manager calls nobody but the registered driver, and a driver samples
\* for a client that waits, although drivers and clients come and go meanwhile.
SensorsSound == DriverLinked /\ SamplesForClient
================================================================================
