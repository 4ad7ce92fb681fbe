-------------------------------- MODULE Services -------------------------------
(***************************************************************************)
(* The kernel services as ker_register_module and ker_deregister_module of *)
(* kernel/sched.c compose them: registering a module links its functions,  *)
(* removing it takes its sensors, its monitors and its functions away, in  *)
(* that order, in one call of the loader's handler.                        *)
(***************************************************************************)
EXTENDS SensorManager, SharedMemory, Monitor

CONSTANT Fid         \* Function numbers.

servVars == <<live, fnVars, sensVars, shmVars, monVars>>

servInit ==
  /\ live = Kernel
  /\ fnInit(Kernel)
  /\ sensInit
  /\ shmInit
  /\ monInit

\* sched_register_module of m.
register_module(m) ==
  /\ m \notin live
  /\ curr = NoMon
  /\ live' = live \cup {m}
  /\ fntable_link(m)
  /\ UNCHANGED <<sensVars, shmVars, monVars>>

\* ker_deregister_module of m, after the MSG_FINAL handler returned.
deregister_module(m) ==
  /\ m \in live \ Kernel
  /\ curr = NoMon
  /\ live' = live \ {m}
  /\ sensor_remove_all(m)
  /\ monitor_remove_all(m)
  /\ fntable_remove_all(m)
  /\ UNCHANGED <<shmVars, curr, mon, seen>>

OtherThanFn == <<live, sensVars, shmVars, monVars>>
OtherThanSens == <<live, shmVars, monVars>>
OtherThanShm == <<live, fnVars, sensVars, monVars>>
OtherThanMon == <<live, fnVars, sensVars, shmVars>>

Load == \E m \in Module \ Kernel : register_module(m)
Unload == \E m \in Module \ Kernel : deregister_module(m)
Subscribe == \E m \in Module \ Kernel, p \in Module, f \in Fid : \E i \in Subs(m) :
               ker_sys_fntable_subscribe(m, p, f, i) /\ UNCHANGED OtherThanFn
DfuncRemoved == \E d \in dfunc : dfunc_removed(d) /\ UNCHANGED OtherThanFn
SensorRegister == \E m \in Module \ Kernel, id \in SensorId, f \in Fid :
                    ker_sensor_register(m, id, f) /\ UNCHANGED OtherThanSens
SensorDeregister == \E m \in Module \ Kernel, id \in SensorId :
                      ker_sensor_deregister(m, id) /\ UNCHANGED OtherThanSens
SensorGetData == \E m \in Module \ Kernel, id \in SensorId :
                   ker_sensor_get_data(m, id) /\ UNCHANGED OtherThanSens
SensorDataReady == \E id \in SensorId : ker_sensor_data_ready(id) /\ UNCHANGED OtherThanSens
ShmOpen == \E m \in Module \ Kernel, n \in ShmName : ker_shm_open(m, n) /\ UNCHANGED OtherThanShm
ShmUpdate == \E m \in Module \ Kernel, n \in ShmName : ker_shm_update(m, n) /\ UNCHANGED OtherThanShm
ShmClose == \E m \in Module \ Kernel, n \in ShmName : ker_shm_close(m, n) /\ UNCHANGED OtherThanShm
ShmWait == \E m \in Module \ Kernel, n \in ShmName : ker_shm_wait(m, n) /\ UNCHANGED OtherThanShm
ShmStopwait == \E m \in Module \ Kernel, n \in ShmName : ker_shm_stopwait(m, n) /\ UNCHANGED OtherThanShm
MonitorRegister == \E c \in MonCb : ker_register_monitor(c) /\ UNCHANGED OtherThanMon
MonitorDeregister == \E c \in MonCb : ker_deregister_monitor(c) /\ UNCHANGED OtherThanMon
DeliverBegin == \E t \in {"local", "outgoing"}, o \in Module \cup {NULL_PID} :
                  deliver_begin([type |-> t, other |-> o]) /\ UNCHANGED OtherThanMon
DeliverStep == deliver_step /\ UNCHANGED OtherThanMon

servNext ==
  \/ Load \/ Unload
  \/ Subscribe \/ DfuncRemoved
  \/ SensorRegister \/ SensorDeregister \/ SensorGetData \/ SensorDataReady
  \/ ShmOpen \/ ShmUpdate \/ ShmClose \/ ShmWait \/ ShmStopwait
  \/ MonitorRegister \/ MonitorDeregister \/ DeliverBegin \/ DeliverStep

servSpec == servInit /\ [][servNext]_servVars
================================================================================
