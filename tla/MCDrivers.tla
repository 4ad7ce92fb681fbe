-------------------------------- MODULE MCDrivers ------------------------------
(***************************************************************************)
(* One run for three parts that are driven by events, the main loop, the   *)
(* radio and the virtual machine.  The parts share no state here; the      *)
(* variable part says which one a behaviour is about, and the others rest  *)
(* in their initial states.                                                *)
(***************************************************************************)
EXTENDS SchedLoop, Radio, Dvm

VARIABLE part

driverVars == <<loopVars, radioVars, dvm, part>>

\* One node sends a message to the other and one to all while a byte is hit, or
\* both send at the same time.
MCFrom == <<"a", "a", "b">>
MCDst == <<"b", "all", "a">>
MCLen == <<1, 0, 0>>
MCPlans == {[send |-> {1, 2}, noise |-> 1], [send |-> {1, 3}, noise |-> 0]}

\* The scripts of 0 and 2 share a variable each with that of 1; 2 is run by a timer.
MCScriptLocks == <<{"x", "y"}, {"y"}>> @@ (0 :> {"x"})
MCTrigger == [c \in 0..2 |-> "photo"]

DriversInit ==
  /\ part \in {"loop", "radio", "vm"}
  /\ LoopInit
  /\ RadioInit
  /\ dvmInit
  /\ part # "radio" => plan.noise = 0

InLoop(A) == part = "loop" /\ A /\ UNCHANGED <<radioVars, dvm, part>>
InRadio(A) == part = "radio" /\ A /\ UNCHANGED <<loopVars, dvm, part>>
InVm(A) == part = "vm" /\ A /\ UNCHANGED <<loopVars, radioVars, part>>

DriversNext ==
  \/ InLoop(\E d \in Id : isr_callback(d))
  \/ InLoop(isr_post)
  \/ InLoop(sched_top)
  \/ InLoop(sched_check_int)
  \/ InLoop(sched_check_msg)
  \/ InLoop(do_dispatch)
  \/ InLoop(handle_callback)
  \/ InLoop(callback_look)
  \/ InLoop(callback_clear)
  \/ InLoop(callback_call)
  \/ InLoop(callback_again)
  \/ InLoop(callback_return)
  \/ InRadio(\E m \in RadioMsg : radio_msg_alloc(m))
  \/ InRadio(byte_time)
  \/ InRadio(\E n \in RadioNode : squelch_timer_fired(n))
  \/ InRadio(\E n \in RadioNode : adc_proc_interrupt(n))
  \/ InVm(dvmsched_run_task)
  \/ InVm(dvmsched_halt)
  \/ InVm(dvmsched_resume)
  \/ InVm(\E e \in {Trigger[c] : c \in Capsule} : event_handler_default(e))
  \/ InVm(\E c \in Capsule : event_handler_timeout(c))
  \/ InVm(basic_library_data_ready)
  \/ InVm(\E c \in Capsule : resmanager_loader_data_handler(c))
  \/ InVm(dvmsched_change_lib)

\* The fairness of LoopSpec, RadioSpec and dvmSpec.
DriversFair ==
  /\ WF_driverVars(InLoop(Loop))
  /\ WF_driverVars(InRadio(byte_time))
  /\ \A n \in RadioNode : WF_driverVars(InRadio(adc_proc_interrupt(n)))
  /\ WF_driverVars(InVm(dvmsched_run_task))

DriversSpec == DriversInit /\ [][DriversNext]_driverVars /\ DriversFair

================================================================================
