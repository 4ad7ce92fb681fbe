-------------------------------- MODULE MCKernel -------------------------------
(***************************************************************************)
(* One run for parts of the kernel: the module registry, code memory, the  *)
(* posting of messages over links, and the services that Services.tla      *)
(* composes (function table, sensors, shared memory, monitors).  The parts *)
(* share no state here, except that the services share the modules that    *)
(* are loaded.  The variable part says which part a behaviour is about;    *)
(* the others rest in their initial states.                                *)
(***************************************************************************)
EXTENDS Registry, CodeMem, MessageNet, Services

CONSTANTS ma, mb, mc, cba, cbb, cbc

VARIABLE part

kernelVars == <<vars, cmVars, netVars, servVars, part>>

\* Three modules: ma and mb use functions of each other, with and without the
\* prototype they expect, mb uses one of its own, mc one of ma's.
MCSubscribed ==
  LET Free == [pid |-> RUNTIME_PID, fid |-> 0, proto |-> "q"]
      Of(p, f, proto) == [pid |-> p, fid |-> f, proto |-> proto]
  IN  SENSOR :> <<Free, Free>> @@ ma :> <<Of(mb, 1, "p"), Free>>
        @@ mb :> <<Of(ma, 1, "q"), Of(mb, 2, "p")>> @@ mc :> <<Of(ma, 1, "p")>>
MCProvided ==
  LET Fn(f, proto) == [fid |-> f, proto |-> proto]
  IN  SENSOR :> <<>> @@ ma :> <<Fn(1, "p")>> @@ mb :> <<Fn(1, "p"), Fn(2, "q")>>
        @@ mc :> <<Fn(2, "q")>>
MCCbModule == cba :> ma @@ cbb :> mb @@ cbc :> mc
MCCbType == cba :> {"local", "outgoing"} @@ cbb :> {"local"} @@ cbc :> {"local"}

\* The modules that come and go in each part of the services.
Loadable == [fn |-> {ma, mb, mc}, sens |-> {mb, mc}, shm |-> {ma, mb}, mon |-> {ma, mb, mc}]

MCChannel == <<"radio", "uart", "i2c">>

\* Posts to this node, to all over any links, and to a node that the router or no,
\* one or two links know.
To(dst, raw, auto, flags, known, route) ==
  [dst |-> dst, raw |-> raw, auto |-> auto, flags |-> flags, known |-> known, route |-> route]
Destination ==
  {To("self", FALSE, FALSE, {}, {}, "none")}
  \cup {To("bcast", FALSE, FALSE, f, {}, "none") : f \in {{}, {"radio"}, {"radio", "uart", "i2c"}}}
  \cup {To("node", FALSE, FALSE, {}, {}, r) : r \in {"none", "accepted", "forwarded"}}
  \cup {To("node", raw, TRUE, {}, k, "none") : raw \in BOOLEAN, k \in {{}, {"uart", "i2c"}}}

\* Sizes of regions, and of writes, in words.
RegionSize == {1, 3}
WriteSize == {1, 2}

KernelInit ==
  /\ part \in {"registry", "codemem", "net"} \cup DOMAIN Loadable
  /\ Init
  /\ codemem_init
  /\ NetInit
  /\ servInit

InRegistry(A) == part = "registry" /\ A /\ UNCHANGED <<cmVars, netVars, servVars, part>>
InCodeMem(A) == part = "codemem" /\ A /\ UNCHANGED <<vars, netVars, servVars, part>>
InNet(A) == part = "net" /\ A /\ UNCHANGED <<vars, cmVars, servVars, part>>
InServices(ps, A) == part \in ps /\ A /\ UNCHANGED <<vars, cmVars, netVars, part>>

KernelNext ==
  \/ InRegistry(\E p \in Pid : do_dispatch(p))
  \/ InRegistry(\E p \in Pid : ker_get_module(p))
  \/ InRegistry(\E p \in App : ker_register_module(p))
  \/ InRegistry(ker_spawn_module)
  \/ InRegistry(\E p \in App \cup Thread : ker_deregister_module(p))
  \/ InRegistry(deregister_finish)
  \/ InCodeMem(\E n \in RegionSize : ker_codemem_alloc(n))
  \/ InCodeMem(\E s \in Entry, off \in 0..2, n \in WriteSize, w \in Word :
                 ker_codemem_write(s, off, n, w))
  \/ InCodeMem(\E s \in Entry : ker_codemem_free(s))
  \/ InCodeMem(ker_codemem_flush)
  \/ InNet(\E release, reliable \in BOOLEAN, to \in Destination :
             post_link(release, reliable, to))
  \/ InNet(\E h \in Hdr : net_dispatch(h))
  \/ InNet(\E h \in Hdr : net_dispatch_senddone(h))
  \/ InNet(\E h \in Hdr : link_senddone(h))
  \/ InServices(DOMAIN Loadable, \E m \in Loadable[part] : register_module(m))
  \/ InServices(DOMAIN Loadable, \E m \in Loadable[part] : deregister_module(m))
  \/ InServices({"fn"}, Subscribe)
  \/ InServices({"fn"}, DfuncRemoved)
  \/ InServices({"sens"}, SensorRegister)
  \/ InServices({"sens"}, SensorDeregister)
  \/ InServices({"sens"}, SensorGetData)
  \/ InServices({"sens"}, SensorDataReady)
  \/ InServices({"shm"}, ShmOpen)
  \/ InServices({"shm"}, ShmUpdate)
  \/ InServices({"shm"}, ShmClose)
  \/ InServices({"shm"}, ShmWait)
  \/ InServices({"shm"}, ShmStopwait)
  \/ InServices({"mon"}, MonitorRegister)
  \/ InServices({"mon"}, MonitorDeregister)
  \/ InServices({"mon"}, DeliverBegin)
  \/ InServices({"mon"}, DeliverStep)

KernelSpec == KernelInit /\ [][KernelNext]_kernelVars

--------------------------------------------------------------------------------
\* The type invariants of the parts.
KernelTypeOK ==
  /\ part = "registry" => TypeOK
  /\ part = "codemem" => cmTypeOK
  /\ part = "net" => NetTypeOK
  /\ part = "fn" => fnTypeOK
  /\ part = "sens" => sensTypeOK
  /\ part = "shm" => shmTypeOK
  /\ part = "mon" => monTypeOK
================================================================================
