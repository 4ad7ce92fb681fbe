-------------------------------- MODULE MCUpdate -------------------------------
(***************************************************************************)
(* One run for code updates: the dissemination of versions over a network, *)
(* and the fetching and loading of a release on one node.  The parts share *)
(* no state; the variable part says which one a behaviour is about, and    *)
(* the other rests in its initial state.                                   *)
(***************************************************************************)
EXTENDS Loader, Dissemination

VARIABLE part

updateVars == <<ldVars, dissVars, part>>

\* Releases of two entries, the second one a module: entries come, change, shrink
\* and go.
Size(v, n) == [ver |-> v, size |-> n]
MCRelease ==
  [r \in 0..3 |-> CASE r = 0 -> <<Size(0, 0), Size(0, 0)>>
                    [] r = 1 -> <<Size(0, 0), Size(1, 2)>>
                    [] r = 2 -> <<Size(1, 1), Size(2, 2)>>
                    [] r = 3 -> <<Size(2, 1), Size(3, 0)>>]
MCFailModes == {{}, {"mem"}}

\* Three nodes in a line, the host at the first one.
Gateway == 1
MCNeighbour == [n \in 1..3 |-> {k \in 1..3 : k = n + 1 \/ k = n - 1}]

Init ==
  /\ part \in {"load", "spread"}
  /\ LoaderInit
  /\ dissInit
  /\ part # "load" => node.fail = {}

InLoad(A) == part = "load" /\ A /\ UNCHANGED <<dissVars, part>>
InSpread(A) == part = "spread" /\ A /\ UNCHANGED <<ldVars, part>>

Next ==
  \/ InLoad(\E r \in DOMAIN Release : handle_version_data(r))
  \/ InLoad(handle_fetcher_done)
  \/ InLoad(fetcher_timer_fires)
  \/ InLoad(fetcher_request_timeout)
  \/ InLoad(fetcher_overheard)
  \/ InLoad(\E f \in answers : fetcher_fragment(f))
  \/ InLoad(\E f \in answers : fragment_outdated(f))
  \/ InLoad(\E k \in Key : fetcher_serve(k))
  \/ InLoad(fetcher_transmit_timeout)
  \/ InLoad(fetcher_senddone)
  \/ InSpread(\E n \in Node : tou_timeout(n))
  \/ InSpread(\E n \in Node : tran_timeout(n))
  \/ InSpread(\E n \in Node : data_timeout(n))
  \/ InSpread(\E m \in air : diss_version_adv(m))
  \/ InSpread(\E m \in air : diss_version_data(m))
  \/ InSpread(\E n \in Node, more \in BOOLEAN : diss_fetcher_done(n, more))
  \/ InSpread(inject(Gateway))

\* The fairness of dissSpec.  Of the loader's steps: the scheduler delivers messages,
\* timers expire, and an answer that is not lost arrives.
Fair ==
  /\ WF_updateVars(InLoad(handle_fetcher_done))
  /\ WF_updateVars(InLoad(fetcher_timer_fires))
  /\ WF_updateVars(InLoad(fetcher_request_timeout))
  /\ WF_updateVars(InLoad(\E f \in answers : fetcher_fragment(f)))
  /\ \A n \in Node : /\ WF_updateVars(InSpread(HandleMessage(n)))
                     /\ WF_updateVars(InSpread(tou_timeout(n)))
                     /\ WF_updateVars(InSpread(data_timeout(n)))
                     /\ WF_updateVars(InSpread(diss_fetcher_done(n, FALSE)))
                     /\ SF_updateVars(InSpread(tran_timeout(n)))

Spec == Init /\ [][Next]_updateVars /\ Fair

--------------------------------------------------------------------------------
\* The type invariants of the parts.
UpdateTypeOK ==
  /\ part = "load" => LoaderTypeOK
  /\ part = "spread" => dissTypeOK
================================================================================
