--------------------------------- MODULE Loader --------------------------------
(***************************************************************************)
(* Code update on one node: extensions/loader/loader.c over the fetcher.   *)
(* The loader learns of releases from version data messages, fetches every *)
(* entry that changed, one at a time, and loads what it fetched.  The      *)
(* neighbours and the radio are the environment: they announce releases,   *)
(* answer requests, lose and repeat fragments, and ask for fragments.      *)
(***************************************************************************)
EXTENDS Fetcher

CONSTANTS Release,     \* Release[r][k]: version and size of entry k in release r
          FailModes,   \* What can run out, one of these sets throughout a run.
          MAXFAULTS,   \* Bound on answers that are lost, late or repeated.
          Quiet        \* Announcements spare entries that are being handled.

ASSUME LoaderAssumption ==
  /\ MAXFAULTS \in Nat
  /\ Quiet \in BOOLEAN
  /\ \A r \in DOMAIN Release : DOMAIN Release[r] = Key

VARIABLES node,      \* The node's state, see Fetcher.
          vdata,     \* st.version_data: the release the node goes for
          blocked,   \* st.blocked
          loaded,    \* loaded[k]: the code memory module k runs from, 0 if none
          answers,   \* Fragments on their way to the node: [key, frag, ver]
          faults     \* Answers lost, late or repeated so far.

ldVars == <<node, vdata, blocked, loaded, answers, faults>>

LoaderInit ==
  /\ \E mode \in FailModes :
       node = [fst |-> <<>>, cam |-> [k \in Key |-> NoCam],
               code |-> [h \in Handle |-> FreeCode], timer |-> FALSE, tmo |-> FALSE,
               retry |-> FALSE, done |-> <<>>, send |-> NoMap, inq |-> 0,
               fail |-> mode, bad |-> {}]
  /\ vdata = 0
  /\ blocked = FALSE
  /\ loaded = [k \in Key |-> 0]
  /\ answers = {}
  /\ faults = 0

\* ker_codemem_free: code memory is given back and its modules are removed.
codemem_free(s, k) == [s EXCEPT !.code[s.cam[k].cm] = FreeCode]

\* process_version_data works on the node, blocked and loaded; over is set by its
\* return statements.
Working(s, b, l) == [node |-> s, blocked |-> b, loaded |-> l, over |-> FALSE]

\* request_new_module for an entry whose record is there or new.  Without code
\* memory, or memory for the fetch, the record goes and the loop goes on.
request_new_module(w, k, e) ==
  LET free == {h \in Handle : w.node.code[h] = FreeCode}
      s == [w.node EXCEPT
              !.code[Min(free)] = [f \in Frags(e.size) |-> Garbage],
              !.cam[k] = [cm |-> Min(free), status |-> "queued", ver |-> e.ver,
                          size |-> e.size]]
  IN  (IF free = {} THEN {}
       ELSE {[w EXCEPT !.node = fetcher_request(s, k, e.size),
                       !.blocked = TRUE, !.over = TRUE]})
      \cup (IF free = {} \/ "mem" \in w.node.fail
            THEN {[w EXCEPT !.node.cam[k] = NoCam]} ELSE {})

\* Mutant: a fetch of the old version goes on.
Replace_run(w, k) ==
  [w EXCEPT !.node = codemem_free(w.node, k),
            !.blocked = @ /\ w.node.cam[k].status # "started",
            !.loaded[k] = 0]

\* A new version of an entry: its fetch is cancelled and its code memory freed.
Replace(w, k) ==
  LET s == IF w.node.cam[k].status # "done" THEN fetcher_cancel(w.node, k) ELSE w.node
  IN  [w EXCEPT !.node = codemem_free(s, k),
                !.blocked = @ /\ w.node.cam[k].status # "started",
                !.loaded[k] = 0]

\* One round of the loop of process_version_data, for entry k of release r.
ProcessEntry(w, k, r) ==
  LET e == Release[r][k]
  IN  IF w.over \/ (~HasCam(w.node, k) /\ e.size = 0) THEN {w}
      ELSE IF ~HasCam(w.node, k)
      THEN request_new_module(w, k, e)
             \cup (IF "mem" \in w.node.fail THEN {[w EXCEPT !.over = TRUE]} ELSE {})
      ELSE IF w.node.cam[k].ver = e.ver THEN {w}
      ELSE IF e.size = 0
      THEN {[Replace(w, k) EXCEPT !.node.cam[k] = NoCam]}
      ELSE request_new_module(Replace(w, k), k, e)

Keys == SetToSortSeq(Key, <)

process_version_data(w, r) ==
  FoldLeft(LAMBDA ws, k : UNION {ProcessEntry(x, k, r) : x \in ws}, {w}, Keys)

Becomes(w) ==
  /\ node' = w.node
  /\ blocked' = w.blocked
  /\ loaded' = w.loaded

\* What Quiet asks of an announcement: an entry whose MSG_FETCHER_DONE is in the
\* queue does not change.
Undisturbed(r) ==
  \A k \in {node.done[i].key : i \in DOMAIN node.done} :
    Release[r][k].ver = node.cam[k].ver

\* MSG_VERSION_DATA with a newer release.
handle_version_data(r) ==
  /\ r > vdata
  /\ Quiet => Undisturbed(r)
  /\ vdata' = r
  /\ \E w \in process_version_data(Working(node, blocked, loaded), r) : Becomes(w)
  /\ UNCHANGED <<answers, faults>>

\* MSG_FETCHER_DONE: load the module and look for the next entry, or fetch again.
handle_fetcher_done ==
  /\ node.done # <<>>
  /\ LET f == Head(node.done)
         s == [node EXCEPT !.done = Tail(@)]
     IN  IF f.retx <= MAX_RETX
         THEN IF ~HasCam(s, f.key) THEN Becomes(Working(Wrong(s, "null"), FALSE, loaded))
              ELSE LET l == IF f.key \in ModuleKey
                            THEN [loaded EXCEPT ![f.key] = s.cam[f.key].cm] ELSE loaded
                   IN  \E w \in process_version_data(Working(s, FALSE, l), vdata) : Becomes(w)
         ELSE Becomes(Working(fetcher_restart(s, f), blocked, loaded))
  /\ UNCHANGED <<vdata, answers, faults>>

\* The versions of entry k that an answer may come in: a fragment names its key
\* only.  With Quiet the neighbours keep the version this node asks for.
Answered(k) == IF Quiet THEN {node.cam[k].ver} ELSE {Release[r][k].ver : r \in DOMAIN Release}

fetcher_timer_fires ==
  /\ node.timer /\ ~node.tmo
  /\ node' = timer_fires(node)
  /\ UNCHANGED <<vdata, blocked, loaded, answers, faults>>

\* Answers to the fetch under way are still on their way.
Late ==
  /\ node.fst # <<>> /\ HasCam(node, Fst(node).key)
  /\ \E a \in answers : /\ a.key = Fst(node).key /\ a.frag \in Fst(node).need
                       /\ a.ver = node.cam[a.key].ver

\* The message of FETCHER_REQUEST_TID is handled; a neighbour answers the request
\* that this sends.  Losing some of the answer is a fault, and so is an earlier
\* answer that is late.
fetcher_request_timeout ==
  /\ node.tmo
  /\ Quiet => node.done = <<>>
  /\ node' \in request_timeout(node)
  /\ \E got \in SUBSET Request(node) :
       /\ faults' = IF got = Request(node) /\ ~Late THEN faults ELSE faults + 1
       /\ faults' <= MAXFAULTS
       /\ answers' \in {answers \cup {[key |-> q.key, frag |-> q.frag, ver |-> v] : q \in got} :
                          v \in UNION {Answered(q.key) : q \in Request(node)} \cup
                                (IF Request(node) = {} THEN {0} ELSE {})}
  /\ UNCHANGED <<vdata, blocked, loaded>>

fetcher_overheard ==
  /\ node' = overheard_request(node)
  /\ UNCHANGED <<vdata, blocked, loaded, answers, faults>>

\* A fragment arrives, in any order; a fault repeats it later.
fetcher_fragment(a) ==
  /\ a \in answers
  /\ Quiet => node.done = <<>>
  /\ Quiet /\ HasCam(node, a.key) => a.ver = node.cam[a.key].ver
  /\ node' \in recv_fragment(node, a.key, a.frag, a.ver)
  /\ \/ answers' = answers \ {a} /\ UNCHANGED faults
     \/ faults < MAXFAULTS /\ faults' = faults + 1 /\ UNCHANGED answers
  /\ UNCHANGED <<vdata, blocked, loaded>>

\* A fragment of a version that is no longer wanted is lost on the way.
fragment_outdated(a) ==
  /\ Quiet
  /\ a \in answers
  /\ HasCam(node, a.key) => a.ver # node.cam[a.key].ver
  /\ answers' = answers \ {a}
  /\ UNCHANGED <<node, vdata, blocked, loaded, faults>>

\* A neighbour asks this node for an entry.
fetcher_serve(k) ==
  /\ node' = recv_request(node, k, IF HasCam(node, k) THEN Frags(node.cam[k].size) ELSE Frag)
  /\ node' # node
  /\ UNCHANGED <<vdata, blocked, loaded, answers, faults>>

fetcher_transmit_timeout ==
  /\ node.send # NoMap
  /\ node' \in transmit_timeout(node)
  /\ UNCHANGED <<vdata, blocked, loaded, answers, faults>>

fetcher_senddone ==
  /\ node.inq > 0
  /\ node' = senddone(node)
  /\ UNCHANGED <<vdata, blocked, loaded, answers, faults>>

--------------------------------------------------------------------------------
LoaderTypeOK ==
  /\ node.fst \in Seq(Fetch) /\ node.done \in Seq(Fetch)
  /\ node.cam \in [Key -> Cam]
  /\ \A h \in Handle : node.code[h] = FreeCode \/
       \E n \in 1..MAXFRAG : node.code[h] \in [Frags(n) -> 0..MAXVER]
  /\ {node.timer, node.tmo, node.retry, blocked} \subseteq BOOLEAN
  /\ node.send \in [key : Key \cup {0}, map : SUBSET Frag]
  /\ node.inq \in 0..MAX_IN_QUEUE
  /\ loaded \in [Key -> Handle \cup {0}]

\* A module runs only from code memory that holds every fragment of the version
\* its record names: MSG_FETCHER_DONE is not sent before the last fragment is
\* written, and is not taken for the completion of another fetch.
LoadedWhole ==
  \A k \in Key : loaded[k] # 0 =>
    /\ HasCam(node, k) /\ node.cam[k].cm = loaded[k]
    /\ \A f \in Frags(node.cam[k].size) : Content(node, k)[f] = node.cam[k].ver

\* Fragment 0 of a module, its header, is there before any other fragment.
HeaderFirst ==
  \A k \in ModuleKey : HasCam(node, k) =>
    (Content(node, k)[0] = Garbage =>
       \A f \in Frags(node.cam[k].size) : Content(node, k)[f] = Garbage)

\* Code memory is held by exactly one record: nothing is lost when entries change
\* in the middle of a fetch, when a fetch fails, or when memory runs out.
CodeHeld ==
  /\ \A h \in Handle : node.code[h] # FreeCode =>
       Cardinality({k \in Key : HasCam(node, k) /\ node.cam[k].cm = h}) = 1
  /\ \A k \in Key : HasCam(node, k) => Content(node, k) # FreeCode

\* The status in an entry's record tells where its fetch is: first in the list,
\* further back, or over.  process_version_data cancels by it.
StatusExact ==
  \A k \in Key : HasCam(node, k) =>
    LET at == {i \in DOMAIN node.fst : node.fst[i].key = k}
    IN  /\ node.cam[k].status = "started" <=> at = {1}
        /\ node.cam[k].status = "queued" <=> Cardinality(at) = 1 /\ at # {1}
        /\ node.cam[k].status = "done" <=> at = {}

\* A fetch under way has its timer running, and the protocol is blocked only while
\* a fetch is under way or its end is on the way to the loader: nothing is left
\* waiting for an event that will not come.
NotStuck ==
  /\ node.fst # <<>> => node.timer \/ node.tmo
  /\ blocked => node.fst # <<>> \/ node.done # <<>>

\* No handler follows a record that is gone or a fetch that was freed.
NoDangling == node.bad = {}

\* Nothing half fetched is loaded, headers come first, no code memory is lost, the
\* status of every entry agrees with the queue of fetches, a fetch or a blocked loader
\* has something to wait for, and no pointer is followed that leads nowhere: whichever
\* fragments are lost or late and whichever release comes in between.
FetchSound ==
  LoadedWhole /\ HeaderFirst /\ CodeHeld /\ StatusExact /\ NotStuck /\ NoDangling

\* Every entry is that of the release the node goes for, and modules are loaded.
UpToDate ==
  \A k \in Key :
    LET e == Release[vdata][k]
    IN  IF e.size = 0 THEN ~HasCam(node, k) /\ loaded[k] = 0
        ELSE /\ HasCam(node, k) /\ node.cam[k].ver = e.ver
             /\ k \in ModuleKey => loaded[k] = node.cam[k].cm

\* A node that does not run out of memory brings every entry to the last release it
\* heard of and loads it, whatever was lost and whichever releases came meanwhile.
Updated == node.fail = {} => <>[]UpToDate
================================================================================
