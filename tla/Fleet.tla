-------------------------------- MODULE Fleet --------------------------------
(***************************************************************************)
(* The broker serving real nodes: the work and result handlers of          *)
(* crates/server/src/api.rs, the poll loop and uploader of                 *)
(* crates/node/src/worker.rs, the sweeper and the ctrl-c path of           *)
(* crates/server/src/main.rs, and a server process that may die and start  *)
(* again.                                                                  *)
(*                                                                         *)
(* A node has at most one poll outstanding, runs every job it is handed    *)
(* (a job handed twice runs twice), and uploads results one at a time in   *)
(* order.  A reply or an acknowledgement may be lost, an upload given up,  *)
(* a node process may die, Riot may reject a key, ctrl-c may be pressed,   *)
(* the server may die: faults, at most MaxFaults of them.                  *)
(***************************************************************************)
EXTENDS Broker, Bags

CONSTANTS
  Truth,        \* Truth[r]: what the Riot API answers to r
  Liars,        \* nodes that may answer an immutable request wrongly
  Away,         \* nodes switched off a moment ago, which still count as active
  MaxFaults,    \* bound on faults of all kinds
  MaxRestarts,  \* bound on server restarts among them
  StopAllowed   \* whether ctrl-c may be pressed

ASSUME FleetAssumption ==
  /\ Truth \in [Request -> Answer]
  /\ {"KeyRejected", "Failed"} \cap Answer = {}
  /\ Liars \subseteq Node /\ Away \subseteq Node
  /\ MaxFaults \in Nat /\ MaxRestarts \in Nat
  /\ StopAllowed \in BOOLEAN

VARIABLES
  polling,      \* polling[n]: the work request of n at the server, or None
  running,      \* bag of jobs being executed
  uploads,      \* uploads[n]: results waiting to be uploaded, in order
  paused,       \* nodes whose key was rejected
  stop,         \* main sent the stop signal
  sweeping,     \* the sweeper task has not seen it yet
  faults, restarts

nodeVars == <<polling, running, uploads, paused>>
procVars == <<stop, sweeping>>
boundVars == <<faults, restarts>>
fleetVars == <<nodeVars, procVars, boundVars>>
fvars == <<vars, fleetVars>>

Task == [node : Node, id : Nat \ {0}, req : Request]
Outcome == Answer \cup {"KeyRejected", "Failed"}

FleetInit ==
  /\ Init
  /\ polling = [n \in Node |-> None]
  /\ running = EmptyBag
  /\ uploads = [n \in Node |-> <<>>]
  /\ paused = {}
  /\ stop = FALSE
  /\ sweeping = TRUE
  /\ faults = 0
  /\ restarts = 0

Fault == faults < MaxFaults /\ faults' = faults + 1

-----------------------------------------------------------------------------
(* Polling *)

\* The jobs of host h that node n executes in bag B, one element per copy.
Copies(B, n, h) ==
  UNION {{t} \X (1 .. B[t]) : t \in {u \in BagToSet(B) : u.node = n /\ HostOf[u.req] = h}}

\* inflight[h] of the node: jobs of host h it is executing.
Inflight(n, h) == Cardinality(Copies(running, n, h))

PollSend(n) ==
  /\ polling[n] = None
  /\ n \notin paused \cup Away
  /\ polling' = [polling EXCEPT ![n] =
                   [pending |-> [h \in Host |-> Inflight(n, h)], checked |-> FALSE]]
  /\ UNCHANGED <<vars, running, uploads, paused, procVars, boundVars>>

\* The handler's loop tests the shutdown flag, then calls take_jobs.
PollCheck(n) ==
  /\ polling[n] # None
  /\ ~polling[n].checked
  /\ polling' = IF shutdown THEN [polling EXCEPT ![n] = None]
                            ELSE [polling EXCEPT ![n].checked = TRUE]
  /\ UNCHANGED <<vars, running, uploads, paused, procVars, boundVars>>

\* The jobs handed out, one copy per queue entry removed.
Handed(n, held) ==
  LET P == Picks(n, held)
  IN  [t \in {[node |-> n, id |-> PickedId(p), req |-> jobs[PickedId(p)].req] : p \in P} |->
         Cardinality({p \in P : PickedId(p) = t.id})]

\* take_jobs.  A non-empty list is the reply, which may get lost; an empty one is
\* the reply once the deadline has passed, else the handler waits and loops.
PollTake(n, roll) ==
  LET held == polling[n].pending
      ends == polling' = [polling EXCEPT ![n] = None]
  IN  /\ polling[n].checked
      /\ TakeJobs(n, held, roll)
      /\ \/ /\ ends
            /\ running' = running (+) Handed(n, held)
            /\ UNCHANGED faults
         \/ /\ Picks(n, held) # {}
            /\ Fault
            /\ ends
            /\ UNCHANGED running
         \/ /\ Picks(n, held) = {}
            /\ polling' = [polling EXCEPT ![n].checked = FALSE]
            /\ UNCHANGED <<running, faults>>
      /\ UNCHANGED <<uploads, paused, procVars, restarts>>

PollServe(n) ==
  /\ polling[n] # None
  /\ \E roll \in Rolls(n, polling[n].pending) : PollTake(n, roll)

-----------------------------------------------------------------------------
(* Executing and uploading *)

\* An honest node reports the truth about an immutable endpoint; what a volatile
\* endpoint returns depends on the moment it is asked.
MayAnswer(n, r) == IF r \in Immutable /\ n \notin Liars THEN {Truth[r]} ELSE Answer

Execute(t, outcome) ==
  /\ BagIn(t, running)
  /\ running' = running (-) SetToBag({t})
  /\ uploads' = [uploads EXCEPT ![t.node] =
                   Append(@, [id |-> t.id, outcome |-> outcome])]
  /\ \/ /\ outcome \in MayAnswer(t.node, t.req) \cup {"Failed"}
        /\ UNCHANGED <<paused, faults>>
     \/ /\ outcome = "KeyRejected"
        /\ Fault
        /\ paused' = paused \cup {t.node}
  /\ UNCHANGED <<vars, polling, procVars, restarts>>

\* The owner saves a fresh key and the paused node resumes.
NewKey(n) ==
  /\ n \in paused
  /\ paused' = paused \ {n}
  /\ UNCHANGED <<vars, polling, running, uploads, procVars, boundVars>>

\* POST /v1/result: Broker::complete on what the node sent.
Receive(n, res) ==
  \/ /\ ~Accepts(n, res.id)
     /\ UNCHANGED vars
  \/ res.outcome \in Answer /\ CompleteAnswer(n, res.id, res.outcome)
  \/ res.outcome = "KeyRejected" /\ CompleteKeyRejected(n, res.id)
  \/ res.outcome = "Failed" /\ CompleteFailed(n, res.id)

\* Received and acknowledged.
Upload(n) ==
  /\ uploads[n] # <<>>
  /\ Receive(n, Head(uploads[n]))
  /\ uploads' = [uploads EXCEPT ![n] = Tail(@)]
  /\ UNCHANGED <<polling, running, paused, procVars, boundVars>>

\* Received, but the node sees an error and will send it again.
UploadUnacked(n) ==
  /\ uploads[n] # <<>>
  /\ Fault
  /\ Receive(n, Head(uploads[n]))
  /\ UNCHANGED <<polling, running, uploads, paused, procVars, restarts>>

\* 300 s of failed uploads: the result is dropped.
UploadGivesUp(n) ==
  /\ uploads[n] # <<>>
  /\ Fault
  /\ uploads' = [uploads EXCEPT ![n] = Tail(@)]
  /\ UNCHANGED <<vars, polling, running, paused, procVars, restarts>>

\* The node process ends and is started again: everything it held is gone.
NodeDies(n) ==
  /\ Fault
  /\ polling' = [polling EXCEPT ![n] = None]
  /\ running' = [t \in {u \in BagToSet(running) : u.node # n} |-> running[t]]
  /\ uploads' = [uploads EXCEPT ![n] = <<>>]
  /\ paused' = paused \ {n}
  /\ UNCHANGED <<vars, procVars, restarts>>

-----------------------------------------------------------------------------
(* The server process *)

\* The 15 s timer of spawn_sweeper fired.
SweepStep ==
  /\ sweeping
  /\ \E order \in Orders(Expired) : Sweep(order)
  /\ UNCHANGED fleetVars

\* ctrl-c: the stop signal, then Broker::shutdown; the sweeper ends on the signal.
Stop ==
  /\ StopAllowed
  /\ ~stop
  /\ Fault
  /\ stop' = TRUE
  /\ UNCHANGED <<vars, nodeVars, sweeping, restarts>>

SweeperStops ==
  /\ stop
  /\ sweeping
  /\ sweeping' = FALSE
  /\ UNCHANGED <<vars, nodeVars, stop, boundVars>>

ShutdownStep ==
  /\ stop
  /\ ShutdownFlag \/ ShutdownDrain
  /\ UNCHANGED fleetVars

\* The process dies and a new one starts: the broker and the runtime registry
\* are RAM only, next_id starts over, calls that were under way are lost.
Restart ==
  /\ restarts < MaxRestarts
  /\ restarts' = restarts + 1
  /\ Fault
  /\ next_id' = 1
  /\ jobs' = [i \in {} |-> None]
  /\ queues' = [h \in Host |-> <<>>]
  /\ audits' = [i \in {} |-> None]
  /\ shutdown' = FALSE
  /\ drained' = FALSE
  /\ call' = [r \in Request |-> IF call[r] = "idle" THEN "idle" ELSE "done"]
  /\ reg' = [n \in Node |-> NewNode]
  /\ polling' = [n \in Node |-> None]
  /\ stop' = FALSE
  /\ sweeping' = TRUE
  /\ UNCHANGED <<answer, running, uploads, paused>>

-----------------------------------------------------------------------------
FleetNext ==
  \/ \E n \in Node : PollSend(n)
  \/ \E n \in Node : PollCheck(n)
  \/ \E n \in Node : PollServe(n)
  \/ \E t \in BagToSet(running), o \in Outcome : Execute(t, o)
  \/ \E n \in Node : NewKey(n)
  \/ \E n \in Node : Upload(n)
  \/ \E n \in Node : UploadUnacked(n)
  \/ \E n \in Node : UploadGivesUp(n)
  \/ \E n \in Node : NodeDies(n)
  \/ \E r \in Request : FetchEnter(r) /\ UNCHANGED fleetVars
  \/ \E r \in Request : FetchEnqueue(r) /\ UNCHANGED fleetVars
  \/ SweepStep
  \/ \E i \in Live : LeaseDue(i) /\ UNCHANGED fleetVars
  \/ \E i \in Live : TwinAges(i) /\ UNCHANGED fleetVars
  \/ Stop
  \/ SweeperStops
  \/ ShutdownStep
  \/ Restart

FleetSafety == FleetInit /\ [][FleetNext]_fvars

\* What the runtimes guarantee: spawned tasks, timers and the retrying uploader
\* make progress; a poll is answered, if only at its deadline (strong fairness,
\* since the handler goes round its loop in the meantime); an owner whose key was
\* rejected saves a new one.  Nothing is assumed of calls not yet made, of faults,
\* of audit rolls or of ctrl-c and restarts.
Fairness ==
  /\ \A r \in Request : WF_fvars(FetchEnqueue(r) /\ UNCHANGED fleetVars)
  /\ \A n \in Node :
       /\ WF_fvars(PollSend(n))
       /\ WF_fvars(PollCheck(n))
       /\ SF_fvars(PollServe(n) /\ polling'[n] = None)
       /\ WF_fvars(\E t \in BagToSet(running), o \in Outcome : t.node = n /\ Execute(t, o))
       /\ WF_fvars(NewKey(n))
       /\ WF_fvars(Upload(n))
  /\ WF_fvars(Expired # {} /\ SweepStep)
  /\ WF_fvars(\E i \in Live : LeaseDue(i) /\ UNCHANGED fleetVars)
  /\ WF_fvars(SweeperStops)
  /\ WF_fvars(ShutdownStep)

FleetSpec == FleetSafety /\ Fairness

-----------------------------------------------------------------------------
(* Properties *)

\* The broker's types, and the types of what nodes and processes hold.
FleetTypeOK ==
  /\ TypeOK
  /\ \A n \in Node : polling[n] # None =>
       polling[n] \in [pending : [Host -> Nat], checked : BOOLEAN]
  /\ BagToSet(running) \subseteq Task
  /\ \A n \in Node : uploads[n] \in Seq([id : Nat \ {0}, outcome : Outcome])
  /\ paused \subseteq Node
  /\ stop \in BOOLEAN /\ sweeping \in BOOLEAN

\* TARGET_INFLIGHT_PER_HOST: a node never executes more jobs of one host than
\* the target, although the counts a poll carries are old when it is served,
\* replies get lost and one job may be handed to it twice.
InflightWithinTarget ==
  \A n \in Node, h \in Host : Inflight(n, h) <= TARGET_INFLIGHT_PER_HOST

\* A fetch of an immutable endpoint that returns an answer returns the answer to
\* its own request, when no node lies.
AnswersOwnRequest ==
  \A r \in Immutable : answer[r] \in Answer => answer[r] = Truth[r]

\* That holds while the server runs, whatever is re-leased, lost, sent twice or late:
\* until a restart numbers the jobs anew.
OwnAnswersUntilRestart == restarts = 0 => AnswersOwnRequest

\* Without liars no node is ever charged with wrong data, however jobs are
\* re-leased, answered late or audited twice, until a restart numbers jobs anew.
HonestFleetNotAccused ==
  restarts = 0 => \A n \in Node : reg[n].audits_hard_fail = 0

\* A fetch under way returns, or the server is stopped or restarted: lost
\* replies, dead nodes, rejected keys and expired leases only delay it.
FetchReturns ==
  \A r \in Request :
    call[r] \in {"entered", "waiting"} ~> (call[r] = "done" \/ stop)

\* Broker::shutdown "resolves every pending fetch with Err and stops accepting new
\* ones", so that "region crawlers can drain instead of hanging on fetches".
ShutdownResolvesFetches ==
  \A r \in Request :
    (shutdown /\ call[r] \in {"entered", "waiting"}) ~> call[r] = "done"
=============================================================================
