------------------------------ MODULE NodeAgent ------------------------------
(***************************************************************************)
(* One node from the inside: the poll loop and its pause on a rejected key *)
(* (crates/node/src/worker.rs), the tasks that execute jobs against the    *)
(* Riot API (executor.rs) and the two rate limiters every request passes,  *)
(* the method's and then the host's (ratelimit.rs).  One host, one method. *)
(*                                                                         *)
(* A task waits at a limiter, sends with the key of that moment, and gets  *)
(* its answer later; meanwhile the owner may save another key, the loop    *)
(* may load it, and other tasks may change the limits.  How long a task    *)
(* sleeps before it tries a limiter again is left open: a try that comes   *)
(* too early waits again.                                                  *)
(***************************************************************************)
EXTENDS RateLimiter

CONSTANTS
  Job,            \* the jobs handed to the node, each once
  Key,            \* Riot API keys
  Lasting,        \* keys that do not expire
  FirstKey,       \* the key in the config file at the start
  DefaultSpecs,   \* RL_DEFAULT_WINDOWS
  Headers,        \* Headers[l]: the windows the header of layer l may declare
  RetryAfter,     \* ticks of a 429's cooldown
  MAX_TRIES,      \* tries of a job that meets errors
  MaxSaves,       \* bound: saves of the key file begin up to this time of it
  MaxThrottles    \* bound: 429 answers

Layer == {"app", "method"}
Windows == {DefaultSpecs} \cup UNION {Headers[l] : l \in Layer}

ASSUME NodeAgentAssumption ==
  /\ FirstKey \in Key
  /\ Lasting \subseteq Key
  /\ DOMAIN Headers = Layer
  /\ IsFiniteSet(Windows)
  /\ \A specs \in Windows : specs \in Seq([limit : Nat \ {0}, window : Nat \ {0}])
  /\ RetryAfter \in Nat
  /\ MAX_TRIES \in Nat \ {0}
  /\ MaxSaves \in Nat
  /\ MaxThrottles \in Nat

Horizon == Max({MaxWindow(s) : s \in Windows})

VARIABLES
  limiter,    \* limiter["app"], limiter["method"]
  grants,     \* grants[l]: the age of every slot limiter l gave under its windows
  job,        \* job[j]: where the task of j is
  loop,       \* where the poll loop is: "top", "poll" or "paused"
  api_key, key_bad, key_mtime,
  file,       \* the config file: its key, whether it parses, its modification time
  throttles

limits == <<limiter, grants>>
keys == <<api_key, key_bad, key_mtime>>
nvars == <<limits, job, loop, keys, file, throttles>>

\* key: the key a request under way was sent with.
Task(at, attempts) == [at |-> at, attempts |-> attempts, key |-> FirstKey]
Done == Task("done", 0)

NodeInit ==
  /\ limiter = [l \in Layer |-> NewLimiter(DefaultSpecs, l = "app")]
  /\ grants = [l \in Layer |-> <<>>]
  /\ job = [j \in Job |-> Task("new", 0)]
  /\ loop = "top"
  /\ api_key = FirstKey
  /\ key_bad = FALSE
  /\ key_mtime = 0
  /\ file = [key |-> FirstKey, whole |-> TRUE, mtime |-> 0]
  /\ throttles = 0

-----------------------------------------------------------------------------
(* The poll loop *)

\* Top of the loop: a rejected key pauses it, else it asks for work.
LoopTop ==
  /\ loop = "top"
  /\ loop' = IF key_bad THEN "paused" ELSE "poll"
  /\ UNCHANGED <<limits, job, keys, file, throttles>>

\* The server answers with jobs (none of them, where J is empty), and a task is
\* spawned for each.
PollAnswered(J) ==
  /\ loop = "poll"
  /\ \A j \in J : job[j].at = "new"
  /\ job' = [j \in Job |-> IF j \in J THEN Task("method", 1) ELSE job[j]]
  /\ loop' = "top"
  /\ UNCHANGED <<limits, keys, file, throttles>>

\* Faulty variant: the flag outlives the rejected key.
PauseKeepsFlag ==
  /\ loop = "paused"
  /\ loop' = "top"
  /\ key_mtime' = file.mtime
  /\ api_key' = IF file.whole THEN file.key ELSE api_key
  /\ UNCHANGED <<limits, job, key_bad, file, throttles>>

\* Paused, and 15 s have passed or a frontend saved a key: a config file whose
\* time has changed is loaded, and its key replaces the rejected one.
PauseLooks ==
  /\ loop = "paused"
  /\ loop' = "top"
  /\ IF file.mtime = key_mtime THEN UNCHANGED keys
     ELSE /\ key_mtime' = file.mtime
          /\ api_key' = IF file.whole THEN file.key ELSE api_key
          /\ key_bad' = IF file.whole THEN FALSE ELSE key_bad
  /\ UNCHANGED <<limits, job, file, throttles>>

-----------------------------------------------------------------------------
(* Tasks *)

\* acquire on limiter l succeeds.
Acquire(l, gap) ==
  /\ MayAcquire(limiter[l])
  /\ limiter' = [limiter EXCEPT ![l] = Acquired(@, gap)]
  /\ grants' = [grants EXCEPT ![l] = Append(Recent(@, Horizon), 0)]

\* The method limiter first.
AcquireMethod(j) ==
  /\ job[j].at = "method"
  /\ \E gap \in Gaps(limiter["method"]) : Acquire("method", gap)
  /\ job' = [job EXCEPT ![j].at = "app"]
  /\ UNCHANGED <<loop, keys, file, throttles>>

\* Then the host's; the request goes out with the key of the moment.
AcquireAppAndSend(j) ==
  /\ job[j].at = "app"
  /\ \E gap \in Gaps(limiter["app"]) : Acquire("app", gap)
  /\ job' = [job EXCEPT ![j].at = "sent", ![j].key = api_key]
  /\ UNCHANGED <<loop, keys, file, throttles>>

\* Limits after an answer whose headers declare windows specs[l].
Adopted(specs) == [l \in Layer |-> UpdateSpecs(limiter[l], specs[l])]
GrantsUnder(lims) == [l \in Layer |-> IF lims[l].specs = limiter[l].specs THEN grants[l] ELSE <<>>]

\* Success, 404, an unexpected status or a body that breaks off: the job is done.
AnswerEnds(j, specs) ==
  /\ job[j].at = "sent"
  /\ limiter' = Adopted(specs)
  /\ grants' = GrantsUnder(Adopted(specs))
  /\ job' = [job EXCEPT ![j] = Done]
  /\ UNCHANGED <<loop, keys, file, throttles>>

\* 429: the layer that tripped cools down and the job starts over, at no charge.
AnswerThrottled(j, specs, l) ==
  /\ job[j].at = "sent"
  /\ throttles < MaxThrottles
  /\ throttles' = throttles + 1
  /\ limiter' = [Adopted(specs) EXCEPT ![l] = Cooldown(@, RetryAfter)]
  /\ grants' = GrantsUnder(Adopted(specs))
  /\ job' = [job EXCEPT ![j] = Task("method", @.attempts)]
  /\ UNCHANGED <<loop, keys, file>>

\* 401 or 403, once a key has expired: the key is bad and the job is handed back.
AnswerKeyRejected(j, specs) ==
  /\ job[j].at = "sent"
  /\ job[j].key \notin Lasting
  /\ limiter' = Adopted(specs)
  /\ grants' = GrantsUnder(Adopted(specs))
  /\ key_bad' = TRUE
  /\ job' = [job EXCEPT ![j] = Done]
  /\ UNCHANGED <<loop, api_key, key_mtime, file, throttles>>

\* Faulty variant: errors are not counted.
AnswerFailedUncounted(j, specs) ==
  /\ job[j].at = "sent"
  /\ limiter' = Adopted(specs)
  /\ grants' = GrantsUnder(Adopted(specs))
  /\ job' = [job EXCEPT ![j] = Task("method", @.attempts)]
  /\ UNCHANGED <<loop, keys, file, throttles>>

\* Faulty variant: one try too many.
AnswerFailedOnceMore(j, specs) ==
  /\ job[j].at = "sent"
  /\ limiter' = Adopted(specs)
  /\ grants' = GrantsUnder(Adopted(specs))
  /\ job' = [job EXCEPT ![j] = IF @.attempts > MAX_TRIES THEN Done
                               ELSE Task("method", @.attempts + 1)]
  /\ UNCHANGED <<loop, keys, file, throttles>>

\* A 5xx, or no answer at all (then no headers either): tried again after a
\* pause, MAX_TRIES times in all.
AnswerFailed(j, specs) ==
  /\ job[j].at = "sent"
  /\ limiter' = Adopted(specs)
  /\ grants' = GrantsUnder(Adopted(specs))
  /\ job' = [job EXCEPT ![j] = IF @.attempts >= MAX_TRIES THEN Done
                               ELSE Task("method", @.attempts + 1)]
  /\ UNCHANGED <<loop, keys, file, throttles>>

\* What the headers of an answer may declare per layer; <<>> where there is none.
Declared == {d \in [Layer -> Windows \cup {<<>>}] : \A l \in Layer : d[l] \in Headers[l] \cup {<<>>}}

-----------------------------------------------------------------------------
(* The owner, Riot and time *)

\* The config file is written in place: it is empty for a moment, and modified twice,
\* the second time perhaps within the granularity of modification times.
SaveBegins ==
  /\ file.whole
  /\ file.mtime < MaxSaves
  /\ file' = [file EXCEPT !.whole = FALSE, !.mtime = @ + 1]
  /\ UNCHANGED <<limits, job, loop, keys, throttles>>

SaveEnds(k) ==
  /\ ~file.whole
  /\ \E later \in {0, 1} : file' = [key |-> k, whole |-> TRUE, mtime |-> file.mtime + later]
  /\ UNCHANGED <<limits, job, loop, keys, throttles>>

Tick ==
  /\ limiter' = [l \in Layer |-> Later(limiter[l], Horizon)]
  /\ grants' = [l \in Layer |-> Recent(Aged(grants[l], Horizon), Horizon)]
  /\ UNCHANGED <<job, loop, keys, file, throttles>>

-----------------------------------------------------------------------------
Answer(j) ==
  \E specs \in Declared :
    \/ AnswerEnds(j, specs)
    \/ \E l \in Layer : AnswerThrottled(j, specs, l)
    \/ AnswerKeyRejected(j, specs)
    \/ AnswerFailed(j, specs)

TaskStep(j) == AcquireMethod(j) \/ AcquireAppAndSend(j) \/ Answer(j)

NodeNext ==
  \/ LoopTop
  \/ \E J \in SUBSET Job : PollAnswered(J)
  \/ PauseLooks
  \/ \E j \in Job : TaskStep(j)
  \/ SaveBegins
  \/ \E k \in Key : SaveEnds(k)
  \/ Tick

\* Time passes, the loop and the tasks go on, Riot answers or the request times
\* out, and a file that is being written gets written.
NodeSpec ==
  /\ NodeInit
  /\ [][NodeNext]_nvars
  /\ WF_nvars(Tick)
  /\ WF_nvars(LoopTop \/ PollAnswered({}) \/ PauseLooks)
  /\ \A j \in Job : WF_nvars(TaskStep(j))
  /\ WF_nvars(\E k \in Key : SaveEnds(k))

-----------------------------------------------------------------------------
(* Properties *)

\* Types; no job is tried more than MAX_TRIES times.
NodeTypeOK ==
  /\ \A l \in Layer :
       /\ limiter[l].specs \in Windows
       /\ limiter[l].sent \in Seq(0 .. Horizon)
       /\ limiter[l].cool \in 0 .. RetryAfter
  /\ \A j \in Job : job[j] \in [at : {"new", "method", "app", "sent", "done"},
                                attempts : 0 .. MAX_TRIES, key : Key]
  /\ loop \in {"top", "poll", "paused"}
  /\ api_key \in Key /\ key_bad \in BOOLEAN

\* The slots given less than window ticks ago.
Given(ages, window) == Cardinality({k \in DOMAIN ages : ages[k] < window})

\* In no window does a limiter give more slots than the window's limit, counted
\* over all slots it gave since the windows are in force and not over those it
\* remembers, however many tasks contend for it.  (Requests pass the host's
\* limiter right before they go out; those of one method may bunch up behind it.)
SlotsWithinBudget ==
  \A l \in Layer : \A k \in DOMAIN limiter[l].specs :
    Given(grants[l], limiter[l].specs[k].window) <= limiter[l].specs[k].limit

\* A job the node holds ends, through errors, throttling and changes of the
\* limits, as long as Riot throttles finitely often and no endless stream of
\* later jobs gets in ahead of it.
JobEnds == \A j \in Job : job[j].at = "method" ~> job[j].at = "done"

\* "Update it with: crawler-node set-key - then work resumes automatically": a paused
\* node takes up the key of a file whose modification time it has not recorded yet,
\* whatever late rejections and half-written files it meets before, unless the file is
\* being written once more.  Of a file whose time is recorded already nothing is
\* promised, and there the message is wrong: the flag is set again by an answer to a
\* request sent with the old key (executor.rs:118), or the file was read while it was
\* empty and got its content within the granularity of its time (worker.rs:223).
KeyPauseEnds ==
  (key_bad /\ file.whole /\ file.mtime # key_mtime) ~>
    ((~key_bad /\ api_key = file.key) \/ ~file.whole)
=============================================================================
