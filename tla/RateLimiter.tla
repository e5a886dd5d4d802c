----------------------------- MODULE RateLimiter -----------------------------
(***************************************************************************)
(* A sliding-window rate limiter (crates/node/src/ratelimit.rs), as a      *)
(* record and the operators on it.  Time is in ticks and relative: of a    *)
(* send the limiter keeps its age, of a cooldown or a paced slot the time  *)
(* left, so that the model needs no clock that runs away.                  *)
(***************************************************************************)
EXTENDS Integers, Sequences, FiniteSetsExt

\* WindowSpec
Spec(limit, window) == [limit |-> limit, window |-> window]

\* The widest window of specs; 0 where there is none.
MaxWindow(specs) == Max({0} \cup {specs[k].window : k \in DOMAIN specs})

\* sent: the ages of recent sends, the oldest first; cool: time left of the
\* cooldown; slot: time to the next paced slot.
NewLimiter(specs, pace) ==
  [specs |-> specs, sent |-> <<>>, cool |-> 0, slot |-> 0, pace |-> pace]

\* update_specs: an empty or unparseable header changes nothing.
UpdateSpecs(l, specs) == IF specs = <<>> THEN l ELSE [l EXCEPT !.specs = specs]

\* cooldown: a shorter one does not replace a longer one.
Cooldown(l, time) == [l EXCEPT !.cool = Max({@, time})]

\* The number of sends that the limiter counts into a window: from the newest back to
\* the first that is too old.
InWindow(ages, window) ==
  Cardinality({k \in DOMAIN ages : \A i \in k .. Len(ages) : ages[i] < window})

\* pop_front as long as the oldest age is behind the window.
Expired(ages, window) == {k \in DOMAIN ages : \A i \in 1 .. k : ages[i] >= window}
Recent(ages, window) == SubSeq(ages, Cardinality(Expired(ages, window)) + 1, Len(ages))

\* Faulty variant: sends are forgotten behind the first window.
PrunedByFirst(l) == [l EXCEPT !.sent = Recent(@, l.specs[1].window)]

\* Sends behind the widest window are dropped.
Pruned(l) == [l EXCEPT !.sent = Recent(@, MaxWindow(l.specs))]

\* Whether acquire, now, would reserve a slot rather than sleep.
MayAcquire(l) ==
  /\ l.cool = 0
  /\ l.pace => l.slot = 0
  /\ \A k \in DOMAIN l.specs :
       InWindow(Pruned(l).sent, l.specs[k].window) < l.specs[k].limit

\* The gaps a paced limiter may choose: base * 0.35 to base * 1.65, where base is
\* window / limit of the tightest window.
Gaps(l) ==
  LET Gap(percent) == Max({(percent * s.window) \div (100 * Max({s.limit, 1})) : s \in Range(l.specs)})
  IN  IF l.pace THEN Gap(35) .. Gap(165) ELSE {0}

\* The slot is reserved.
Acquired(l, gap) == [Pruned(l) EXCEPT !.sent = Append(@, 0), !.slot = gap]

\* A tick of time.  Ages are not told apart from Horizon on.
Aged(ages, Horizon) == [k \in DOMAIN ages |-> Min({ages[k] + 1, Horizon})]
Later(l, Horizon) ==
  [l EXCEPT !.sent = Aged(@, Horizon), !.cool = Max({0, @ - 1}), !.slot = Max({0, @ - 1})]
=============================================================================
