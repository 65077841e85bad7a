----------------------------- MODULE Trajectory -----------------------------
(***************************************************************************)
(* What the history simulator computes without touching a database: the    *)
(* entries of a trajectory spec (src/simulator/spec.py), the health curve  *)
(* of an entry (primitives.py), the signals of one of its weeks            *)
(* (signal_synthesis.py, synthetic/orchestrator.py), and what the          *)
(* authoring TUI (author.py) and --bootstrap (bootstrap.py) add to a spec. *)
(*                                                                         *)
(* A date is a number of days.  A seeded generator is a function of the    *)
(* seed, so a seed carries its draws: all at the high end of their ranges  *)
(* or all at the low end.  Oscillating and exponential curves are left out.*)
(***************************************************************************)
EXTENDS Integers, Sequences, FiniteSetsExt, SequencesExt

CONSTANTS
    Accounts,       \* accounts.slug of the workspace
    Null,           \* None
    Profile,        \* Profile[a]: what the accounts row and its scores say of a
    Salts,          \* PYTHONHASHSEED salts: derive_seed hashes a str per process
    Jitter,         \* Jitter[salt]: does seed % 86400 - 43200 fall a day before?
    High            \* High[salt]: which end of every range is drawn

-----------------------------------------------------------------------------
(* spec.py *)

Primitives == {"stable", "declining", "recovering", "cliff"}

Required ==
    [stable |-> {"target_band"}, declining |-> {"start_health", "end_health"},
     recovering |-> {"start_health", "end_health"},
     cliff |-> {"cliff_date", "pre_band", "post_band"}]

\* A seed stands for hash(workspace:account:start_date) in one process.
DeriveSeed(start, salt) == [start |-> start, salt |-> salt]

Seeds == [start : Int, salt : Salts]

\* TrajectoryEntry's validators: dates in order, the primitive's params present.
Validates(e) ==
    /\ e.end > e.start
    /\ e.primitive \in Primitives
    /\ Required[e.primitive] \subseteq DOMAIN e.params

Entries(spec) == UNION {ToSet(spec[a]) : a \in DOMAIN spec}

\* A spec file that load_spec accepts: valid entries, no entry id twice.
WellFormed(spec) ==
    /\ \A e \in Entries(spec) : Validates(e)
    /\ \A a, b \in DOMAIN spec : \A i \in DOMAIN spec[a], j \in DOMAIN spec[b] :
         spec[a][i].id = spec[b][j].id => a = b /\ i = j

Overlaps(e, start, end) == start <= e.end /\ e.start <= end

\* check_collision: the day after the latest overlapping entry, None if none does.
CheckCollision(entries, start, end) ==
    LET ends == {e.end : e \in {x \in ToSet(entries) : Overlaps(x, start, end)}}
    IN IF ends = {} THEN Null ELSE Max(ends) + 1

EntriesOf(spec, a) == IF spec # Null /\ a \in DOMAIN spec THEN spec[a] ELSE <<>>

\* The spec with one more entry for each account of made, a function to entries.
WithEntries(spec, made) ==
    [a \in DOMAIN made \cup (IF spec = Null THEN {} ELSE DOMAIN spec) |->
        EntriesOf(spec, a) \o (IF a \in DOMAIN made THEN <<made[a]>> ELSE <<>>)]

\* The entries that start before a date, in their order.
StartBefore(entries, date) ==
    LET kept == {i \in DOMAIN entries : entries[i].start < date}
        nth(n) == CHOOSE i \in kept : Cardinality({j \in kept : j <= i}) = n
    IN [n \in 1 .. Cardinality(kept) |-> entries[nth(n)]]

-----------------------------------------------------------------------------
(* primitives.py *)

Week == 7

\* Every started week of the entry, the short last one included.
WeekStarts(e) ==
    [w \in 1 .. (e.end - e.start) \div Week + 1 |-> e.start + (w - 1) * Week]

Weeks(e) == DOMAIN WeekStarts(e)

\* _narrative_timestamp: the last day of the week, 23:00.
WeekEnd(e, w) == WeekStarts(e)[w] + Week - 1

Clamp(v) == Max({1, Min({100, v})})

\* round(a / b): halves go to the even neighbour.
Round(a, b) ==
    LET q == a \div b  r == a % b
    IN IF 2 * r > b \/ (2 * r = b /\ q % 2 = 1) THEN q + 1 ELSE q

\* A correlated walk all of whose draws end on one side never leaves that end.
Walk(band, seed) ==
    LET low == Max({1, band[1]})  high == Max({low, Min({100, band[2]})})
    IN IF High[seed.salt] THEN high ELSE low

\* slope_shape: 0 is linear, n is cliff_at_week_n or jump_at_week_n.
Slope(p, w, n) ==
    LET at == IF "snap" \in DOMAIN p THEN p.snap ELSE 0
    IN IF n = 1 THEN p.start_health
       ELSE IF at > 0 THEN (IF w - 1 >= at THEN p.end_health ELSE p.start_health)
       ELSE Round(p.start_health * (n - 1) + (p.end_health - p.start_health) * (w - 1), n - 1)

Target(e, w) ==
    Clamp(CASE e.primitive = "stable" -> Walk(e.params.target_band, e.seed)
            [] e.primitive \in {"declining", "recovering"} ->
                 Slope(e.params, w, Len(WeekStarts(e)))
            [] e.primitive = "cliff" ->
                 Walk(IF WeekStarts(e)[w] < e.params.cliff_date THEN e.params.pre_band
                      ELSE e.params.post_band, e.seed))

-----------------------------------------------------------------------------
(* signal_synthesis.py and orchestrator.py *)

\* _BANDS: mails and product events of a week, their cadence.
Bands ==
    <<[mails |-> <<2, 4>>, events |-> <<5, 10>>, cadence |-> <<"steady", "burst">>],
      [mails |-> <<1, 3>>, events |-> <<2, 6>>, cadence |-> <<"steady", "drift">>],
      [mails |-> <<1, 2>>, events |-> <<1, 3>>, cadence |-> <<"drift", "steady">>],
      [mails |-> <<0, 2>>, events |-> <<0, 1>>, cadence |-> <<"burst", "drift">>]>>

PickBand(health) == IF health >= 75 THEN 1 ELSE IF health >= 50 THEN 2
                    ELSE IF health >= 30 THEN 3 ELSE 4

Draw(range, high) == range[IF high THEN 2 ELSE 1]

\* week_to_signal_plan and plan_to_scenario: a SignalSpec for the mails and one for
\* the product events.
Scenario(band, high) ==
    LET spec(kind, range) == [kind |-> kind, count |-> Draw(range, high),
                              cadence |-> Draw(band.cadence, high)]
    IN [mails |-> spec("inbound_email", band.mails), events |-> spec("product_event", band.events)]

\* _advance_time in whole days: a burst stays on its day, a drift doubles every
\* four signals, a steady cadence takes one to three days.
Advance(cadence, i, high) ==
    CASE cadence = "burst"  -> 0
      [] cadence = "drift"  -> LET base == 2 ^ Min({i \div 4, 3}) IN Draw(<<base, 2 * base>>, high)
      [] cadence = "steady" -> Draw(<<1, 3>>, high)

Dispatch == {"inbound_email", "json_fixture", "outbound_email", "product_event",
             "plain_ticket", "pylon_ticket", "granola_note"}

\* One SignalSpec of yield_events: acc has the clock, the index of the next
\* signal and the events so far.  A spec of no signals, which plan_to_scenario leaves
\* out, a silent one and an unknown kind yield none; the last uses up its indices.
YieldSpec(acc, s, high) ==
    IF s.count = 0 \/ s.cadence = "silence" THEN acc
    ELSE IF s.kind \notin Dispatch THEN [acc EXCEPT !.index = @ + s.count]
    ELSE LET day[i \in 0 .. s.count - 1] ==
                 IF i = 0 THEN acc.now ELSE day[i - 1] + Advance(s.cadence, i, high)
         IN [now   |-> day[s.count - 1] + Draw(<<0, 2>>, high),
             index |-> acc.index + s.count,
             out   |-> acc.out \o [i \in 1 .. s.count |->
                                     [kind |-> s.kind, index |-> acc.index + i - 1,
                                      day |-> day[i - 1]]]]

\* yield_events for a band and a draw, its days counted from the anchor.
YieldEvents ==
    [x \in (DOMAIN Bands) \X BOOLEAN |->
        LET high == x[2]
            scenario == Scenario(Bands[x[1]], high)
            mails == YieldSpec([now |-> 0, index |-> 0, out |-> <<>>], scenario.mails, high)
        IN YieldSpec(mails, scenario.events, high).out]

\* The events of a week, anchored at its start give or take half a day.
Events(e, w) ==
    LET anchor == WeekStarts(e)[w] - (IF Jitter[e.seed.salt] THEN 1 ELSE 0)
        yielded == YieldEvents[<<PickBand(Target(e, w)), High[e.seed.salt]>>]
    IN [i \in DOMAIN yielded |-> [yielded[i] EXCEPT !.day = yielded[i].day + anchor]]

\* The uuid5 of a signal's scenario name and index, as external_id or event_id.
Key(a, e, w, event) ==
    [account |-> a, seed |-> e.seed, week |-> w, kind |-> event.kind, index |-> event.index]

-----------------------------------------------------------------------------
(* bootstrap.py *)

Band2(h, d) == <<Clamp(h - d), Clamp(h + d)>>

\* _propose_entry's heuristic: a primitive and its params from the health.
Proposal(p, start, end) ==
    LET h == p.health
        falling(from) == [primitive |-> "declining",
                          params |-> [start_health |-> Clamp(from), end_health |-> Clamp(h)]]
        steady(band) == [primitive |-> "stable", params |-> [target_band |-> band]]
    IN CASE p.status = "candidate" ->
              [primitive |-> "recovering", params |-> [start_health |-> 40, end_health |-> 60]]
         [] p.status # "candidate" /\ h = Null -> steady(<<50, 70>>)
         [] p.status # "candidate" /\ h # Null ->
              IF h >= 75 THEN steady(Band2(h, 5))
              ELSE IF h >= 50 /\ p.divergence < 30 THEN steady(Band2(h, 7))
              ELSE IF h >= 50 THEN falling(h + 15)
              ELSE IF h >= 30 THEN falling(h + 25)
              ELSE [primitive |-> "cliff",
                    params |-> [cliff_date |-> start + (end - start) \div 2,
                                pre_band |-> <<55, 65>>, post_band |-> Band2(h, 5)]]

\* Mutant: continues on the day the latest entry ends, as if that were exclusive.
FromLastDay(entries, today, weeks) ==
    IF entries = <<>> THEN <<today - weeks * Week, today - 1>>
    ELSE LET next == Max({e.end : e \in ToSet(entries)})
         IN IF next > today - 1 THEN Null ELSE <<next, next + weeks * Week - 1>>

\* _resolve_dates: continue after the latest entry, skip when that covers it all.
ResolveDates(entries, today, weeks) ==
    IF entries = <<>> THEN <<today - weeks * Week, today - 1>>
    ELSE LET next == Max({e.end : e \in ToSet(entries)}) + 1
         IN IF next > today - 1 THEN Null ELSE <<next, next + weeks * Week - 1>>

\* Accounts bootstrap_workspace proposes for: neither deleted nor a pseudo-account.
Eligible == {a \in Accounts : ~Profile[a].deleted /\ ~Profile[a].system}

\* The entry --bootstrap proposes for account a under identity id, or None.
Proposed(a, entries, id, today, weeks, salt) ==
    LET dates == ResolveDates(entries, today, weeks)
        shape == Proposal(Profile[a], dates[1], dates[2])
        clash == CheckCollision(entries, dates[1], dates[2])
    IN IF dates = Null \/ (clash # Null /\ clash > dates[2]) THEN Null
       ELSE [id |-> id, start |-> dates[1], end |-> dates[2], primitive |-> shape.primitive,
             params |-> shape.params, seed |-> DeriveSeed(dates[1], salt), done |-> FALSE]

-----------------------------------------------------------------------------
(* author.py *)

\* load_workspace_accounts: pseudo-accounts are offered, deleted ones are not.
Offered == {a \in Accounts : ~Profile[a].deleted}

\* _next_available_start: after the latest entry of any account, else today.
NextAvailableStart(spec, today) ==
    IF spec = Null \/ Entries(spec) = {} THEN today ELSE Max({e.end : e \in Entries(spec)}) + 1

\* Params the TUI takes: a decline typed upwards is turned round, so is a recovery.
Typed(shape) ==
    LET p == shape.params
        low == Min({p.start_health, p.end_health})  high == Max({p.start_health, p.end_health})
    IN CASE shape.primitive = "declining" ->
              [p EXCEPT !.start_health = Clamp(high), !.end_health = Clamp(low)]
         [] shape.primitive = "recovering" ->
              [p EXCEPT !.start_health = Clamp(low), !.end_health = Clamp(high)]
         [] shape.primitive = "stable" ->
              [p EXCEPT !.target_band = <<Clamp(@[1]), Clamp(@[2])>>]
         [] shape.primitive = "cliff" ->
              [p EXCEPT !.pre_band = <<Clamp(@[1]), Clamp(@[2])>>,
                        !.post_band = <<Clamp(@[1]), Clamp(@[2])>>]

\* The entry assembled at the end of a session: the override's dates, if any, but
\* always the seed of the range asked for first.
Authored(id, shape, asked, dates, salt) ==
    [id |-> id, start |-> dates[1], end |-> dates[2], primitive |-> shape.primitive,
     params |-> Typed(shape), seed |-> DeriveSeed(asked[1], salt), done |-> FALSE]
=============================================================================
