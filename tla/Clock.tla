------------------------------- MODULE Clock -------------------------------
(***************************************************************************)
(* The chess clock of clock.cc as values.  A Clock object is a record;     *)
(* every method that changes it is an operator from the old record to the *)
(* new one.  Times are milliseconds (Clock::val_t).  The wall clock is    *)
(* abstracted: start_time and stop_time are not kept, and the time that   *)
(* passed while a clock ran is the argument of Stop.                      *)
(***************************************************************************)
EXTENDS Integers

Modes == {"NONE", "CONV", "INCR", "SUDDENDEATH", "EXACT"}

FromS(s) == s * 1000     \* Clock::from_s
FromCs(cs) == cs * 10    \* Clock::from_cs

\* Clock::Clock(): no time control.  remaining_time, remaining_moves and
\* the base values are left uninitialised by the constructors of NONE and
\* EXACT; they are never read in these modes except by
\* set_remaining_time(), whose lost_time is then never used, so they are
\* given the value 0.
ClockNone ==
    [mode |-> "NONE", running |-> FALSE, limit |-> 0, hard |-> 0,
     rem |-> 0, rmoves |-> 0, base |-> 0, bmoves |-> 0, inc |-> 0,
     over |-> 0, lost |-> 0]

\* Clock::Clock(secs): a fixed time per move.
ClockExact(secs) ==
    [ClockNone EXCEPT !.mode = "EXACT", !.limit = FromS(secs),
                      !.hard = FromS(secs)]

\* Clock::Clock(moves, base_secs, inc_secs); the caller guarantees
\* base_secs > 0 (ASSERT).
ClockLevel(moves, bsecs, isecs) ==
    [ClockNone EXCEPT
        !.mode = CASE moves = 0 /\ isecs = 0 -> "SUDDENDEATH"
                   [] isecs = 0 -> "CONV"
                   [] OTHER -> "INCR",
        !.base = FromS(bsecs), !.bmoves = moves, !.inc = FromS(isecs),
        !.rem = FromS(bsecs), !.rmoves = moves]

\* Clock::start()
Start(c) == [c EXCEPT !.running = TRUE]

\* Clock::update_remaining(elapsed)
UpdateRemaining(c, e) ==
    CASE c.mode = "CONV" ->
            IF c.rmoves - 1 = 0
            THEN [c EXCEPT !.rem = c.rem - e + c.base, !.rmoves = c.bmoves]
            ELSE [c EXCEPT !.rem = c.rem - e, !.rmoves = c.rmoves - 1]
      [] c.mode = "INCR" -> [c EXCEPT !.rem = c.rem - e + c.inc]
      [] c.mode = "SUDDENDEATH" -> [c EXCEPT !.rem = c.rem - e]
      [] OTHER -> c

\* Clock::stop(), e milliseconds after the clock was started (or turned
\* back): the remaining time is charged and the overshoot of the limit is
\* kept for the next allocation.
Stop(c, e) ==
    IF ~c.running THEN c
    ELSE [UpdateRemaining(c, e) EXCEPT
            !.running = FALSE,
            !.over = IF c.mode # "NONE" /\ e > c.limit THEN e - c.limit ELSE 0]

\* Clock::turn_back(): forget the delays (and restart the running clock,
\* which the abstraction of the wall clock makes invisible).
TurnBack(c) == [c EXCEPT !.over = 0, !.lost = 0]

\* Clock::allocate_time()
AllocateTime(c) ==
    IF c.mode \in {"NONE", "EXACT"} THEN c
    ELSE LET safe == c.rem - 2 * c.lost - FromS(1)
             tmp == CASE c.mode = "CONV" -> safe \div c.rmoves
                      [] c.mode = "INCR" -> safe \div 20 + c.inc
                      [] OTHER -> safe \div 40
             lim == IF tmp < 2 * c.over THEN 0 ELSE tmp - 2 * c.over
         IN IF safe <= 0 THEN [c EXCEPT !.limit = 0, !.hard = 0]
            ELSE IF 2 * lim > safe THEN [c EXCEPT !.limit = safe, !.hard = safe]
            ELSE [c EXCEPT !.limit = lim, !.hard = 2 * lim]

\* Clock::allocate_more_time(t); it returns FALSE in NONE and EXACT mode.
CanAllocateMore(c) == c.mode \notin {"NONE", "EXACT"}
\* Mutant: the limit is raised past the hard limit.
AllocateMoreTime_uncapped(c, t) ==
    IF ~CanAllocateMore(c) THEN c ELSE [c EXCEPT !.limit = c.limit + t]
AllocateMoreTime(c, t) ==
    IF ~CanAllocateMore(c) THEN c
    ELSE [c EXCEPT !.limit = IF c.limit + t > c.hard THEN c.hard
                             ELSE c.limit + t]

\* Mutant: lost_time is the difference also when the report is larger.
SetRemainingTime_signed(c, t) == [c EXCEPT !.lost = c.rem - t, !.rem = t]
\* Clock::set_remaining_time(t)
SetRemainingTime(c, t) ==
    [c EXCEPT !.lost = IF t < c.rem THEN c.rem - t ELSE 0, !.rem = t]
=============================================================================
