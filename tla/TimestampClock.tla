--------------------------- MODULE TimestampClock ---------------------------
(* The sender's timestamps: clock::TimestampClock, which resolves a frame's    *)
(* timestamp.  AUTO_TIMESTAMP asks for the next one on a presentation timeline *)
(* that is paced against the wall clock: it skips when it has fallen behind    *)
(* and sleeps when it is ahead.  Time is in abstract ticks, and goes on while  *)
(* resolve runs; the Sender calls it under a lock, so calls do not overlap.    *)
EXTENDS Integers

CONSTANTS
    Audio,          \* the clock is the audio clock
    Formats,        \* rates: what a change of resets the clock
    Lengths,        \* frame durations in ticks, -1 when a frame does not say
    Default,        \* TICKS_PER_SECOND / 60
    Manual,         \* timestamps callers supply themselves
    MaxWall         \* bound: ticks of the wall clock

ASSUME ClockAssumption ==
    /\ Audio \in BOOLEAN
    /\ Lengths \subseteq Nat \cup {-1} /\ Default \in Nat \ {0}
    /\ Manual \subseteq Int \ {-1} /\ MaxWall \in Nat
    /\ "none" \notin Formats

VARIABLES
    wall,           \* the wall clock
    format, interval, start, clock_ts,      \* the fields of the clock,
    known, last,    \* where known says whether last is Some
    pc,             \* resolve: "idle", "skip" or "pace"
    step, timestamp, diff,                  \* its locals
    called,         \* history: when the frame in progress was submitted,
    base            \* and the timestamp the timeline's origin stands for

vars == <<wall, format, interval, start, clock_ts, known, last, pc, step, timestamp, diff,
          called, base>>

locals == <<step, timestamp, diff, called>>
NoLocals == step' = 0 /\ timestamp' = 0 /\ diff' = 0 /\ called' = 0

Elapsed == wall - start

Init ==
    /\ wall = 0
    /\ format = "none" /\ interval = -1
    /\ start = 0 /\ clock_ts = 0
    /\ known = FALSE /\ last = 0
    /\ pc = "idle"
    /\ step = 0 /\ timestamp = 0 /\ diff = 0
    /\ called = 0 /\ base = 0

Tick ==
    /\ wall < MaxWall
    /\ wall' = wall + 1
    /\ UNCHANGED <<format, interval, start, clock_ts, known, last, pc, locals, base>>

-----------------------------------------------------------------------------
\* What reset takes for the frame interval (a duration may round down to 0).
IntervalOf(len) == IF len >= 0 THEN len ELSE Default

\* reset, but for last, which every caller of reset sets.
Restart(f, len) ==
    /\ format' = f
    /\ interval' = IntervalOf(len)
    /\ start' = wall
    /\ clock_ts' = 0

\* Mutant of StepOf: an interval that rounds to 0 ticks is taken as it is.
MutNoFloor(i) == i

\* interval.max(1): the timeline moves with every frame.
StepOf(i) == IF i > 1 THEN i ELSE 1

\* resolve of a timestamp the caller supplies.
ResolveManual(f, len, ts) ==
    /\ pc = "idle"
    /\ IF f # format THEN Restart(f, len) ELSE UNCHANGED <<format, interval, start, clock_ts>>
    /\ known' = TRUE /\ last' = ts
    /\ base' = ts - clock_ts'
    /\ UNCHANGED <<wall, pc, locals>>

\* resolve of AUTO_TIMESTAMP for the first frame of the clock or of a format.
ResolveFirst(f, len) ==
    /\ pc = "idle"
    /\ f # format \/ ~known
    /\ Restart(f, len)
    /\ known' = TRUE /\ last' = 0
    /\ base' = 0
    /\ UNCHANGED <<wall, pc, locals>>

\* resolve of AUTO_TIMESTAMP for a later frame, up to the loops.  The audio clock
\* takes the interval of each frame, the video clock keeps the format's.
ResolveNext(f, len) ==
    /\ pc = "idle"
    /\ f = format /\ known
    /\ interval' = IF Audio /\ len >= 0 THEN len ELSE interval
    /\ step' = StepOf(interval')
    /\ timestamp' = last + step'
    /\ clock_ts' = clock_ts + step'
    /\ diff' = clock_ts' - Elapsed
    /\ called' = wall
    /\ pc' = "skip"
    /\ UNCHANGED <<wall, format, start, known, last, base>>

\* Mutant of Skip: the timestamp is moved on, the timeline is not.
MutSkipStampOnly ==
    /\ pc = "skip" /\ diff < -step
    /\ timestamp' = timestamp + step
    /\ diff' = diff + step
    /\ UNCHANGED <<wall, format, interval, start, clock_ts, known, last, pc, step, called, base>>

\* One turn of the loop that skips intervals.
Skip ==
    /\ pc = "skip" /\ diff < -step
    /\ timestamp' = timestamp + step
    /\ clock_ts' = clock_ts + step
    /\ diff' = diff + step
    /\ UNCHANGED <<wall, format, interval, start, known, last, pc, step, called, base>>

\* Mutant of SkipDone: one interval too many is let pass.
MutSkipTooLittle ==
    /\ pc = "skip" /\ diff >= -2 * step
    /\ pc' = "pace"
    /\ UNCHANGED <<wall, format, interval, start, clock_ts, known, last, locals, base>>

SkipDone ==
    /\ pc = "skip" /\ ~(diff < -step)
    /\ pc' = "pace"
    /\ UNCHANGED <<wall, format, interval, start, clock_ts, known, last, locals, base>>

\* Mutant of Due: the timestamp handed out is not remembered.
MutForgetLast ==
    /\ pc = "pace" /\ clock_ts <= Elapsed
    /\ pc' = "idle" /\ NoLocals
    /\ UNCHANGED <<wall, format, interval, start, clock_ts, known, last, base>>

\* The loop that sleeps ends when the frame is due, and resolve returns.
Due ==
    /\ pc = "pace" /\ clock_ts <= Elapsed
    /\ last' = timestamp
    /\ pc' = "idle" /\ NoLocals
    /\ UNCHANGED <<wall, format, interval, start, clock_ts, known, base>>

Finished == wall = MaxWall /\ UNCHANGED vars

Next ==
    \/ Tick
    \/ \E f \in Formats, len \in Lengths :
          \/ \E ts \in Manual : ResolveManual(f, len, ts)
          \/ ResolveFirst(f, len)
          \/ ResolveNext(f, len)
    \/ Skip \/ SkipDone \/ Due
    \/ Finished

Spec == Init /\ [][Next]_vars

-----------------------------------------------------------------------------
\* Types; while resolve runs, the interval it steps by is positive.
TypeOK ==
    /\ wall \in 0..MaxWall /\ start \in 0..MaxWall /\ start <= wall
    /\ format \in Formats \cup {"none"} /\ interval \in Nat \cup {-1}
    /\ clock_ts \in Nat /\ last \in Int /\ timestamp \in Int /\ diff \in Int
    /\ known \in BOOLEAN /\ called \in 0..wall /\ base \in Int
    /\ pc \in {"idle", "skip", "pace"} /\ step \in Nat
    /\ pc # "idle" => step > 0 /\ known /\ start <= called

\* Between calls the timeline is not ahead of the wall clock, and the timestamp
\* handed out last is the timeline's position counted from its origin: 0, or what
\* the last supplied timestamp makes it.  So automatic timestamps that began at 0
\* never exceed the time since then, however calls, skips and sleeps fell.
NeverEarly ==
    pc = "idle" => /\ clock_ts <= Elapsed
                   /\ known => last = base + clock_ts

\* A late frame is made up for at once: past the skipping loop the timeline is at
\* most one interval behind the time at which the frame was submitted.
CaughtUp == pc = "pace" => start + clock_ts >= called - step

\* While the format stays, every automatic timestamp is at least one interval
\* after the timestamp before it, a supplied one included.
AutoAdvances ==
    [][(pc = "pace" /\ pc' = "idle") => last' >= last + step]_vars
=============================================================================
