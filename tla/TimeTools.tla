------------------------------ MODULE TimeTools ------------------------------
(***************************************************************************)
(* The date and time operations of text-tools (operations_datetime.py):    *)
(* durations as people and as ISO 8601 write them, and moments in zones     *)
(* whose offset changes.  The zone database and the arithmetic of aware     *)
(* datetimes are Python's; what they do is modelled.                        *)
(***************************************************************************)
EXTENDS Integers, Sequences, SequencesExt

VARIABLE asked      \* what is asked

-----------------------------------------------------------------------------
(* Durations: whole seconds and whether a fraction of one follows; how many *)
(* of its digits are printed is left out.                                   *)

Unit == <<"d", "h", "m", "s">>
Size == [d |-> 86400, h |-> 3600, m |-> 60, s |-> 1]

\* humanize_seconds: as many units as asked for, of those that are not zero; the fraction
\* is printed alone.
TakeUnit(state, u) ==
    IF state.left >= Size[u] /\ Len(state.pieces) < state.parts
    THEN [state EXCEPT !.pieces = Append(@, [n |-> state.left \div Size[u], unit |-> u, frac |-> FALSE]),
                       !.left = @ % Size[u]]
    ELSE state
Humanize(t, parts) ==
    IF t.whole = 0 THEN <<[n |-> 0, unit |-> "s", frac |-> t.frac]>>
    ELSE FoldLeft(TakeUnit, [left |-> t.whole, parts |-> parts, pieces |-> <<>>], Unit).pieces

\* duration_parse: the sum of the components, in any order.
ParseDuration(pieces) ==
    [whole |-> FoldLeft(LAMBDA sum, p : sum + p.n * Size[p.unit], 0, pieces),
     frac  |-> \E p \in Range(pieces) : p.frac]

\* iso_duration: the parts that are printed.  Seconds also stand for nothing at all.
IsoDuration(t) ==
    LET days == t.whole \div Size.d
        hours == (t.whole % Size.d) \div Size.h
        minutes == (t.whole % Size.h) \div Size.m
        secs == t.whole % Size.m
        part(n, u) == IF n = 0 THEN <<>> ELSE <<[n |-> n, unit |-> u, frac |-> FALSE]>>
    IN  part(days, "d") \o part(hours, "h") \o part(minutes, "m")
        \o (IF secs # 0 \/ t.frac \/ (days = 0 /\ hours = 0 /\ minutes = 0)
            THEN <<[n |-> secs, unit |-> "s", frac |-> t.frac]>> ELSE <<>>)

Around(S) == {n + k : n \in S, k \in -2..2} \cap Nat
Durations == [whole : Around({0, 60, 3600, 3660, 86400, 90000, 90060, 172800, 7 * 86400}), frac : BOOLEAN]

-----------------------------------------------------------------------------
(* Moments.  Hours since an epoch; a zone is put forward at `Spring` and    *)
(* back at `Autumn`.                                                        *)

Spring == 6
Autumn == 14
Zones == {"UTC", "east", "west"}
Standard == [z \in Zones |-> CASE z = "east" -> 1 [] z = "west" -> -3 [] OTHER -> 0]
Summer(z, t) == z # "UTC" /\ t \in Spring..(Autumn - 1)
OffsetAt(z, t) == IF Summer(z, t) THEN Standard[z] + 1 ELSE Standard[z]

\* A datetime with its zone: an hour the clock shows twice has two folds.
Moment(wall, z, fold) == [wall |-> wall, zone |-> z, fold |-> fold]
Readings(z, wall) == {t \in (wall - 4)..(wall + 4) : t + OffsetAt(z, t) = wall}

\* utcoffset().  An hour the clock skips has the offset of before, or with a fold of after.
Instant(m) ==
    LET ts == Readings(m.zone, m.wall)
    IN  IF ts # {} THEN (IF m.fold = 1 THEN Max(ts) ELSE Min(ts))
        ELSE m.wall - (IF m.fold = 1 THEN Standard[m.zone] + 1 ELSE Standard[m.zone])
Skipped(m) == Readings(m.zone, m.wall) = {}

\* astimezone().
Local(t, z) ==
    LET wall == t + OffsetAt(z, t)
    IN  Moment(wall, z, IF t > Min(Readings(z, wall)) THEN 1 ELSE 0)

\* with_zone: a text without an offset is in the assumed zone, and says nothing of folds.
WithZone(wall, z) == Moment(wall, z, 0)

\* format and convert_timezone.
Convert(m, z) == Local(Instant(m), z)

\* difference: two datetimes of one zone are subtracted as the clock shows them.
Difference(left, right) ==
    IF left.zone = right.zone THEN right.wall - left.wall
    ELSE Instant(right) - Instant(left)

\* What a caller may ask about.  Both moments of a difference are in the zone it assumes,
\* unless their text has an offset (UTC stands for those).
Moments == {WithZone(wall, z) : wall \in 0..20, z \in Zones}
Others(m) == IF m.zone = "UTC" THEN Moments ELSE {n \in Moments : n.zone \in {m.zone, "UTC"}}

-----------------------------------------------------------------------------
Init == asked = [op |-> "none"]
AskDuration == asked.op = "none" /\ \E t \in Durations : asked' = [op |-> "duration", of |-> t]
AskMoment   == asked.op = "none" /\ \E m \in Moments : asked' = [op |-> "moment", of |-> m]
Next == AskDuration \/ AskMoment
Spec == Init /\ [][Next]_asked

\* What a duration is written as is read as that duration: by duration_parse what
\* duration_humanize prints in full (without the fraction of more than a second), and what
\* it prints in part is less than one of the last unit short.  The ISO form loses nothing.
DurationsSurvive ==
    asked.op = "duration" =>
        LET t == asked.of
            value(pieces) == ParseDuration(pieces)
        IN  /\ value(IsoDuration(t)) = t /\ IsoDuration(t) # <<>>
            /\ value(Humanize(t, 4)) = IF t.whole = 0 THEN t ELSE [t EXCEPT !.frac = FALSE]
            /\ \A n \in 1..3 :
                   LET short == Humanize(t, n)
                   IN  /\ Len(short) <= n
                       /\ t.whole - value(short).whole \in 0..(Size[Last(short).unit] - 1)

\* A conversion names the same instant, and back again it is the same reading, unless the
\* clock skipped it.
ConversionKeepsInstant ==
    asked.op = "moment" =>
        \A z \in Zones :
            LET m == asked.of
            IN  /\ Instant(Convert(m, z)) = Instant(m)
                /\ ~Skipped(m) => Convert(Convert(m, z), m.zone) = m

\* The interval between two moments is the time that passes between them, when their zones
\* differ or their offsets do not.
DifferenceIsElapsed ==
    asked.op = "moment" =>
        \A right \in Others(asked.of) :
            LET left == asked.of
                offset(m) == m.wall - Instant(m)
            IN  left.zone # right.zone \/ offset(left) = offset(right) =>
                    Difference(left, right) = Instant(right) - Instant(left)

\* The same without the exception.  The code breaks it.
DifferenceIsAlwaysElapsed ==
    asked.op = "moment" =>
        \A right \in Others(asked.of) : Difference(asked.of, right) = Instant(right) - Instant(asked.of)
=============================================================================
