----------------------------- MODULE ManualPath -----------------------------
(***************************************************************************)
(* An operator-anchored continuous path (crates/survey/src/manual_path.rs):*)
(* the operator clicks anchors at a start, turns, pauses, resumes and a    *)
(* stop, while samples arrive with their own capture times and in any      *)
(* order; afterwards anchors may be moved.  Samples are placed by the      *)
(* anchors around them, never across a pause, and the scheduled channel    *)
(* time without complete coverage is reported per path segment.            *)
(*                                                                         *)
(* Positions are points of one line, so a distance is a difference and the *)
(* only sharp turn is a reversal; a placed position is the exact fraction  *)
(* <<numerator, denominator>> the code rounds to a double.                 *)
(***************************************************************************)
EXTENDS Integers, SequencesExt

CONSTANTS
    MaxTime, ObservationIds, Poses,
    Positions,      \* points the operator clicks
    Corrections,    \* points a click may be corrected to
    MAX_PATH_ANCHORS, MAX_PATH_OBSERVATIONS,
    MAX_CHANNEL_GAPS, MAX_CHANNEL_GAP_WORK,
    MaximumSpeed,
    Schedules,      \* scheduled channel intervals to report on
    Coverages       \* sequences of channel coverage intervals

VARIABLES phase, anchors, observations

vars == <<phase, anchors, observations>>

Time == 0..MaxTime

Anchor(at, leg, kind, position) ==
    [at |-> at, leg |-> leg, kind |-> kind, original |-> position, edited |-> <<>>]

Position(a) == IF a.edited = <<>> THEN a.original ELSE a.edited[1]

\* Consecutive anchors on one leg; the leg changes over every pause.
Segments == {i \in 1..(Len(anchors) - 1) : anchors[i].leg = anchors[i + 1].leg}

Init ==
    /\ phase = "capturing"
    /\ \E at \in Time, p \in Positions : anchors = <<Anchor(at, 0, "start", p)>>
    /\ observations = <<>>

AppendAnchor(at, position, leg, kind) ==
    /\ phase # "stopped"
    /\ Len(anchors) < MAX_PATH_ANCHORS
    /\ at > Last(anchors).at
    /\ anchors' = Append(anchors, Anchor(at, leg, kind, position))

Turn(at, position) ==
    /\ phase = "capturing"
    /\ AppendAnchor(at, position, Last(anchors).leg, "turn")
    /\ UNCHANGED <<phase, observations>>

Pause(at, position) ==
    /\ phase = "capturing"
    /\ AppendAnchor(at, position, Last(anchors).leg, "pause")
    /\ phase' = "paused"
    /\ UNCHANGED observations

Resume(at, position) ==
    /\ phase = "paused"
    /\ AppendAnchor(at, position, Last(anchors).leg + 1, "resume")
    /\ phase' = "capturing"
    /\ UNCHANGED observations

\* Mutant: a stop while paused stays on the leg it paused on.
StopOnSameLeg == Last(anchors).leg

StopLeg == IF phase = "paused" THEN Last(anchors).leg + 1 ELSE Last(anchors).leg

Stop(at, position) ==
    /\ \A i \in DOMAIN observations : observations[i].at <= at
    /\ AppendAnchor(at, position, StopLeg, "stop")
    /\ phase' = "stopped"
    /\ UNCHANGED observations

Earlier(s, t) == s.at < t.at \/ (s.at = t.at /\ s.id <= t.id)

\* A sample may arrive late; the stored order is by capture time and id.
RecordObservation(id, at, pose) ==
    /\ at >= anchors[1].at
    /\ phase = "stopped" => at <= Last(anchors).at
    /\ Len(observations) < MAX_PATH_OBSERVATIONS
    /\ \A i \in DOMAIN observations : observations[i].id # id
    /\ pose # "other_frame"
    /\ observations' = SortSeq(Append(observations, [id |-> id, at |-> at, pose |-> pose]), Earlier)
    /\ UNCHANGED <<phase, anchors>>

EditAnchor(i, position) ==
    /\ phase = "stopped"
    /\ anchors' = [anchors EXCEPT ![i].edited = <<position>>]
    /\ UNCHANGED <<phase, observations>>

Next ==
    \/ \E at \in Time, p \in Positions : Turn(at, p) \/ Pause(at, p) \/ Resume(at, p) \/ Stop(at, p)
    \/ \E id \in ObservationIds, at \in Time, pose \in Poses :
          RecordObservation(id, at, pose)
    \/ \E i \in DOMAIN anchors, p \in Corrections : EditAnchor(i, p)

Spec == Init /\ [][Next]_vars

-----------------------------------------------------------------------------
(* Where a sample is placed.                                               *)

Interpolate(i, at) ==
    LET a == anchors[i]
        b == anchors[i + 1]
        total == b.at - a.at
    IN  <<Position(a) * total + (Position(b) - Position(a)) * (at - a.at), total>>

\* The scan of in_pause_gap: a pause opens a gap, the next anchor closes it.
InPauseGap(at) ==
    LET scan(acc, a) ==
            IF a.kind = "pause" THEN [acc EXCEPT !.from = a.at]
            ELSE [from |-> -1,
                  hit |-> acc.hit \/ (acc.from # -1 /\ acc.from < at /\ at < a.at)]
        swept == FoldLeft(scan, [from |-> -1, hit |-> FALSE], anchors)
    IN  swept.hit \/ (swept.from # -1 /\ swept.from < at)

ManualAssignment(at) ==
    LET hit == {i \in DOMAIN anchors : anchors[i].at = at}
        inside == {i \in Segments : anchors[i].at < at /\ at < anchors[i + 1].at}
    IN  CASE hit # {} -> [kind |-> "anchor", where |-> CHOOSE i \in hit : TRUE]
          [] hit = {} /\ inside # {} ->
               LET i == CHOOSE i \in inside : TRUE
               IN  [kind |-> "motion", where |-> i, position |-> Interpolate(i, at)]
          [] OTHER ->
               [kind |-> "unavailable",
                reason |-> CASE InPauseGap(at) -> "pause_gap"
                             [] ~InPauseGap(at) /\ phase = "capturing" /\ at > Last(anchors).at -> "awaiting"
                             [] OTHER -> "outside"]

\* A reported pose is used when its covariance is known and small enough.
Placement(sample) ==
    IF sample.pose = "trusted" THEN [kind |-> "reported"] ELSE ManualAssignment(sample.at)

Magnitude(x) == IF x < 0 THEN -x ELSE x

\* Segments faster than the limit, and anchors where the heading reverses.
Diagnostics ==
    LET speed == {i \in Segments :
                    Magnitude(Position(anchors[i + 1]) - Position(anchors[i]))
                      > MaximumSpeed * (anchors[i + 1].at - anchors[i].at)}
        turn == {i \in Segments : i + 1 \in Segments /\
                    (Position(anchors[i + 1]) - Position(anchors[i]))
                      * (Position(anchors[i + 2]) - Position(anchors[i + 1])) < 0}
    IN  [speed |-> speed, turn |-> turn]

-----------------------------------------------------------------------------
(* channel_gaps: per scheduled interval, the complete coverage of its      *)
(* frequency is insertion-sorted, and a cursor runs over each segment.     *)
(* Every inspected item is charged; past the work limit the call fails.    *)

Lower(x, y) == IF x < y THEN x ELSE y
Upper(x, y) == IF x > y THEN x ELSE y

\* Insertion of one interval: the sorted sequence and the work it is charged,
\* one per comparison, one per move and one for the final write.
Inserted(acc, interval) ==
    LET later(k) == acc.seq[k].start > interval.start
                      \/ (acc.seq[k].start = interval.start /\ acc.seq[k].end > interval.end)
        moved == Cardinality({k \in DOMAIN acc.seq : later(k)})
        keep == Len(acc.seq) - moved
    IN  [seq |-> SubSeq(acc.seq, 1, keep) \o <<interval>> \o SubSeq(acc.seq, keep + 1, Len(acc.seq)),
         work |-> acc.work + 2 * moved + (IF keep > 0 THEN 1 ELSE 0) + (IF moved > 0 THEN 1 ELSE 0)]

\* Mutant: the cursor follows a nested interval back.
CoveredBack(acc, observed, start, end) ==
    LET from == Upper(observed.start, start)
        to == Lower(observed.end, end)
    IN  IF from >= to \/ acc.cursor >= end THEN acc
        ELSE [cursor |-> to,
              gaps |-> IF from > acc.cursor THEN Append(acc.gaps, <<acc.cursor, from>>) ELSE acc.gaps,
              work |-> acc.work + 1]

\* One complete interval met by the cursor, which never moves back.
Covered(acc, observed, start, end) ==
    LET from == Upper(observed.start, start)
        to == Lower(observed.end, end)
    IN  IF acc.cursor >= end THEN acc
        ELSE IF from >= to \/ to <= acc.cursor THEN [acc EXCEPT !.work = @ + 1]
        ELSE [cursor |-> Upper(acc.cursor, to),
              gaps |-> IF from > acc.cursor THEN Append(acc.gaps, <<acc.cursor, from>>) ELSE acc.gaps,
              work |-> acc.work + (IF from > acc.cursor THEN 2 ELSE 1)]

SegmentGaps(i, scheduled, complete) ==
    LET start == Upper(scheduled.start, anchors[i].at)
        end == Lower(scheduled.end, anchors[i + 1].at)
        step(acc, observed) == Covered(acc, observed, start, end)
        swept == FoldLeft(step, [cursor |-> start, gaps |-> <<>>, work |-> 0], complete)
    IN  IF start >= end THEN [gaps |-> <<>>, work |-> 0]
        ELSE IF swept.cursor < end
             THEN [gaps |-> Append(swept.gaps, <<swept.cursor, end>>), work |-> swept.work + 1]
             ELSE [gaps |-> swept.gaps, work |-> swept.work]

\* The gaps of a schedule of one entry, or a failure at a limit.
ChannelGaps(scheduled, coverage) ==
    LET matching == SelectSeq(coverage, LAMBDA c : c.freq = scheduled.freq /\ c.complete)
        sorted == FoldLeft(Inserted, [seq |-> <<>>, work |-> 0], matching)
        perSegment == [i \in Segments |-> SegmentGaps(i, scheduled, sorted.seq)]
        gaps == FoldLeft(LAMBDA acc, i : IF i \in Segments THEN acc \o perSegment[i].gaps ELSE acc,
                         <<>>, [i \in 1..(Len(anchors) - 1) |-> i])
        work == FoldSet(LAMBDA i, sum : sum + perSegment[i].work, 0, Segments)
                  + 2 + 2 * Len(coverage) + sorted.work + Len(anchors) - 1
    IN  [limit |-> work > MAX_CHANNEL_GAP_WORK \/ Len(gaps) > MAX_CHANNEL_GAPS, gaps |-> gaps]

-----------------------------------------------------------------------------
\* validate_snapshot: the phases the anchor kinds run through, with their legs.
ValidAnchors ==
    LET after(k) == CASE k \in {"start", "turn", "resume"} -> "capturing"
                      [] k = "pause" -> "paused"
                      [] k = "stop" -> "stopped"
    IN  /\ Len(anchors) \in 1..MAX_PATH_ANCHORS
        /\ anchors[1].kind = "start" /\ anchors[1].leg = 0
        /\ \A i \in 2..Len(anchors) :
             LET a == anchors[i]
                 b == anchors[i - 1]
             IN  /\ b.at < a.at
                 /\ \/ after(b.kind) = "capturing" /\ a.kind \in {"turn", "pause", "stop"} /\ a.leg = b.leg
                    \/ after(b.kind) = "paused" /\ a.kind \in {"resume", "stop"} /\ a.leg = b.leg + 1
        /\ phase = after(Last(anchors).kind)

ValidSnapshot ==
    /\ ValidAnchors
    /\ Len(observations) <= MAX_PATH_OBSERVATIONS
    /\ \A i \in DOMAIN observations :
         /\ anchors[1].at <= observations[i].at
         /\ phase = "stopped" => observations[i].at <= Last(anchors).at
         /\ observations[i].pose # "other_frame"
         /\ \A j \in DOMAIN observations : i < j =>
              observations[i].id # observations[j].id /\ Earlier(observations[i], observations[j])

-----------------------------------------------------------------------------
\* Time inside a pause, from the kinds of the anchors alone.
PauseTimes ==
    {t \in Time : \E i \in DOMAIN anchors :
        /\ anchors[i].kind = "pause" /\ anchors[i].at < t
        /\ i < Len(anchors) => t < anchors[i + 1].at}

\* Whatever the order of clicks, late samples and corrections, the stored path
\* decodes again, and a sample the anchors must place is placed exactly when
\* it was taken outside every pause and not after the last anchor; nothing is
\* interpolated, and no speed is computed, across a pause.
PausesStayUnplaced ==
    /\ ValidSnapshot
    /\ \A i \in DOMAIN observations :
         LET s == observations[i]
             p == Placement(s)
         IN  s.pose # "trusted" =>
               /\ s.at \in PauseTimes => p.kind = "unavailable" /\ p.reason = "pause_gap"
               /\ s.at \notin PauseTimes /\ s.at <= Last(anchors).at => p.kind \in {"anchor", "motion"}
               /\ s.at \notin PauseTimes /\ s.at > Last(anchors).at =>
                    p.kind = "unavailable" /\ p.reason = "awaiting"
               /\ p.kind = "motion" =>
                    LET a == Position(anchors[p.where])
                        b == Position(anchors[p.where + 1])
                    IN  /\ Lower(a, b) * p.position[2] <= p.position[1]
                        /\ p.position[1] <= Upper(a, b) * p.position[2]
    /\ \A i \in Diagnostics.speed \cup Diagnostics.turn : anchors[i].kind # "pause"

\* The gaps reported for a scheduled interval are the instants scheduled on a
\* segment that no complete interval of its frequency covers, each reported
\* once, for overlapping, nested and touching coverage in any order; or the
\* call fails at its work limit, never with part of the gaps.
GapsAreTheUncovered ==
    \A scheduled \in Schedules, coverage \in Coverages :
        LET call == ChannelGaps(scheduled, coverage)
            result == call.gaps
            ticks(from, to) == from .. (to - 1)
            onPath == UNION {ticks(anchors[i].at, anchors[i + 1].at) : i \in Segments}
            covered == UNION {ticks(c.start, c.end) :
                          c \in {d \in Range(coverage) : d.freq = scheduled.freq /\ d.complete}}
        IN  ~call.limit =>
              /\ UNION {ticks(result[k][1], result[k][2]) : k \in DOMAIN result}
                   = (ticks(scheduled.start, scheduled.end) \cap onPath) \ covered
              /\ \A k \in DOMAIN result : result[k][1] < result[k][2]
              /\ \A k, l \in DOMAIN result : k < l => result[k][2] <= result[l][1]

=============================================================================
