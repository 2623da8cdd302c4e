---------------------------- MODULE StudioText ----------------------------
(***************************************************************************)
(* The line algorithms of the Studio (apps/c2c-studio/src):                *)
(*   - the line diff behind the manual edit overlay and the three-way      *)
(*     merge (lib/editor/manualEditOverlay.ts, conflictDetection.ts),      *)
(*   - the merge itself: regions, their resolutions, the merged text,      *)
(*   - the diff of expected and actual output                              *)
(*     (components/run/runPanelUtils.ts).                                  *)
(* A text is the sequence of its lines, each ended by a newline; Blank is  *)
(* the empty line.                                                         *)
(***************************************************************************)
EXTENDS Integers, Sequences, FiniteSets, SequencesExt, FiniteSetsExt

CONSTANTS Blank,           \* the empty line
          DiffMatrixLimit  \* DIFF_MATRIX_LIMIT: cells of the table of a diff

\* F of a value computed once.
With(value, F(_)) == CHOOSE r \in {F(v) : v \in {value}} : TRUE
\* The function f, with its values computed once.
Tabled(f) == f @@ <<>>

Op(kind, base, child) == [kind |-> kind, base |-> base, child |-> child]

\* How far the two texts agree from line x + 1 of base and y + 1 of child on.
Snake(base, child, x, y) ==
    LET room == Min({Len(base) - x, Len(child) - y})
        agree == {i \in 0 .. room : \A j \in 1 .. i : base[x + j] = child[y + j]}
    IN  IF room <= 0 THEN 0 ELSE Max(agree)

\* The greedy forward pass: after d edits, the furthest line of base reached
\* on every diagonal k (line of base minus line of child), up to the first d
\* that reaches both ends.
FurthestPass(base, child) ==
    LET all == Len(base) + Len(child)
        last == Len(base) - Len(child)
        Start(v, d, k) == IF k = -d \/ (k # d /\ v[k - 1] < v[k + 1])
                          THEN v[k + 1] ELSE v[k - 1] + 1
        Pass(v, d) ==
            Tabled([k \in -all - 1 .. all + 1 |->
                      IF k \in -d .. d /\ (k + d) % 2 = 0
                      THEN With(Start(v, d, k), LAMBDA x : x + Snake(base, child, x, x - k))
                      ELSE v[k]])
        Reached(v, d) == last \in -d .. d /\ (last + d) % 2 = 0 /\ v[d][last] >= Len(base)
        upTo[d \in -1 .. all] ==
            IF d = -1 THEN -1 :> Tabled([k \in -all - 1 .. all + 1 |-> 0])
            ELSE With(upTo[d - 1],
                      LAMBDA v : IF d - 1 \notin DOMAIN v \/ Reached(v, d - 1) THEN v
                                 ELSE v @@ (d :> Pass(v[d - 1], d)))
    IN  upTo[all]

\* The script read backwards off the trace of the pass.  Lines are numbered
\* from 1; an operation without a line has 0 there.
Backtrack(base, child, v, edits) ==
    LET Equals(x, y, n) == [i \in 1 .. n |-> Op("equal", x - n + i, y - n + i)]
        From(before, d, k) ==
            IF k = -d \/ (k # d /\ before[k - 1] < before[k + 1]) THEN k + 1 ELSE k - 1
        Back(before, x, y, k) ==
            [n |-> Max({0, Min({x - before[k], y - (before[k] - k)})}), fromX |-> before[k]]
        script[d \in 0 .. edits, x \in 0 .. Len(base), y \in 0 .. Len(child)] ==
            LET Before(b, inserts) ==
                    script[d - 1, x - b.n - (IF inserts THEN 0 ELSE 1),
                                  y - b.n - (IF inserts THEN 1 ELSE 0)]
                        \o <<IF inserts THEN Op("insert", 0, y - b.n)
                             ELSE Op("delete", x - b.n, 0)>>
                        \o Equals(x, y, b.n)
            IN  IF x = 0 /\ y = 0 THEN <<>>
                ELSE With(Back(v[d - 1], x, y, From(v[d - 1], d, x - y)),
                          LAMBDA b : IF d = 0 THEN Equals(x, y, b.n)
                                     ELSE Before(b, x - b.n = b.fromX))
    IN  script[edits, Len(base), Len(child)]

\* myersDiff
MyersDiff(base, child) ==
    With(FurthestPass(base, child), LAMBDA v : Backtrack(base, child, v, Max(DOMAIN v)))

-----------------------------------------------------------------------------
(* The manual edit overlay: which lines of the buffer are not the          *)
(* generator's.                                                            *)

\* manualEditOverlay.ts keeps its own copy of the diff.
OverlayDiff(base, current) == MyersDiff(base, current)

\* Regions that end one line early.
OpsToShortRegions(ops) ==
    LET inserted == {ops[i].child : i \in {i \in DOMAIN ops : ops[i].kind = "insert"}}
    IN  {[from |-> n, to |-> n, origin |-> "manual_edit"] : n \in inserted \ {Max(inserted \cup {0})}}
\* opsToRegions: one region for each run of changes that has an inserted line,
\* from its first to its last; a run that only deletes marks nothing.
OpsToRegions(ops) ==
    LET changed(i) == ops[i].kind # "equal"
        runs == {r \in {<<i, j>> : i, j \in 1 .. Len(ops)} :
                    /\ r[1] <= r[2]
                    /\ \A i \in r[1] .. r[2] : changed(i)
                    /\ (r[1] = 1 \/ ~changed(r[1] - 1))
                    /\ (r[2] = Len(ops) \/ ~changed(r[2] + 1))}
        inserted(r) == {ops[i].child : i \in {i \in r[1] .. r[2] : ops[i].kind = "insert"}}
        deletes(r) == \E i \in r[1] .. r[2] : ops[i].kind = "delete"
    IN  {[from |-> Min(inserted(r)), to |-> Max(inserted(r)),
          origin |-> IF deletes(r) THEN "manual_modified" ELSE "manual_edit"] :
            r \in {r \in runs : inserted(r) # {}}}

\* computeManualEditOverlay; the empty set stands for no overlay as well.
ManualEditOverlay(base, current) ==
    IF base = current \/ current = <<>> THEN {}
    ELSE IF base = <<>>
    THEN {[from |-> 1, to |-> Len(current), origin |-> "manual_edit"]}
    ELSE With(OverlayDiff(base, current), OpsToRegions)

-----------------------------------------------------------------------------
(* The trust pillars the pane paints in the margin (trustPillars.ts).      *)

ManualOrigins == {"manual_modified", "manual_edit"}
TracedOrigins == {"deterministic", "agent_proposed", "repair_attempted"}

\* pillarFor: the mark of a region; an origin it does not know has none.
PillarFor(region) ==
    CASE region.origin = "deterministic" ->
            IF region.outcome = "oracle_passed" THEN "deterministic-passed" ELSE "deterministic-warn"
      [] region.origin = "agent_proposed" ->
            IF region.outcome = "oracle_passed" THEN "agent-passed" ELSE "agent-warn"
      [] region.origin = "repair_attempted" -> "repair"
      [] region.origin = "manual_modified" -> "manual-modified"
      [] region.origin = "manual_edit" -> "manual-edit"
      [] OTHER -> "none"

\* mergeRegionsForTrustPillars: traced regions with an outcome ("none" is a
\* region without one), and the manual ones, which have no oracle.
MergeRegionsForTrustPillars(traced, manual) ==
    {r \in traced : r.origin \in TracedOrigins /\ r.outcome # "none"} \cup
    {[from |-> r.from, to |-> r.to, origin |-> r.origin, outcome |-> "no_oracle"] :
        r \in {r \in manual : r.origin \in ManualOrigins}}

\* buildTrustPillarDecorations: the lines of every region that has a pillar.
TrustPillarDecorations(regions) ==
    {[lines |-> r.from .. r.to, pillar |-> PillarFor(r)] :
        r \in {r \in regions : PillarFor(r) # "none"}}

-----------------------------------------------------------------------------
(* The three-way merge.                                                    *)

\* buildAlignment: what became of every line of the baseline, and the lines
\* inserted behind each (0: before the first).  An insertion right behind a
\* deletion replaces the deleted line.
Align(base, child) ==
    LET Step(a, op) ==
            CASE op.kind = "equal" ->
                    [a EXCEPT !.last = op.base, !.pending = 0]
              [] op.kind = "delete" ->
                    [a EXCEPT !.status[op.base] = "deleted", !.line[op.base] = Blank,
                              !.last = op.base, !.pending = op.base]
              [] op.kind = "insert" /\ a.pending # 0 ->
                    [a EXCEPT !.status[a.pending] = "changed",
                              !.line[a.pending] = child[op.child], !.pending = 0]
              [] op.kind = "insert" /\ a.pending = 0 ->
                    [a EXCEPT !.inserts[a.last] = Append(@, child[op.child])]
    IN  FoldLeft(Step,
                 [status |-> [i \in 1 .. Len(base) |-> "equal"], line |-> base,
                  inserts |-> [i \in 0 .. Len(base) |-> <<>>], last |-> 0, pending |-> 0],
                 MyersDiff(base, child))

\* classifyLine, for every line of the baseline.
ClassifyLines(manual, generator) ==
    [i \in DOMAIN manual.status |->
        LET mine == manual.status[i] # "equal"
            theirs == generator.status[i] # "equal"
        IN  CASE ~mine /\ ~theirs -> "equal"
              [] ~mine /\ theirs -> "new_generator_only"
              [] mine /\ ~theirs -> "manual_only"
              [] mine /\ theirs ->
                    IF manual.line[i] = generator.line[i] THEN "agreed" ELSE "conflict"]

\* suggestionFor; "none" is a conflict, where the user must pick.
Suggestion(kind) ==
    CASE kind \in {"manual_only", "agreed"} -> "manual"
      [] kind = "new_generator_only" -> "newGenerator"
      [] kind = "conflict" -> "none"

Region(from, to, kind, base, manual, generator) ==
    [from |-> from, to |-> to, kind |-> kind, base |-> base,
     manual |-> manual, newGenerator |-> generator]

\* The runs of lines of one kind, other than "equal", as one region each.
RunsOf(kind) ==
    {r \in {<<i, j>> : i, j \in DOMAIN kind} :
        /\ r[1] <= r[2] /\ kind[r[1]] # "equal"
        /\ \A i \in r[1] .. r[2] : kind[i] = kind[r[1]]
        /\ (r[1] = 1 \/ kind[r[1] - 1] # kind[r[1]])
        /\ (r[2] = Len(kind) \/ kind[r[2] + 1] # kind[r[1]])}
LineRegions(base, manual, generator, kind) ==
    {Region(r[1], r[2], kind[r[1]], SubSeq(base, r[1], r[2]),
            SubSeq(manual.line, r[1], r[2]), SubSeq(generator.line, r[1], r[2])) :
        r \in RunsOf(kind)}

\* emitInsertRegion: the lines both sides inserted behind line i.
InsertRegion(manual, generator, i) ==
    LET m == manual.inserts[i]
        g == generator.inserts[i]
        kind == IF m = g THEN "agreed"
                ELSE IF g = <<>> THEN "manual_only"
                ELSE IF m = <<>> THEN "new_generator_only" ELSE "conflict"
    IN  IF m = <<>> /\ g = <<>> THEN {}
        ELSE {Region(i + 1, i + Max({Len(m), Len(g)}), kind, <<>>, m, g)}

\* The order of detectConflicts: by first line; where two are equal, in the
\* order they were emitted (lines, then the head, the tail and the middle).
RegionOrder(base, r, s) ==
    LET emitted(x) == IF x.base # <<>> THEN 0 ELSE IF x.from = 1 THEN 1
                      ELSE IF x.from = Len(base) + 1 THEN 2 ELSE 3
    IN  r.from < s.from \/ (r.from = s.from /\ emitted(r) < emitted(s))

\* coalesceAdjacentRegions: neighbours of one kind become one region, except
\* conflicts.
Coalesce(regions) ==
    LET Merge(done, r) ==
            IF done # <<>> /\ Last(done).to + 1 = r.from
               /\ Last(done).kind = r.kind /\ r.kind # "conflict"
            THEN LET p == Last(done) IN
                 Append(Front(done),
                        Region(p.from, r.to, r.kind, p.base \o r.base,
                               p.manual \o r.manual, p.newGenerator \o r.newGenerator))
            ELSE Append(done, r)
    IN  FoldLeft(Merge, <<>>, regions)

\* All regions of two alignments.
RegionsOf(base, manual, generator) ==
    LineRegions(base, manual, generator, ClassifyLines(manual, generator))
        \cup UNION {InsertRegion(manual, generator, i) : i \in 0 .. Len(base)}
\* detectConflicts.  In an empty baseline the head is the tail too, and its
\* insertion is emitted twice.
SortedRegions(base, found) ==
    SetToSortSeq(found, LAMBDA r, s : RegionOrder(base, r, s))
Doubled(base, sorted) == IF base = <<>> THEN sorted \o sorted ELSE sorted
DetectConflicts(base, manualText, generatorText) ==
    IF base = manualText /\ base = generatorText THEN <<>>
    ELSE Coalesce(Doubled(base, SortedRegions(base,
            RegionsOf(base, Align(base, manualText), Align(base, generatorText)))))

\* What the dialog sends: a pick for every region, its suggestion where there
\* is one, the user's pick where there is not (ThreeWayMergeDialog.tsx).
Picks(region) ==
    IF Suggestion(region.kind) = "none" THEN {"manual", "newGenerator", "baseline"}
    ELSE {Suggestion(region.kind)}

\* defaultRegionId, the key of a pick.
RegionId(region) == <<region.kind, region.from, region.to>>
\* Every map of picks the dialog can apply.
Selections(regions) ==
    LET ids == {RegionId(r) : r \in ToSet(regions)}
    IN  {s \in [ids -> {"manual", "newGenerator", "baseline"}] :
            \A r \in ToSet(regions) : s[RegionId(r)] \in Picks(r)}
\* chosenContentFor
Chosen(region, picks) ==
    LET pick == picks[RegionId(region)]
    IN  IF pick = "manual" THEN region.manual
        ELSE IF pick = "newGenerator" THEN region.newGenerator ELSE region.base

\* result.join and the final newline: an empty last line is taken for it.
\* Under an empty baseline the code leaves the last line without a newline,
\* which a text as a sequence of lines does not tell.
JoinLines(base, lines) ==
    IF Len(lines) > 1 /\ Last(lines) = Blank THEN Front(lines)
    ELSE IF lines \in {<<>>, <<Blank>>} THEN (IF base = <<>> THEN <<>> ELSE <<Blank>>)
    ELSE lines

\* applyMergeSelections.  A region of inserted lines is put in at the place
\* reached so far, except behind the last line of the baseline, which is
\* copied out first; any other region copies the lines before it.
ApplyMergeSelections(base, regions, picks) ==
    LET Step(m, i) ==
            LET r == regions[i]
                upto == IF r.base # <<>> THEN r.from - 1
                        ELSE IF r.from > Len(base) THEN Len(base) ELSE m.next - 1
            IN  [out |-> m.out \o SubSeq(base, m.next, upto) \o Chosen(r, picks),
                 next |-> IF r.base # <<>> THEN r.to + 1 ELSE Max({m.next, upto + 1})]
        merged == FoldLeft(Step, [out |-> <<>>, next |-> 1], [i \in 1 .. Len(regions) |-> i])
    IN  IF regions = <<>> THEN base
        ELSE JoinLines(base, merged.out \o SubSeq(base, merged.next, Len(base)))

-----------------------------------------------------------------------------
(* The diff of expected and actual output in the equivalence panel.        *)

\* A line of the diff with its numbers in the two texts, 0 where it is in one
\* only.
Same(line, e, a) == [kind |-> "equal", line |-> line, expected |-> e, actual |-> a]
Removed(line, e) == [kind |-> "removed", line |-> line, expected |-> e, actual |-> 0]
Added(line, a) == [kind |-> "added", line |-> line, expected |-> 0, actual |-> a]

\* buildFallbackDiff: line by line, numbered from the start of what it is given.
FallbackDiff(expected, actual) ==
    LET At(i) ==
            IF i <= Len(expected) /\ i <= Len(actual) /\ expected[i] = actual[i]
            THEN <<Same(expected[i], i, i)>>
            ELSE (IF i <= Len(expected) THEN <<Removed(expected[i], i)>> ELSE <<>>)
                    \o (IF i <= Len(actual) THEN <<Added(actual[i], i)>> ELSE <<>>)
    IN  FlattenSeq([i \in 1 .. Max({Len(expected), Len(actual)}) |-> At(i)])

\* The table of the longest common subsequences of the two texts from line i
\* and line j on, and the walk through it.
CommonFrom(expected, actual) ==
    LET common[i \in 1 .. Len(expected) + 1, j \in 1 .. Len(actual) + 1] ==
            IF i > Len(expected) \/ j > Len(actual) THEN 0
            ELSE IF expected[i] = actual[j] THEN common[i + 1, j + 1] + 1
            ELSE Max({common[i + 1, j], common[i, j + 1]})
    IN  [i \in 1 .. Len(expected) + 1, j \in 1 .. Len(actual) + 1 |-> common[i, j]]
\* One step of the walk: the first row from line i and line j on, and the rest.
TableStep(expected, actual, start, common, walk, i, j) ==
    CASE i > Len(expected) /\ j > Len(actual) -> <<>>
      [] i <= Len(expected) /\ j <= Len(actual) /\ expected[i] = actual[j] ->
            <<Same(expected[i], start + i, start + j)>> \o walk[<<i + 1, j + 1>>]
      [] /\ i <= Len(expected)
         /\ j > Len(actual) \/ (expected[i] # actual[j]
                                 /\ common[<<i + 1, j>>] >= common[<<i, j + 1>>]) ->
            <<Removed(expected[i], start + i)>> \o walk[<<i + 1, j>>]
      [] OTHER -> <<Added(actual[j], start + j)>> \o walk[<<i, j + 1>>]
TableDiff(expected, actual, start, common) ==
    LET walk[c \in (1 .. Len(expected) + 1) \X (1 .. Len(actual) + 1)] ==
            TableStep(expected, actual, start, common, walk, c[1], c[2])
    IN  walk[<<1, 1>>]

\* Mutant of OutputDiff: the common end may reach into the common start.
OutputDiffOverlap(expected, actual) ==
    LET start == Snake(expected, actual, 0, 0)
        tail == Snake(Reverse(expected), Reverse(actual), 0, 0)
        e == SubSeq(expected, start + 1, Len(expected) - tail)
        a == SubSeq(actual, start + 1, Len(actual) - tail)
        prefix == [i \in 1 .. start |-> Same(expected[i], i, i)]
        suffix == [i \in 1 .. tail |-> Same(expected[Len(expected) - tail + i], i, i)]
    IN  prefix \o FallbackDiff(e, a) \o suffix

\* buildOutputDiff: the common start and end are set aside, what is between is
\* compared in the table, or line by line if that would be too large.
OutputDiff(expected, actual) ==
    LET start == Snake(expected, actual, 0, 0)
        tail == Snake(Reverse(SubSeq(expected, start + 1, Len(expected))),
                      Reverse(SubSeq(actual, start + 1, Len(actual))), 0, 0)
        e == SubSeq(expected, start + 1, Len(expected) - tail)
        a == SubSeq(actual, start + 1, Len(actual) - tail)
        prefix == [i \in 1 .. start |-> Same(expected[i], i, i)]
        suffix == [i \in 1 .. tail |->
                    Same(expected[Len(expected) - tail + i],
                         Len(expected) - tail + i, Len(actual) - tail + i)]
    IN  prefix \o (IF Len(e) * Len(a) > DiffMatrixLimit THEN FallbackDiff(e, a)
                   ELSE With(CommonFrom(e, a), LAMBDA c : TableDiff(e, a, start, c))) \o suffix

\* The text that is left of a diff without the rows of a kind.
TextWithout(kind, rows) ==
    FlattenSeq([i \in DOMAIN rows |-> IF rows[i].kind = kind THEN <<>> ELSE <<rows[i].line>>])
=============================================================================
