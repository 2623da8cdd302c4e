---------------------------- MODULE TrustCatalog ----------------------------
(***************************************************************************)
(* The two registries the BFF loads from the repository: the acceptance    *)
(* fixtures (services/c2c-bff/src/acceptance-fixtures.ts), each with files *)
(* whose digests are verified, and the trust cases                         *)
(* (services/c2c-bff/src/trust-cases.ts) that refer to them; and what the  *)
(* routes of server.ts answer from the trust cases.  A loader throws at    *)
(* the first entry that is not in order, so a registry is served whole or  *)
(* not at all.  Texts and patterns that only one field is checked against  *)
(* are one flag, inOrder.                                                  *)
(***************************************************************************)
EXTENDS Naturals, Sequences, FiniteSets, SequencesExt, Functions

-----------------------------------------------------------------------------
(* Acceptance fixtures *)

Verdicts == {"success", "blocked"}
OracleModes == {"none", "cobol-runtime", "static-fixture", "user-provided"}
FailureCodes == {"none", "unsupported_cobol", "parse_failed"}
BothModes == {"file-backed", "paste-mode"}

(* A reference names a path and, by digest and size, a content. *)
ParsesArtifactReference(ref) == ref.inOrder

(* A construct that is not supported is told by a known diagnostic code. *)
ParsesUnsupportedConstruct(construct) == construct = "known"

(* What parseFixture asks of the fields one by one. *)
ParsesFixtureFields(f) ==
    /\ f.inOrder
    /\ ParsesArtifactReference(f.source)
    /\ \A ref \in f.expected : ParsesArtifactReference(ref)
    /\ f.oracle \in OracleModes
    /\ \A c \in f.unsupported : ParsesUnsupportedConstruct(c)
    /\ f.verdict \in Verdicts /\ f.failure \in FailureCodes
    /\ f.modes = BothModes

(* What it asks of them together: a success has an oracle and no failure   *)
(* code, a block has a code and a construct, and a static oracle its file. *)
ParsesFixtureRules(f) ==
    /\ f.verdict = "success" => f.oracle # "none" /\ f.failure = "none"
    /\ f.verdict = "blocked" => f.failure # "none" /\ f.unsupported # {}
    /\ f.oracle = "static-fixture" => f.expected # {}

(* The file is inside the repository, also through links, and is the one   *)
(* that was registered.                                                    *)
VerifyArtifactOnDisk(ref, disk) ==
    ref.path \in DOMAIN disk /\ disk[ref.path] = ref.content

FixturesLoad(fixtures, disk) ==
    /\ fixtures # <<>>
    /\ \A i \in DOMAIN fixtures :
         ParsesFixtureFields(fixtures[i]) /\ ParsesFixtureRules(fixtures[i])
    /\ IsInjective([i \in DOMAIN fixtures |-> fixtures[i].fixtureId])
    /\ \A i \in DOMAIN fixtures :
         \A ref \in {fixtures[i].source} \cup fixtures[i].expected :
            VerifyArtifactOnDisk(ref, disk)

(* list(): what a summary tells of a fixture. *)
SummariseFixture(f) == [fixtureId |-> f.fixtureId, subset |-> f.subset]

FixtureList(fixtures) == {SummariseFixture(fixtures[i]) : i \in DOMAIN fixtures}

(* get(): the fixture with the texts that were verified when it was loaded. *)
GetFixture(fixtures, id) ==
    {[summary |-> SummariseFixture(f), source |-> f.source.content,
      expected |-> {ref.content : ref \in f.expected}] :
        f \in {g \in ToSet(fixtures) : g.fixtureId = id}}

-----------------------------------------------------------------------------
(* Trust cases *)

ParsesSourceReference(t) == t.mode \in {"reference-fixture", "native-cobol"}

(* At most sixteen data sets, each once, and a bounded standard input. *)
MaxDataSets == 16
ParsesControlledInput(t) ==
    Len(t.dataSets) <= MaxDataSets /\ IsInjective(t.dataSets)

(* At most eight arguments, none that looks like a path or a command. *)
MaxProgramArgs == 8
ParsesRuntime(t) ==
    Len(t.args) <= MaxProgramArgs /\ \A i \in DOMAIN t.args : t.args[i] = "safe"

ParsesEnvironmentProfile(t) == t.profile = "known"

ParsesComparison(t) == t.policy = "deterministic-output-v1"

(* The shape is about the same program, with known constructs, each once. *)
ParsesSupportedProgramShape(t) ==
    t.shapeProgram = t.programId /\ t.subset # <<>> /\ IsInjective(t.subset)

ParsesEvidenceIdentity(t) == t.evidence = "named"

ParsesTrustCase(t) ==
    /\ t.inOrder
    /\ ParsesSourceReference(t) /\ ParsesControlledInput(t) /\ ParsesRuntime(t)
    /\ ParsesEnvironmentProfile(t) /\ ParsesComparison(t)
    /\ ParsesSupportedProgramShape(t) /\ ParsesEvidenceIdentity(t)

Programs(cases) == {t.programId : t \in ToSet(cases)}
DefaultsOf(cases, program) ==
    {i \in DOMAIN cases : cases[i].programId = program /\ cases[i].default}

(* Mutant: only a second default is refused. *)
AtMostOneDefault(cases) ==
    \A p \in Programs(cases) : Cardinality(DefaultsOf(cases, p)) <= 1

OneDefaultEach(cases) ==
    \A p \in Programs(cases) : Cardinality(DefaultsOf(cases, p)) = 1

(* A trust case refers to a fixture that was loaded, for its source and    *)
(* for its expected output, and supports no construct the fixture does not *)
(* declare.                                                                *)
RefersToFixture(t, list) ==
    /\ \E f \in list :
         f.fixtureId = t.fixture /\ ToSet(t.subset) \subseteq f.subset
    /\ t.expectedFixture = t.fixture

(* The catalogue loads the fixtures first. *)
CatalogLoads(cases, fixtures, disk) ==
    /\ FixturesLoad(fixtures, disk)
    /\ cases # <<>>
    /\ \A t \in ToSet(cases) : ParsesTrustCase(t)
    /\ IsInjective([i \in DOMAIN cases |-> cases[i].trustCaseId])
    /\ \A t \in ToSet(cases) : RefersToFixture(t, FixtureList(fixtures))
    /\ OneDefaultEach(cases)

(* The digest is over the configuration: not over title, description and   *)
(* whether the case is the default.                                        *)
ConfigurationDigest(t) ==
    [id |-> t.trustCaseId, program |-> t.programId, fixture |-> t.fixture,
     dataSets |-> t.dataSets, args |-> t.args, subset |-> t.subset]

Summarize(t) ==
    [trustCaseId |-> t.trustCaseId, programId |-> t.programId,
     default |-> t.default, fixture |-> t.fixture,
     digest |-> ConfigurationDigest(t)]

-----------------------------------------------------------------------------
(* What the routes answer from a catalogue that loads *)

CaseList(cases, program) ==
    {Summarize(t) : t \in {c \in ToSet(cases) : c.programId = program}}

GetCase(cases, id) ==
    {Summarize(t) : t \in {c \in ToSet(cases) : c.trustCaseId = id}}

DefaultForProgram(cases, program) ==
    {Summarize(cases[i]) : i \in DefaultsOf(cases, program)}

(* GET /api/v0/trust-cases: a preference that was saved under an older     *)
(* catalogue, or is of another program, is not told.                       *)
SavedCase(cases, program, saved) ==
    {c.trustCaseId : c \in {s \in UNION {GetCase(cases, id) : id \in saved} :
                              s.programId = program}}

TrustCasesAnswer(cases, program, saved) ==
    [list |-> CaseList(cases, program),
     default |-> {c.trustCaseId : c \in DefaultForProgram(cases, program)},
     saved |-> SavedCase(cases, program, saved)]

(* PUT /api/v0/session/trust-case-preference. *)
PreferenceAccepted(cases, program, id) ==
    \E c \in GetCase(cases, id) : c.programId = program

(* A submission that names a trust case may not say how it is run. *)
ForbiddenTrustCaseTransformFields(request) == request.internals

(* POST /api/v0/transform with a trust case: the summary that is stored    *)
(* with the run, or none when the request is refused.                      *)
SelectedTrustCase(cases, request) ==
    IF ForbiddenTrustCaseTransformFields(request) # {} THEN {}
    ELSE {c \in GetCase(cases, request.trustCaseId) :
            c.programId = request.programId}

-----------------------------------------------------------------------------
(* Bounded inputs: registries in order, and with one entry changed *)

Ref(path, content) == [path |-> path, content |-> content, inOrder |-> TRUE]

GoodFixture(id) ==
    [fixtureId |-> id, inOrder |-> TRUE, source |-> Ref("source", 1),
     expected |-> {Ref("output", 2)}, oracle |-> "static-fixture",
     subset |-> {"MOVE", "IF"}, unsupported |-> {}, verdict |-> "success",
     failure |-> "none", modes |-> BothModes]

FixtureChanges ==
    [fixtureId |-> 1 .. 2, inOrder |-> BOOLEAN,
     source |-> {Ref("source", 1), Ref("source", 2), Ref("elsewhere", 1)},
     expected |-> {{}, {Ref("output", 2)}, {Ref("output", 1)}},
     oracle |-> OracleModes \cup {"other"},
     subset |-> {{"MOVE"}, {"MOVE", "IF"}}, unsupported |-> {{}, {"known"}, {"other"}},
     verdict |-> Verdicts \cup {"other"}, failure |-> FailureCodes,
     modes |-> {BothModes, {"paste-mode"}}]

GoodCase(id, program, default) ==
    [trustCaseId |-> id, programId |-> program, default |-> default,
     inOrder |-> TRUE, fixture |-> 1, expectedFixture |-> 1,
     mode |-> "reference-fixture", dataSets |-> <<1>>, args |-> <<"safe">>,
     profile |-> "known", policy |-> "deterministic-output-v1",
     shapeProgram |-> program, subset |-> <<"MOVE">>, evidence |-> "named"]

CaseChanges ==
    [trustCaseId |-> 1 .. 2, programId |-> {"P", "Q"}, default |-> BOOLEAN,
     inOrder |-> BOOLEAN, fixture |-> 1 .. 3, expectedFixture |-> 1 .. 2,
     mode |-> {"native-cobol", "other"}, dataSets |-> {<<>>, <<1, 1>>},
     args |-> {<<>>, <<"unsafe">>}, profile |-> {"known", "other"},
     policy |-> {"deterministic-output-v1", "other"},
     shapeProgram |-> {"P", "Q"},
     subset |-> {<<>>, <<"MOVE", "MOVE">>, <<"MOVE", "IF">>},
     evidence |-> {"named", "other"}]

Changed(base, changes) ==
    UNION {{[base EXCEPT ![f] = v] : v \in changes[f]} : f \in DOMAIN base}

FixtureRegistries ==
    {<<f, GoodFixture(2)>> : f \in UNION {Changed(g, FixtureChanges) :
                                            g \in Changed(GoodFixture(1), FixtureChanges)}}
CaseRegistries ==
    {<<t, u>> : t \in UNION {Changed(c, CaseChanges) :
                               c \in Changed(GoodCase(1, "P", TRUE), CaseChanges)},
                u \in {GoodCase(2, "P", FALSE), GoodCase(2, "Q", TRUE)}}

Disk == [source |-> 1, output |-> 2]

(* Of the registries the BFF serves: every program that is listed has one  *)
(* default, which is one of its own cases; a trust case that is selected   *)
(* or remembered is a case of that program, under one identity; its source *)
(* is a file that is as it was registered, and so is its expected output,  *)
(* which is missing only if the fixture does not have a static oracle.     *)
CatalogIsConsistent ==
    /\ \A fixtures \in FixtureRegistries :
         FixturesLoad(fixtures, Disk) =>
           \A id \in 1 .. 2 : \E f \in GetFixture(fixtures, id) :
              /\ f.source = Disk["source"]
              /\ f.expected \subseteq {Disk["output"]}
              /\ f.expected = {} => fixtures[id].oracle # "static-fixture"
    /\ \A cases \in CaseRegistries :
         LET fixtures == <<GoodFixture(1), GoodFixture(2)>>
         IN  CatalogLoads(cases, fixtures, Disk) =>
               \A p \in Programs(cases), saved \in SUBSET (1 .. 3) :
                 LET answer == TrustCasesAnswer(cases, p, saved)
                     ids == {c.trustCaseId : c \in answer.list}
                 IN  /\ Cardinality(answer.default) = 1
                     /\ answer.default \cup answer.saved \subseteq ids
                     /\ \A id \in 1 .. 3, internals \in {{}, {"options"}} :
                          LET chosen == SelectedTrustCase(cases,
                                          [trustCaseId |-> id, programId |-> p,
                                           internals |-> internals])
                          IN  /\ chosen # {} <=> internals = {}
                                                 /\ PreferenceAccepted(cases, p, id)
                              /\ Cardinality(chosen) <= 1 /\ chosen \subseteq answer.list
                              /\ \A c \in chosen : GetFixture(fixtures, c.fixture) # {}
=============================================================================
