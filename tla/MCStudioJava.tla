---- MODULE MCStudioJava ----
\* One file over two runs: the second generates another text, or the first
\* one's again; two COBOL files of two programs.
EXTENDS StudioEditors
CONSTANTS lineA, lineB, lineX, lineY
GeneratedSmall == << <<lineA, lineB>>, <<lineA, lineY>> >>
GeneratedAgain == << <<lineA, lineB>>, <<lineA, lineB>> >>
TypedSmall == {<<lineA, lineX, lineB>>}
CandidatesSmall == {<<lineA, lineY>>}
\* The formatter rewrites every lineX.
Tidy(text) == [i \in DOMAIN text |-> IF text[i] = lineX THEN lineY ELSE text[i]]
SecretsSmall == 1 .. 2
TwoRuns == 1 .. 2
TwoFiles == {"F", "G"}
TwoTexts == [f \in TwoFiles |-> IF f = "F" THEN "text of P" ELSE "text of Q"]
OneFile == {"F"}
OneTyped == {"typed"}
ProgramFound(text) ==
    CASE text = "text of P" -> "P" [] text = "text of Q" -> "Q" [] OTHER -> None
CasesListed(program) ==
    CASE program = "P" -> {"p1", "p2"} [] program = "Q" -> {"q1"} [] OTHER -> {}
====
