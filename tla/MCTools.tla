------------------------------- MODULE MCTools --------------------------------
(***************************************************************************)
(* The course tools and two programs that interpret what they read, for    *)
(* TLC, side by side in the variables of MCParts.                          *)
(***************************************************************************)
EXTENDS MCParts, Integers, Sequences, SequencesExt, TLC

CONSTANTS Tasks, Changeable, Schedules, MaxTries,      \* of Grade
          Courses, MaxRuns,                            \* of Export
          Config, Students, Privates, Profiles, Short, \* of Submission
          UserLines, IntWidth, MaxLines,               \* of Forth
          Structs, Forms, Ints, Bools                  \* of Reflect

Tool      == INSTANCE Grade WITH Files <- Changeable, pc <- v1, deadlines <- v2, changed <- v3, todo <- v4,
                                 testFailed <- v5, failed <- v6, tries <- v7, verdicts <- v8, reports <- v9
Exporter  == INSTANCE Export WITH Repos <- Courses, pc <- v1, runs <- v2, master <- v3, public <- v4,
                                  temps <- v5, remote <- v6, head <- v7, tree <- v8, onPublic <- v9, doomed <- v10,
                                  push <- v11, back <- v12, origin <- v13
Checker   == INSTANCE Submission WITH pc <- v1, student <- v2, private <- v3, tmp <- v4, whose <- v5,
                                      coverage <- v6, bins <- v7, tests <- v8, profiles <- v9, verdict <- v10, ran <- v11
Words     == INSTANCE Forth WITH Lines <- UserLines, Width <- IntWidth, stack <- v1, words <- v2, out <- v3, log <- v4
Tags      == INSTANCE Reflect WITH struct <- v1, form <- v2, left <- v3, value <- v4, error <- v5, done <- v6

ASSUME ToolsAssumption ==
  /\ Tool!GradeAssumption /\ Exporter!ExportAssumption /\ Checker!SubmissionAssumption
  /\ Words!ForthAssumption /\ Tags!ReflectAssumption

-----------------------------------------------------------------------------
\* testtool grade and check-task: what the server knows is what the tests said, of every
\* task, and what passes has passed the teacher's tests.
GradesAreTrue == /\ part = "grade" => Tool!GradesAreTrue
                 /\ part = "submission" => Checker!PassedMeansTested
\* testtool export: no private file is published, and every other one.
OnlyThePublicIsPublished == part = "export" => Exporter!OnlyThePublicIsPublished

\* Forth: a word keeps the meaning it was defined with.
WordsKeepTheirMeaning == part = "forth" => Words!WordsKeepTheirMeaning

\* Reflect: Unpack has filled every field, or some value did not fit.
RequestsAreReadRight == part = "reflect" => Tags!FieldsAreFilled
===============================================================================
