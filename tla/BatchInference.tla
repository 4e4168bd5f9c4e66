---------------------------- MODULE BatchInference ----------------------------
(***************************************************************************)
(* CompetitionBatchRunner.run and CodabenchSubmissionFormatter.format on    *)
(* one output directory: every question of a source is answered once, in    *)
(* order, by an append and a rewrite of the state; a manifest seals the     *)
(* batch and the formatter packs a sealed batch.  The process can be killed *)
(* between any two durable steps and started again, with another source or  *)
(* another configuration.  One process works on a directory at a time.      *)
(***************************************************************************)
EXTENDS Naturals, Sequences, SequencesExt, FiniteSets

CONSTANTS
    Sources,        \* question files, by digest
    Questions,      \* [Sources -> sequence of question ids]
    Configs,        \* application configuration and code version
    Tails,          \* what a kill during an append can leave of the line
    MaxFailures,    \* bound of this model: kills and failing answers
    Missing, Torn   \* no such file; a line that does not parse

\* A question file is an object keyed by id; the loader refuses an empty one.
ASSUME BatchAssumption ==
    /\ \A s \in Sources :
          /\ Questions[s] \in Seq(Range(Questions[s]))
          /\ Questions[s] # <<>> /\ IsInjective(Questions[s])
    /\ Tails \subseteq {"none", "torn", "unterminated"}
    /\ MaxFailures \in Nat

QuestionIds == UNION {Range(Questions[s]) : s \in Sources}

Run == [source : Sources, config : Configs]
Answer == [id : QuestionIds, source : Sources, config : Configs]
Line == Answer \cup {Torn}

\* What the schemas of the files let through.
State ==
    {s \in [run : Run, done : Seq(QuestionIds)] :
        IsInjective(s.done) /\ Len(s.done) <= Len(Questions[s.run.source])}
Manifest == [run : Run, count : Nat, digest : Seq(Line)]
Submission == [for : Sources, answers : Seq(Answer)]

\* A missing file has no content and no owner, a torn line is no answer.
ASSUME MarkerAssumption ==
    /\ Missing \notin Run
    /\ Missing \notin Seq(Line) \cup State \cup Manifest \cup Submission
    /\ Torn \notin Answer

VARIABLES
    pc, run, records,   \* the process: its identity and the records it holds
    file,               \* batch records: lines
    ended,              \* the last line has its newline
    state,              \* the recovery state
    leftover,           \* its first temporary file, in a directory without state
    manifest,           \* the completeness manifest
    submission,         \* submission.zip
    failures

process == <<pc, run, records>>
directory == <<file, ended, state, leftover, manifest>>
vars == <<process, directory, submission, failures>>

\* The answer a run gives to the i-th question of its source.
Record(r, i) == [id |-> Questions[r.source][i], source |-> r.source, config |-> r.config]
Records(r) == [i \in DOMAIN Questions[r.source] |-> Record(r, i)]
Ids(lines) == [i \in DOMAIN lines |-> lines[i].id]

TypeOK ==
    /\ pc \in {"off", "claim", "load", "loop", "state"}
    /\ run \in Run /\ records \in Seq(Answer)
    /\ file \in Seq(Line) \cup {Missing}
    /\ ended \in BOOLEAN /\ leftover \in BOOLEAN
    /\ state \in State \cup {Missing}
    /\ manifest \in Manifest \cup {Missing}
    /\ submission \in Submission \cup {Missing}
    /\ failures \in 0..MaxFailures

Init ==
    /\ pc = "off" /\ run \in Run /\ records = <<>>
    /\ file = Missing /\ ended = TRUE
    /\ state = Missing /\ leftover = FALSE
    /\ manifest = Missing /\ submission = Missing
    /\ failures = 0
--------------------------------------------------------------------------------
(* run *)

\* _load_records: every line parses.
Readable == file # Missing /\ \A i \in DOMAIN file : file[i] # Torn

\* Fault: the records must be exactly those the state names.
PrefixOfState(lines, s) == Ids(lines) = state.done
\* _validate_prefix
Prefix(lines, s) == IsPrefix(Ids(lines), Questions[s])

\* Fault: the configuration is not compared.
SameSource(stored, r) == stored.run.source = r.source
\* The identity comparison of _prepare_state.
SameRun(stored, r) == stored.run = r

\* _prepare_state; a sealed batch is only verified and changes nothing.
Start(r) ==
    /\ pc = "off" /\ manifest = Missing
    /\ run' = r /\ records' = <<>>
    /\ IF state # Missing
       THEN SameRun(state, r) /\ pc' = "load" /\ UNCHANGED <<file, ended, state, leftover>>
       ELSE /\ file = Missing /\ ~leftover
            /\ pc' = "claim" /\ leftover' = TRUE /\ UNCHANGED <<file, ended, state>>
    /\ UNCHANGED <<manifest, submission, failures>>

Claim ==
    /\ pc = "claim"
    /\ state' = [run |-> run, done |-> <<>>] /\ leftover' = FALSE
    /\ pc' = "load"
    /\ UNCHANGED <<run, records, file, ended, manifest, submission, failures>>

\* Fault: the state keeps what it said before the interruption.
SyncedKept(lines) == state.done
\* The state follows the records, which are written first.
Synced(lines) == Ids(lines)

Stop == pc' = "off" /\ UNCHANGED <<run, records, directory>>

\* The records are loaded, the state is brought in line, the file is opened.
Load ==
    /\ pc = "load"
    /\ LET lines == IF file = Missing THEN <<>> ELSE file
       IN  IF file # Missing /\ (~Readable \/ ~Prefix(file, run.source)) THEN Stop
           ELSE /\ records' = lines /\ file' = lines
                /\ state' = [state EXCEPT !.done = Synced(lines)]
                /\ pc' = "loop"
                /\ UNCHANGED <<run, ended, leftover, manifest>>
    /\ UNCHANGED <<submission, failures>>

\* A line that lacks its newline swallows the next one.
Appended(line) == IF ended THEN Append(file, line) ELSE Append(Front(file), Torn)

\* Fault: off by one on resumption.
LastAgain == IF records = <<>> THEN 1 ELSE Len(records)
\* questions[len(records):]
NextQuestion == Len(records) + 1

AnswerQuestion ==
    /\ pc = "loop" /\ Len(records) < Len(Questions[run.source])
    /\ LET record == Record(run, NextQuestion)
       IN  file' = Appended(record) /\ records' = Append(records, record)
    /\ ended' = TRUE
    /\ pc' = "state"
    /\ UNCHANGED <<run, state, leftover, manifest, submission, failures>>

RewriteState ==
    /\ pc = "state"
    /\ state' = [state EXCEPT !.done = Append(@, Last(records).id)]
    /\ pc' = "loop"
    /\ UNCHANGED <<run, records, file, ended, leftover, manifest, submission, failures>>

\* The manifest counts the records of the process and digests the file.
Seal ==
    /\ pc = "loop" /\ Len(records) = Len(Questions[run.source])
    /\ manifest' = [run |-> run, count |-> Len(records), digest |-> file]
    /\ pc' = "off"
    /\ UNCHANGED <<run, records, file, ended, state, leftover, submission, failures>>

\* A kill, or an exception of the answerer, between two durable steps.
Kill ==
    /\ pc # "off"
    /\ failures < MaxFailures /\ failures' = failures + 1
    /\ Stop /\ UNCHANGED submission

\* A kill while the next line is written.
KillInAppend(tail) ==
    /\ pc = "loop" /\ Len(records) < Len(Questions[run.source])
    /\ failures < MaxFailures /\ failures' = failures + 1
    /\ pc' = "off"
    /\ file' = IF tail = "none" THEN file
               ELSE Appended(IF tail = "torn" THEN Torn ELSE Record(run, NextQuestion))
    /\ ended' = IF tail = "none" THEN ended ELSE FALSE
    /\ UNCHANGED <<run, records, state, leftover, manifest, submission>>
--------------------------------------------------------------------------------
(* format *)

\* Fault: the question file is not compared.
SubmittableAnySource(s) == Readable /\ manifest # Missing /\ manifest.digest = file
\* _validate_batch
Submittable(s) ==
    /\ Readable /\ manifest # Missing
    /\ Ids(file) = Questions[s]
    /\ manifest.run.source = s
    /\ manifest.count = Len(file)
    /\ manifest.digest = file

\* Validated in a temporary file and renamed; an existing output is refused.
Format(s) ==
    /\ pc = "off" /\ submission = Missing
    /\ Submittable(s)
    /\ submission' = [for |-> s, answers |-> file]
    /\ UNCHANGED <<process, directory, failures>>
--------------------------------------------------------------------------------
Step == Claim \/ Load \/ AnswerQuestion \/ RewriteState \/ Seal

Next ==
    \/ Step
    \/ \E r \in Run : Start(r)
    \/ \E s \in Sources : Format(s)
    \/ Kill
    \/ \E tail \in Tails : KillInAppend(tail)

Spec == Init /\ [][Next]_vars

\* The scheduler runs the process; the operator runs every batch again and packs it.
FairSpec ==
    /\ Spec
    /\ WF_vars(Step)
    /\ \A r \in Run : SF_vars(Start(r))
    /\ \A s \in Sources : SF_vars(Format(s))
--------------------------------------------------------------------------------
(* Properties *)

\* The state names a prefix of the recorded questions and is at most one answer
\* behind the file, whatever sequence of interruptions the batch went through.
StateFollowsRecords ==
    (state # Missing /\ file # Missing /\ Readable) =>
        /\ IsPrefix(state.done, Ids(file))
        /\ Len(file) - Len(state.done) <= 1

\* A submission answers exactly the questions of the file it was formatted for,
\* in order, each in the text of that file and all under one configuration.
SubmissionIsExact ==
    submission # Missing =>
        \E c \in Configs :
            submission.answers = Records([source |-> submission.for, config |-> c])

\* The manifest proves a complete batch: its records can be read back.
CompletedBatchIsReadable == manifest # Missing => Readable

\* The directory keeps the promise of AnswerLedger.
WholeLines == IF file = Missing THEN {} ELSE {i \in DOMAIN file : file[i] # Torn}

Ledger == INSTANCE AnswerLedger WITH
    Owners <- Run,
    AnswersOf <- [r \in Run |-> Records(r)],
    Unowned <- Missing,
    owner <- IF state = Missing THEN Missing ELSE state.run,
    answered <- Cardinality(WholeLines),
    sealed <- manifest # Missing,
    submitted <- IF submission = Missing THEN Missing ELSE submission.answers

KeepsLedger == Ledger!Spec

\* A claimed batch whose records stay readable is completed and submitted,
\* however often its runs are interrupted.
ReadableBatchIsSubmitted ==
    <>[](state # Missing /\ (file = Missing \/ Readable)) => <>(submission # Missing)
================================================================================
