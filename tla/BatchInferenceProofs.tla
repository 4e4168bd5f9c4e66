-------------------------- MODULE BatchInferenceProofs --------------------------
(***************************************************************************)
(* The inductive invariant of BatchInference, and from it: type             *)
(* correctness, the state that follows the records, exact submissions, and, *)
(* where no kill leaves a whole line without its newline, the refinement of *)
(* AnswerLedger.                                                            *)
(***************************************************************************)
EXTENDS BatchInference, SequenceTheorems, FiniteSetTheorems, TLAPS

\* Every line of lines is the answer of run r at its place.
Given(lines, r) ==
    /\ Len(lines) <= Len(Questions[r.source])
    /\ \A i \in 1..Len(lines) : lines[i] = Record(r, i)

\* The state is the first durable thing of a batch and binds its runs.
OwnerInv ==
    /\ state = Missing => /\ pc \in {"off", "claim"} /\ file = Missing
                          /\ manifest = Missing /\ submission = Missing
    /\ pc = "claim" => state = Missing
    /\ (state # Missing /\ pc # "off") => state.run = run

\* What the state names are the first questions of its source.
StateInv ==
    state # Missing =>
        \A i \in 1..Len(state.done) : state.done[i] = Questions[state.run.source][i]

\* The lines of a readable file are the first answers of the run of the state.
FileInv ==
    Readable => /\ Given(file, state.run)
                /\ Len(state.done) \in {Len(file), Len(file) - 1}

\* A process that answers holds the lines of a readable file.
WorkInv ==
    pc \in {"loop", "state"} =>
        /\ file # Missing
        /\ Given(records, run)
        /\ Readable => file = records
        /\ pc = "loop" => Len(state.done) = Len(records)
        /\ pc = "state" => Len(state.done) = Len(records) - 1 /\ ended

\* A sealed batch is at rest; its manifest names the run of the state.
SealInv ==
    manifest # Missing =>
        /\ pc = "off"
        /\ manifest.run = state.run
        /\ Readable => Len(file) = Len(Questions[state.run.source])

\* A submission repeats the answers of the run of the state.
SubmissionInv ==
    submission # Missing =>
        /\ submission.for = state.run.source
        /\ submission.answers = Records(state.run)

IInv == TypeOK /\ OwnerInv /\ StateInv /\ FileInv /\ WorkInv /\ SealInv /\ SubmissionInv

\* Without unterminated lines: a line without its newline is the torn last one.
TailInv ==
    /\ (ended /\ file # Missing) => Readable
    /\ ~ended => /\ file # Missing /\ file # <<>>
                 /\ pc \in {"off", "load"} /\ manifest = Missing
                 /\ file[Len(file)] = Torn
                 /\ \A i \in 1..Len(file) - 1 : file[i] = Record(state.run, i)
                 /\ Len(file) <= Len(Questions[state.run.source])

--------------------------------------------------------------------------------
(* Questions, answers and lines *)

LEMMA QuestionsTyped ==
    ASSUME NEW s \in Sources
    PROVE  /\ Questions[s] \in Seq(QuestionIds)
           /\ Len(Questions[s]) \in Nat \ {0}
           /\ DOMAIN Questions[s] = 1..Len(Questions[s])
           /\ \A i \in 1..Len(Questions[s]) : Questions[s][i] \in QuestionIds
           /\ \A i, j \in 1..Len(Questions[s]) : Questions[s][i] = Questions[s][j] => i = j
<1>1. Questions[s] \in Seq(Range(Questions[s])) /\ Questions[s] # <<>>
  BY BatchAssumption
<1>2. Range(Questions[s]) \subseteq QuestionIds
  BY DEF QuestionIds
<1>3. Questions[s] \in Seq(QuestionIds)
  BY <1>1, <1>2, SeqMonotonic
<1>4. Len(Questions[s]) \in Nat \ {0} /\ DOMAIN Questions[s] = 1..Len(Questions[s])
  BY <1>1, <1>3, EmptySeq, LenProperties
<1>5. \A i \in 1..Len(Questions[s]) : Questions[s][i] \in QuestionIds
  BY <1>3, ElementOfSeq
<1>6. \A i, j \in 1..Len(Questions[s]) : Questions[s][i] = Questions[s][j] => i = j
  BY <1>4, BatchAssumption DEF IsInjective
<1> QED
  BY <1>3, <1>4, <1>5, <1>6

LEMMA RecordTyped ==
    ASSUME NEW r \in Run, NEW i \in 1..Len(Questions[r.source])
    PROVE  /\ Record(r, i) \in Answer
           /\ Record(r, i) # Torn
           /\ Record(r, i).id = Questions[r.source][i]
<1>1. r.source \in Sources /\ r.config \in Configs
  BY DEF Run
<1>2. Questions[r.source][i] \in QuestionIds
  BY <1>1, QuestionsTyped
<1>3. Record(r, i) \in Answer
  BY <1>1, <1>2 DEF Record, Answer
<1> QED
  BY <1>3, MarkerAssumption DEF Record

LEMMA IdsTyped ==
    ASSUME NEW lines \in Seq(Answer)
    PROVE  /\ Ids(lines) \in Seq(QuestionIds)
           /\ Len(Ids(lines)) = Len(lines)
           /\ \A i \in 1..Len(lines) : Ids(lines)[i] = lines[i].id
<1>1. Len(lines) \in Nat /\ DOMAIN lines = 1..Len(lines)
  BY LenProperties
<1>2. \A i \in 1..Len(lines) : lines[i].id \in QuestionIds
  <2>1. \A i \in 1..Len(lines) : lines[i] \in Answer
    BY ElementOfSeq
  <2> QED
    BY <2>1 DEF Answer
<1> DEFINE e(i) == lines[i].id
<1>3. [i \in 1..Len(lines) |-> e(i)] \in Seq(QuestionIds)
  <2> HIDE DEF e
  <2>1. \A i \in 1..Len(lines) : e(i) \in QuestionIds
    BY <1>2 DEF e
  <2> QED
    BY <2>1, <1>1, IsASeq
<1>4. Ids(lines) = [i \in 1..Len(lines) |-> e(i)]
  BY <1>1 DEF Ids
<1> QED
  BY <1>1, <1>3, <1>4, LenProperties

\* The ids of a run's first answers are its first questions.
LEMMA IdsOfGiven ==
    ASSUME NEW r \in Run, NEW lines \in Seq(Answer), Given(lines, r)
    PROVE  /\ Ids(lines) \in Seq(QuestionIds)
           /\ Len(Ids(lines)) = Len(lines)
           /\ \A i \in 1..Len(lines) : Ids(lines)[i] = Questions[r.source][i]
<1>1. r.source \in Sources
  BY DEF Run
<1>2. Len(lines) \in Nat /\ Len(Questions[r.source]) \in Nat
  BY <1>1, QuestionsTyped, LenProperties
<1>3. \A i \in 1..Len(lines) : lines[i].id = Questions[r.source][i]
  BY <1>2, RecordTyped DEF Given
<1> QED
  BY <1>3, IdsTyped

\* What names the first questions of a source passes the schema of the state.
LEMMA StateTyped ==
    ASSUME NEW r \in Run, NEW done \in Seq(QuestionIds),
           Len(done) <= Len(Questions[r.source]),
           \A i \in 1..Len(done) : done[i] = Questions[r.source][i]
    PROVE  [run |-> r, done |-> done] \in State
<1>1. r.source \in Sources
  BY DEF Run
<1>2. Len(done) \in Nat /\ DOMAIN done = 1..Len(done)
  BY LenProperties
<1>3. IsInjective(done)
  BY <1>1, <1>2, QuestionsTyped DEF IsInjective
<1> QED
  BY <1>3 DEF State

LEMMA StateFields ==
    ASSUME NEW s \in State
    PROVE  /\ s # Missing
           /\ s.run \in Run /\ s.run.source \in Sources
           /\ s.done \in Seq(QuestionIds)
           /\ Len(s.done) \in Nat
           /\ Len(s.done) <= Len(Questions[s.run.source])
<1>1. s \in [run : Run, done : Seq(QuestionIds)] /\ s # Missing
  BY MarkerAssumption DEF State
<1> QED
  BY <1>1, LenProperties DEF State, Run

LEMMA StateExcept ==
    ASSUME NEW s \in State, NEW done
    PROVE  [s EXCEPT !.done = done] = [run |-> s.run, done |-> done]
BY DEF State

LEMMA ReadableIsAnswers ==
    ASSUME TypeOK, Readable
    PROVE  file \in Seq(Answer)
<1>1. file \in Seq(Line)
  BY DEF TypeOK, Readable
<1>2. Len(file) \in Nat /\ DOMAIN file = 1..Len(file) /\ file \in [1..Len(file) -> Line]
  BY <1>1, LenProperties
<1>3. file \in [1..Len(file) -> Answer]
  BY <1>2 DEF Readable, Line
<1> QED
  BY <1>2, <1>3, SeqDef

\* Appending to the lines of a file.
LEMMA AppendedLine ==
    ASSUME NEW lines \in Seq(Line), NEW line \in Line
    PROVE  /\ Append(lines, line) \in Seq(Line)
           /\ Len(Append(lines, line)) = Len(lines) + 1
           /\ Append(lines, line)[Len(lines) + 1] = line
           /\ \A i \in 1..Len(lines) : Append(lines, line)[i] = lines[i]
BY AppendProperties, LenProperties

LEMMA AppendedTyped ==
    ASSUME TypeOK, file # Missing, NEW line \in Line
    PROVE  /\ Appended(line) \in Seq(Line)
           /\ Len(Appended(line)) \in Nat \ {0}
           /\ ended => Appended(line) = Append(file, line)
           /\ ~ended => Appended(line)[Len(Appended(line))] = Torn
<1>1. file \in Seq(Line)
  BY DEF TypeOK
<1>2. Len(file) \in Nat /\ \A i \in 1..Len(file) : file[i] \in Line
  BY <1>1, LenProperties, ElementOfSeq
<1>3. Front(file) \in Seq(Line)
  BY <1>2, SubSeqProperties DEF Front
<1>4. Torn \in Line
  BY DEF Line
<1>5. CASE ended
  BY <1>5, <1>1, <1>2, AppendedLine DEF Appended
<1>6. CASE ~ended
  <2>1. Appended(line) = Append(Front(file), Torn)
    BY <1>6 DEF Appended
  <2>2. Len(Front(file)) \in Nat
    BY <1>3, LenProperties
  <2> HIDE DEF Appended
  <2>3. /\ Append(Front(file), Torn) \in Seq(Line)
        /\ Len(Append(Front(file), Torn)) = Len(Front(file)) + 1
        /\ Append(Front(file), Torn)[Len(Front(file)) + 1] = Torn
    BY <1>3, <1>4, AppendedLine
  <2> QED
    BY <1>6, <2>1, <2>2, <2>3
<1> QED
  BY <1>5, <1>6

\* A file that can be read after a line was added could be read before, and the
\* line is whole.
LEMMA AppendedReadable ==
    ASSUME TypeOK, file # Missing, NEW line \in Line, file' = Appended(line), Readable'
    PROVE  /\ ended /\ Readable /\ line # Torn
           /\ Len(file') = Len(file) + 1
           /\ file'[Len(file) + 1] = line
           /\ \A i \in 1..Len(file) : file'[i] = file[i]
<1>1. file' \in Seq(Line) /\ Len(file') \in Nat \ {0}
  BY AppendedTyped
<1>2. \A i \in 1..Len(file') : file'[i] # Torn
  BY <1>1, LenProperties DEF Readable
<1>3. ended
  BY <1>1, <1>2, AppendedTyped
<1>4. file \in Seq(Line) /\ file' = Append(file, line)
  BY <1>3, AppendedTyped DEF TypeOK
<1>5. /\ Len(file') = Len(file) + 1
      /\ file'[Len(file) + 1] = line
      /\ \A i \in 1..Len(file) : file'[i] = file[i]
  BY <1>4, AppendedLine
<1>6. Len(file) \in Nat /\ DOMAIN file = 1..Len(file)
  BY <1>4, LenProperties
<1> QED
  BY <1>2, <1>3, <1>5, <1>6 DEF Readable

\* The answer of a run to its next question.
LEMMA NextRecord ==
    ASSUME TypeOK, NEW r \in Run, NEW lines \in Seq(Answer), Given(lines, r),
           Len(lines) < Len(Questions[r.source]),
           NEW record, record = Record(r, Len(lines) + 1)
    PROVE  /\ record \in Answer /\ record # Torn
           /\ record.id = Questions[r.source][Len(lines) + 1]
           /\ Append(lines, record) \in Seq(Answer)
           /\ Len(Append(lines, record)) = Len(lines) + 1
           /\ Append(lines, record)[Len(lines) + 1] = record
           /\ Given(Append(lines, record), r)
<1>1. r.source \in Sources
  BY DEF Run
<1>2. Len(lines) \in Nat /\ Len(Questions[r.source]) \in Nat
  BY <1>1, QuestionsTyped, LenProperties
<1>3. /\ record \in Answer /\ record # Torn
      /\ record.id = Questions[r.source][Len(lines) + 1]
  BY <1>2, RecordTyped
<1>4. /\ Append(lines, record) \in Seq(Answer)
      /\ Len(Append(lines, record)) = Len(lines) + 1
      /\ Append(lines, record)[Len(lines) + 1] = record
      /\ \A i \in 1..Len(lines) : Append(lines, record)[i] = lines[i]
  BY <1>3, AppendProperties, LenProperties
<1>5. Given(Append(lines, record), r)
  BY <1>2, <1>4 DEF Given
<1> QED
  BY <1>3, <1>4, <1>5
--------------------------------------------------------------------------------
(* Every action keeps the invariant *)

LEMMA InitKeeps == Init => IInv
<1> SUFFICES ASSUME Init PROVE IInv
  OBVIOUS
<1>1. TypeOK
  <2>1. <<>> \in Seq(Answer) /\ 0 \in 0..MaxFailures
    BY BatchAssumption, EmptySeq
  <2> QED
    BY <2>1 DEF Init, TypeOK
<1>2. OwnerInv /\ StateInv /\ FileInv /\ WorkInv /\ SealInv /\ SubmissionInv
  BY DEF Init, OwnerInv, StateInv, FileInv, WorkInv, SealInv, SubmissionInv, Readable
<1> QED
  BY <1>1, <1>2 DEF IInv

\* The directory is at rest: nothing below depends on who works on it.
LEMMA StopKeeps ==
    ASSUME IInv, Stop, UNCHANGED submission, failures' \in 0..MaxFailures
    PROVE  IInv'
<1> USE DEF IInv, Stop, directory
<1>1. TypeOK'
  BY DEF TypeOK
<1>2. OwnerInv' /\ StateInv' /\ WorkInv'
  BY DEF OwnerInv, StateInv, WorkInv
<1>3. FileInv'
  BY DEF FileInv, Readable, Given
<1>4. SealInv' /\ SubmissionInv'
  BY DEF SealInv, SubmissionInv, Readable
<1> QED
  BY <1>1, <1>2, <1>3, <1>4

LEMMA StartKeeps ==
    ASSUME IInv, NEW r \in Run, Start(r)
    PROVE  IInv'
<1> USE DEF IInv, Start
<1>1. TypeOK'
  BY EmptySeq DEF TypeOK
<1>2. OwnerInv'
  BY DEF OwnerInv, SameRun
<1>3. StateInv' /\ WorkInv' /\ SealInv' /\ SubmissionInv'
  BY DEF StateInv, WorkInv, SealInv, SubmissionInv
<1>4. FileInv'
  BY DEF FileInv, Readable, Given
<1> QED
  BY <1>1, <1>2, <1>3, <1>4

LEMMA ClaimKeeps ==
    ASSUME IInv, Claim
    PROVE  IInv'
<1>1. run \in Run /\ file = Missing /\ state = Missing /\ manifest = Missing
        /\ submission = Missing
  BY DEF IInv, TypeOK, OwnerInv, Claim
<1>2. state' \in State
  <2>1. /\ <<>> \in Seq(QuestionIds) /\ Len(<<>>) = 0
        /\ \A i \in 1..Len(<<>>) : <<>>[i] = Questions[run.source][i]
    BY EmptySeq
  <2>2. run.source \in Sources
    BY <1>1 DEF Run
  <2>3. 0 <= Len(Questions[run.source])
    BY <2>2, QuestionsTyped
  <2>4. [run |-> run, done |-> <<>>] \in State
    BY <1>1, <2>1, <2>3, StateTyped
  <2> QED
    BY <2>4 DEF Claim
<1>3. state' # Missing
  BY <1>2, StateFields
<1>4. TypeOK'
  BY <1>2 DEF IInv, TypeOK, Claim
<1>5. OwnerInv' /\ StateInv' /\ SealInv' /\ SubmissionInv'
  BY <1>1, <1>3 DEF Claim, OwnerInv, StateInv, SealInv, SubmissionInv
<1>6. FileInv' /\ WorkInv'
  BY <1>1 DEF Claim, FileInv, WorkInv, Readable
<1> QED
  BY <1>4, <1>5, <1>6 DEF IInv

\* The lines the process continues from, and the state brought in line with them.
LEMMA LoadKeeps ==
    ASSUME IInv, Load
    PROVE  IInv'
<1>1. CASE file # Missing /\ (~Readable \/ ~Prefix(file, run.source))
  BY <1>1, StopKeeps DEF IInv, TypeOK, Load
<1> SUFFICES ASSUME file # Missing => Readable PROVE IInv'
  BY <1>1
<1>2. CASE Stop
  BY <1>2, StopKeeps DEF IInv, TypeOK, Load
<1> DEFINE lines == IF file = Missing THEN <<>> ELSE file
<1>3. CASE /\ records' = lines /\ file' = lines
           /\ state' = [state EXCEPT !.done = Ids(lines)]
           /\ pc' = "loop"
           /\ UNCHANGED <<run, ended, leftover, manifest, submission, failures>>
  <2>1. /\ state \in State /\ state.run = run /\ state # Missing /\ manifest = Missing
        /\ run \in Run
    BY DEF IInv, TypeOK, OwnerInv, SealInv, Load
  <2>2. lines \in Seq(Answer) /\ Len(lines) \in Nat
    BY ReadableIsAnswers, LenProperties DEF IInv
  <2>3. Given(lines, run)
    <3>1. CASE file = Missing
      <4>1. run.source \in Sources
        BY <2>1 DEF Run
      <4> QED
        BY <3>1, <4>1, QuestionsTyped DEF Given
    <3>2. CASE file # Missing
      BY <2>1, <3>2 DEF IInv, FileInv
    <3> QED
      BY <3>1, <3>2
  <2> HIDE DEF lines
  <2>4. /\ Ids(lines) \in Seq(QuestionIds) /\ Len(Ids(lines)) = Len(lines)
        /\ \A i \in 1..Len(lines) : Ids(lines)[i] = Questions[run.source][i]
    BY <2>1, <2>2, <2>3, IdsOfGiven
  <2>5. state' = [run |-> run, done |-> Ids(lines)]
    BY <1>3, <2>1, StateExcept
  <2>6. state' \in State
    BY <2>1, <2>3, <2>4, <2>5, StateTyped DEF Given
  <2>7. state' # Missing
    BY <2>6, StateFields
  <2>8. lines \in Seq(Line) /\ lines # Missing
    <3>1. lines \in Seq(Line)
      BY <2>2, SeqMonotonic DEF Line
    <3> QED
      BY <3>1, MarkerAssumption
  <2>9. TypeOK'
    BY <1>3, <2>2, <2>6, <2>8 DEF IInv, TypeOK
  <2>10. OwnerInv'
    BY <1>3, <2>5, <2>7 DEF IInv, OwnerInv
  <2>11. StateInv'
    BY <1>3, <2>4, <2>5 DEF StateInv
  <2>12. FileInv'
    BY <1>3, <2>2, <2>3, <2>4, <2>5 DEF FileInv, Given
  <2>13. WorkInv'
    BY <1>3, <2>3, <2>4, <2>5, <2>8 DEF WorkInv, Given
  <2>14. SealInv' /\ SubmissionInv'
    BY <1>3, <2>1, <2>5 DEF IInv, SealInv, SubmissionInv
  <2> QED
    BY <2>9, <2>10, <2>11, <2>12, <2>13, <2>14 DEF IInv
<1> QED
  BY <1>2, <1>3 DEF Load, Synced

\* What an answering process reads: its records are the first answers of its run.
LEMMA Answering ==
    ASSUME IInv, pc = "loop", Len(records) < Len(Questions[run.source])
    PROVE  /\ run \in Run /\ records \in Seq(Answer) /\ Len(records) \in Nat
           /\ Given(records, run)
           /\ file # Missing /\ (Readable => file = records)
           /\ state \in State /\ state # Missing /\ state.run = run /\ manifest = Missing
           /\ Record(run, NextQuestion) \in Answer
           /\ Record(run, NextQuestion) # Torn
<1>1. /\ state \in State /\ state # Missing /\ state.run = run /\ manifest = Missing
      /\ run \in Run /\ records \in Seq(Answer)
  BY DEF IInv, TypeOK, OwnerInv, SealInv
<1>2. Given(records, run) /\ file # Missing /\ (Readable => file = records)
  BY DEF IInv, WorkInv
<1>3. Record(run, NextQuestion) \in Answer /\ Record(run, NextQuestion) # Torn
  BY <1>1, <1>2, NextRecord DEF IInv, NextQuestion
<1> QED
  BY <1>1, <1>2, <1>3, LenProperties

\* A readable file that got a line holds the records and that line.
LEMMA ReadableAppend ==
    ASSUME IInv, pc = "loop", Len(records) < Len(Questions[run.source]),
           NEW line \in Line, line \in {Torn, Record(run, NextQuestion)},
           file' = Appended(line), Readable'
    PROVE  /\ line = Record(run, NextQuestion)
           /\ file' = Append(records, line)
           /\ Given(file', run)
           /\ Len(file') = Len(records) + 1
<1>1. ended /\ Readable /\ line # Torn
  BY Answering, AppendedReadable DEF IInv
<1>2. file' = Append(records, line)
  BY <1>1, Answering DEF Appended
<1> QED
  BY <1>1, <1>2, Answering, NextRecord DEF IInv, NextQuestion

LEMMA AnswerQuestionKeeps ==
    ASSUME IInv, AnswerQuestion
    PROVE  IInv'
<1> DEFINE record == Record(run, NextQuestion)
<1>1. pc = "loop" /\ Len(records) < Len(Questions[run.source])
  BY DEF AnswerQuestion
<1>2. /\ file' = Appended(record) /\ records' = Append(records, record)
      /\ ended' = TRUE /\ pc' = "state"
      /\ UNCHANGED <<run, state, leftover, manifest, submission, failures>>
  BY DEF AnswerQuestion
<1>3. /\ run \in Run /\ records \in Seq(Answer) /\ Len(records) \in Nat
      /\ Given(records, run) /\ file # Missing /\ state # Missing /\ state.run = run
      /\ manifest = Missing /\ record \in Answer /\ record # Torn
  BY <1>1, Answering
<1>4. /\ Append(records, record) \in Seq(Answer)
      /\ Given(Append(records, record), run)
      /\ Len(Append(records, record)) = Len(records) + 1
  BY <1>1, <1>3, NextRecord DEF IInv, NextQuestion
<1>5. file' \in Seq(Line) /\ file' # Missing
  <2>1. record \in Line
    BY <1>3 DEF Line
  <2> QED
    BY <2>1, <1>2, <1>3, AppendedTyped, MarkerAssumption DEF IInv
<1>6. Readable' => file' = records' /\ Given(file', run) /\ Len(file') = Len(records) + 1
  <2>1. record \in Line
    BY <1>3 DEF Line
  <2> QED
    BY <2>1, <1>1, <1>2, ReadableAppend
<1>7. Len(state.done) = Len(records)
  BY <1>1 DEF IInv, WorkInv
<1> HIDE DEF record
<1>8. TypeOK'
  BY <1>2, <1>4, <1>5 DEF IInv, TypeOK
<1>9. OwnerInv' /\ StateInv' /\ SealInv' /\ SubmissionInv'
  BY <1>1, <1>2, <1>3 DEF IInv, OwnerInv, StateInv, SealInv, SubmissionInv
<1>10. FileInv'
  BY <1>2, <1>3, <1>6, <1>7 DEF FileInv, Given
<1>11. WorkInv'
  BY <1>2, <1>3, <1>4, <1>5, <1>6, <1>7 DEF WorkInv, Given
<1> QED
  BY <1>8, <1>9, <1>10, <1>11 DEF IInv

LEMMA RewriteStateKeeps ==
    ASSUME IInv, RewriteState
    PROVE  IInv'
<1>1. /\ state' = [state EXCEPT !.done = Append(state.done, Last(records).id)]
      /\ pc = "state" /\ pc' = "loop"
      /\ UNCHANGED <<run, records, file, ended, leftover, manifest, submission, failures>>
  BY DEF RewriteState
<1>2. /\ state \in State /\ state # Missing /\ state.run = run /\ run \in Run
      /\ manifest = Missing /\ records \in Seq(Answer)
  BY <1>1 DEF IInv, TypeOK, OwnerInv, SealInv
<1>3. /\ state.done \in Seq(QuestionIds) /\ Len(state.done) \in Nat
      /\ run.source \in Sources
  BY <1>2, StateFields
<1>4. /\ file # Missing /\ Given(records, run) /\ (Readable => file = records)
      /\ Len(state.done) = Len(records) - 1 /\ ended
  BY <1>1 DEF IInv, WorkInv
<1>5. Len(records) \in Nat \ {0} /\ Len(Questions[run.source]) \in Nat
  BY <1>2, <1>3, <1>4, LenProperties, QuestionsTyped
<1>6. Last(records).id = Questions[run.source][Len(records)]
  <2>1. Last(records) = Record(run, Len(records))
    BY <1>4, <1>5 DEF Given, Last
  <2> QED
    BY <2>1, <1>2, <1>4, <1>5, RecordTyped DEF Given
<1> DEFINE done == Append(state.done, Last(records).id)
<1>7. Last(records).id \in QuestionIds
  BY <1>3, <1>4, <1>5, <1>6, QuestionsTyped DEF Given
<1>8. /\ done \in Seq(QuestionIds) /\ Len(done) = Len(records)
      /\ \A i \in 1..Len(done) : done[i] = Questions[run.source][i]
  <2>1. /\ done \in Seq(QuestionIds) /\ Len(done) = Len(state.done) + 1
        /\ done[Len(state.done) + 1] = Last(records).id
        /\ \A i \in 1..Len(state.done) : done[i] = state.done[i]
    BY <1>3, <1>7, AppendProperties
  <2>2. \A i \in 1..Len(state.done) : state.done[i] = Questions[run.source][i]
    BY <1>2 DEF IInv, StateInv
  <2> HIDE DEF done
  <2> QED
    BY <2>1, <2>2, <1>3, <1>4, <1>5, <1>6, SMTT(40)
<1>9. state' = [run |-> run, done |-> done]
  BY <1>1, <1>2, StateExcept
<1> HIDE DEF done
<1>10. state' \in State
  BY <1>2, <1>4, <1>8, <1>9, StateTyped DEF Given
<1>11. state' # Missing
  BY <1>10, StateFields
<1>12. TypeOK'
  BY <1>1, <1>10 DEF IInv, TypeOK
<1>13. OwnerInv' /\ StateInv'
  BY <1>1, <1>8, <1>9, <1>11 DEF IInv, OwnerInv, StateInv
<1>14. FileInv'
  BY <1>1, <1>4, <1>8, <1>9 DEF FileInv, Readable, Given
<1>15. WorkInv'
  BY <1>1, <1>4, <1>8, <1>9 DEF WorkInv, Readable, Given
<1>16. SealInv' /\ SubmissionInv'
  BY <1>1, <1>2, <1>9 DEF IInv, SealInv, SubmissionInv
<1> QED
  BY <1>12, <1>13, <1>14, <1>15, <1>16 DEF IInv

LEMMA SealKeeps ==
    ASSUME IInv, Seal
    PROVE  IInv' /\ manifest' # Missing
<1>1. /\ pc = "loop" /\ Len(records) = Len(Questions[run.source])
      /\ manifest' = [run |-> run, count |-> Len(records), digest |-> file]
      /\ pc' = "off"
      /\ UNCHANGED <<run, records, file, ended, state, leftover, submission, failures>>
  BY DEF Seal
<1>2. /\ run \in Run /\ state # Missing /\ state.run = run /\ records \in Seq(Answer)
      /\ file \in Seq(Line) /\ (Readable => file = records)
  BY <1>1 DEF IInv, TypeOK, OwnerInv, WorkInv
<1>3. manifest' \in Manifest
  BY <1>1, <1>2, LenProperties DEF Manifest
<1>4. TypeOK'
  BY <1>1, <1>3 DEF IInv, TypeOK
<1>5. OwnerInv' /\ StateInv' /\ WorkInv' /\ SubmissionInv'
  BY <1>1, <1>2 DEF IInv, OwnerInv, StateInv, WorkInv, SubmissionInv
<1>6. FileInv'
  BY <1>1 DEF IInv, FileInv, Readable, Given
<1>7. SealInv'
  BY <1>1, <1>2 DEF SealInv, Readable
<1> QED
  BY <1>3, <1>4, <1>5, <1>6, <1>7, MarkerAssumption DEF IInv

LEMMA KillKeeps ==
    ASSUME IInv, Kill
    PROVE  IInv'
<1>1. failures' \in 0..MaxFailures
  BY BatchAssumption DEF IInv, TypeOK, Kill
<1> QED
  BY <1>1, StopKeeps DEF Kill

LEMMA KillInAppendKeeps ==
    ASSUME IInv, NEW tail \in Tails, KillInAppend(tail)
    PROVE  IInv'
<1> DEFINE line == IF tail = "torn" THEN Torn ELSE Record(run, NextQuestion)
<1>1. /\ pc = "loop" /\ Len(records) < Len(Questions[run.source])
      /\ pc' = "off" /\ failures < MaxFailures /\ failures' = failures + 1
      /\ file' = IF tail = "none" THEN file ELSE Appended(line)
      /\ ended' = IF tail = "none" THEN ended ELSE FALSE
      /\ UNCHANGED <<run, records, state, leftover, manifest, submission>>
  BY DEF KillInAppend
<1>2. /\ run \in Run /\ file # Missing /\ (Readable => file = records)
      /\ records \in Seq(Answer) /\ Len(records) \in Nat /\ Given(records, run)
      /\ state # Missing /\ state.run = run /\ manifest = Missing
      /\ line \in Line /\ line \in {Torn, Record(run, NextQuestion)}
  BY <1>1, Answering DEF Line
<1>3. file' \in Seq(Line) /\ file' # Missing
  <2>1. CASE tail = "none"
    BY <2>1, <1>1, <1>2 DEF IInv, TypeOK
  <2>2. CASE tail # "none"
    <3>1. file' = Appended(line)
      BY <2>2, <1>1
    <3> HIDE DEF line
    <3>2. file' \in Seq(Line)
      BY <3>1, <1>2, AppendedTyped DEF IInv
    <3> QED
      BY <3>2, MarkerAssumption
  <2> QED
    BY <2>1, <2>2
<1>4. Len(state.done) = Len(records)
  BY <1>1 DEF IInv, WorkInv
<1>5. Readable' => Given(file', run) /\ Len(state.done) \in {Len(file'), Len(file') - 1}
  <2>1. CASE tail = "none"
    BY <2>1, <1>1, <1>2, <1>4 DEF Readable, Given
  <2>2. CASE tail # "none"
    <3>1. file' = Appended(line)
      BY <2>2, <1>1
    <3> HIDE DEF line
    <3>2. ASSUME Readable'
          PROVE  Given(file', run) /\ Len(file') = Len(records) + 1
      BY <3>1, <3>2, <1>1, <1>2, ReadableAppend
    <3> QED
      BY <3>2, <1>2, <1>4
  <2> QED
    BY <2>1, <2>2
<1> HIDE DEF line
<1>6. TypeOK'
  <2>1. failures \in 0..MaxFailures /\ ended \in BOOLEAN
    BY DEF IInv, TypeOK
  <2>2. failures' \in 0..MaxFailures
    BY <2>1, <1>1, BatchAssumption
  <2>3. ended' \in BOOLEAN
    BY <2>1, <1>1
  <2> QED
    BY <2>2, <2>3, <1>1, <1>3 DEF IInv, TypeOK
<1>7. OwnerInv' /\ StateInv' /\ WorkInv' /\ SealInv' /\ SubmissionInv'
  BY <1>1, <1>2 DEF IInv, OwnerInv, StateInv, WorkInv, SealInv, SubmissionInv
<1>8. FileInv'
  BY <1>1, <1>2, <1>5 DEF FileInv
<1> QED
  BY <1>6, <1>7, <1>8 DEF IInv

\* Lines that have the ids of all questions are all answers of their run.
LEMMA CompleteIsRecords ==
    ASSUME NEW r \in Run, NEW lines \in Seq(Answer), Given(lines, r),
           Len(lines) = Len(Questions[r.source])
    PROVE  lines = Records(r)
<1>1. r.source \in Sources
  BY DEF Run
<1>2. DOMAIN lines = 1..Len(lines) /\ DOMAIN Questions[r.source] = 1..Len(lines)
  BY <1>1, LenProperties, QuestionsTyped
<1>3. lines = [i \in 1..Len(lines) |-> lines[i]]
  BY <1>2, LenProperties
<1> QED
  BY <1>2, <1>3 DEF Records, Given

LEMMA FormatKeeps ==
    ASSUME IInv, NEW s \in Sources, Format(s)
    PROVE  IInv' /\ submission'.answers = Records(state.run)
<1>1. /\ Readable /\ manifest # Missing /\ Ids(file) = Questions[s]
      /\ manifest.run.source = s /\ submission' = [for |-> s, answers |-> file]
      /\ UNCHANGED <<pc, run, records, file, ended, state, leftover, manifest, failures>>
  BY DEF Format, Submittable, process, directory
<1>2. /\ file \in Seq(Answer) /\ state # Missing /\ state \in State /\ manifest.run = state.run
      /\ Given(file, state.run) /\ Len(file) = Len(Questions[state.run.source])
  BY <1>1, ReadableIsAnswers DEF IInv, TypeOK, OwnerInv, SealInv, FileInv, Readable
<1>3. file = Records(state.run)
  BY <1>2, StateFields, CompleteIsRecords
<1>4. submission' \in Submission
  BY <1>1, <1>2 DEF Submission
<1>5. TypeOK'
  BY <1>1, <1>4 DEF IInv, TypeOK
<1>6. OwnerInv' /\ StateInv' /\ WorkInv' /\ SealInv'
  BY <1>1, <1>2 DEF IInv, OwnerInv, StateInv, WorkInv, SealInv, Readable
<1>7. FileInv'
  BY <1>1, SMTT(40) DEF IInv, FileInv, Readable, Given
<1>8. SubmissionInv'
  BY <1>1, <1>2, <1>3 DEF SubmissionInv, Records, Record
<1> QED
  BY <1>1, <1>3, <1>5, <1>6, <1>7, <1>8 DEF IInv

LEMMA StutterKeeps ==
    ASSUME IInv, UNCHANGED vars
    PROVE  IInv'
BY ZenonT(40) DEF vars, process, directory, IInv, TypeOK, OwnerInv, StateInv, FileInv, WorkInv,
       SealInv, SubmissionInv, Readable, Given, Records, Record

LEMMA NextKeeps == IInv /\ [Next]_vars => IInv'
<1> SUFFICES ASSUME IInv, [Next]_vars PROVE IInv'
  OBVIOUS
<1>1. CASE Step
  BY <1>1, ClaimKeeps, LoadKeeps, AnswerQuestionKeeps, RewriteStateKeeps, SealKeeps DEF Step
<1>2. CASE \E r \in Run : Start(r)
  BY <1>2, StartKeeps
<1>3. CASE \E s \in Sources : Format(s)
  BY <1>3, FormatKeeps
<1>4. CASE Kill
  BY <1>4, KillKeeps
<1>5. CASE \E tail \in Tails : KillInAppend(tail)
  BY <1>5, KillInAppendKeeps
<1>6. CASE UNCHANGED vars
  BY <1>6, StutterKeeps
<1> QED
  BY <1>1, <1>2, <1>3, <1>4, <1>5, <1>6 DEF Next

\* The invariant holds throughout every run of the batch.
THEOREM BatchInvariance == Spec => []IInv
BY InitKeeps, NextKeeps, PTL DEF Spec
--------------------------------------------------------------------------------
(* What follows from the invariant *)

\* The files and the process keep their types: in particular the state always
\* passes its schema, with distinct ids and no more of them than questions.
THEOREM BatchTypeCorrect == Spec => []TypeOK
<1>1. IInv => TypeOK
  BY DEF IInv
<1> QED
  BY <1>1, BatchInvariance, PTL

\* After any sequence of interruptions the state names a prefix of the recorded
\* questions and is at most one answer behind the file.
THEOREM BatchStateFollowsRecords == Spec => []StateFollowsRecords
<1>1. IInv => StateFollowsRecords
  <2> SUFFICES ASSUME IInv, state # Missing, file # Missing, Readable
               PROVE  IsPrefix(state.done, Ids(file)) /\ Len(file) - Len(state.done) <= 1
    BY DEF StateFollowsRecords
  <2>1. /\ file \in Seq(Answer) /\ state \in State
        /\ Given(file, state.run) /\ Len(state.done) \in {Len(file), Len(file) - 1}
        /\ \A i \in 1..Len(state.done) : state.done[i] = Questions[state.run.source][i]
    BY ReadableIsAnswers DEF IInv, TypeOK, FileInv, StateInv
  <2>2. /\ state.run \in Run /\ state.done \in Seq(QuestionIds)
        /\ Len(state.done) \in Nat /\ Len(file) \in Nat
    BY <2>1, StateFields, LenProperties
  <2> DEFINE done == state.done
             ids == Ids(file)
             n == Len(state.done)
  <2>3. /\ ids \in Seq(QuestionIds) /\ Len(ids) = Len(file)
        /\ \A i \in 1..Len(file) : ids[i] = Questions[state.run.source][i]
    BY <2>1, <2>2, IdsOfGiven
  <2>4. n \in 0..Len(file) /\ \A i \in 1..n : done[i] = ids[i]
    BY <2>1, <2>2, <2>3
  <2>5. \A i \in 1..n : done[i] \in QuestionIds /\ ids[i] \in QuestionIds
    BY <2>2, <2>4, ElementOfSeq
  <2>6. /\ SubSeq(done, 1, n) \in Seq(QuestionIds) /\ SubSeq(ids, 1, n) \in Seq(QuestionIds)
        /\ Len(SubSeq(done, 1, n)) = n /\ Len(SubSeq(ids, 1, n)) = n
        /\ \A i \in 1..n : SubSeq(done, 1, n)[i] = done[i] /\ SubSeq(ids, 1, n)[i] = ids[i]
    <3> HIDE DEF n, ids, done
    <3> QED
      BY <2>4, <2>5, SubSeqProperties
  <2>7. SubSeq(done, 1, n) = SubSeq(ids, 1, n)
    <3> HIDE DEF n, ids, done
    <3> QED
      BY <2>4, <2>6, SeqEqual
  <2> QED
    BY <2>1, <2>2, <2>3, <2>4, <2>7 DEF IsPrefix
<1> QED
  BY <1>1, BatchInvariance, PTL

\* What is submitted are the answers one configuration gave to the questions of
\* the file it was formatted for, in order.
THEOREM BatchSubmissionIsExact == Spec => []SubmissionIsExact
<1>1. IInv => SubmissionIsExact
  <2> SUFFICES ASSUME IInv, submission # Missing
               PROVE  \E c \in Configs : submission.answers =
                        Records([source |-> submission.for, config |-> c])
    BY DEF SubmissionIsExact
  <2>1. /\ state \in State /\ submission.for = state.run.source
        /\ submission.answers = Records(state.run)
    BY DEF IInv, TypeOK, OwnerInv, SubmissionInv
  <2>2. /\ state.run.config \in Configs
        /\ state.run = [source |-> state.run.source, config |-> state.run.config]
    BY <2>1, StateFields DEF Run
  <2>3. submission.answers = Records([source |-> submission.for, config |-> state.run.config])
    BY <2>1, <2>2
  <2> QED
    BY <2>2, <2>3
<1> QED
  BY <1>1, BatchInvariance, PTL
--------------------------------------------------------------------------------
(* Where a kill never leaves a whole line without its newline *)

\* Only the last line can be torn, and it is the one without its newline.
LEMMA TailInit == Init => TailInv
BY DEF Init, TailInv

LEMMA TailKeeps ==
    ASSUME "unterminated" \notin Tails, IInv, TailInv, [Next]_vars
    PROVE  TailInv'
<1>1. ended \/ ~Readable
  <2>1. ASSUME ~ended PROVE ~Readable
    <3>1. file \in Seq(Line) /\ file # <<>> /\ file[Len(file)] = Torn
      BY <2>1 DEF IInv, TypeOK, TailInv
    <3>2. Len(file) \in DOMAIN file
      BY <3>1, EmptySeq, LenProperties
    <3> QED
      BY <3>1, <3>2 DEF Readable
  <2> QED
    BY <2>1
<1>2. pc \in {"loop", "state"} => ended /\ Readable
  BY DEF IInv, WorkInv, TailInv
<1>3. CASE \E r \in Run : Start(r)
  BY <1>3 DEF IInv, OwnerInv, TailInv, Start, Readable
<1>4. CASE Claim
  BY <1>4 DEF IInv, OwnerInv, TailInv, Claim
<1>5. CASE Load
  <2>1. CASE Stop
    BY <2>1, <1>5 DEF TailInv, Load, Stop, directory, Readable
  <2>2. CASE ~Stop
    <3>1. ended /\ ended' = ended
      BY <2>2, <1>1, <1>5 DEF TailInv, Load
    <3>2. file' = (IF file = Missing THEN <<>> ELSE file) /\ (file # Missing => Readable)
      BY <2>2, <1>5 DEF Load
    <3> QED
      BY <3>1, <3>2 DEF TailInv, Readable
  <2> QED
    BY <2>1, <2>2
<1>6. CASE AnswerQuestion
  <2> DEFINE record == Record(run, NextQuestion)
  <2>1. /\ pc = "loop" /\ Len(records) < Len(Questions[run.source])
        /\ file' = Appended(record) /\ ended' = TRUE
    BY <1>6 DEF AnswerQuestion
  <2>2. /\ file' = Append(records, record) /\ run \in Run /\ records \in Seq(Answer)
        /\ Given(records, run)
    BY <2>1, <1>2, Answering DEF Appended
  <2>3. Append(records, record) \in Seq(Answer)
    BY <2>1, <2>2, NextRecord DEF IInv, NextQuestion
  <2> HIDE DEF record
  <2>4. \A i \in DOMAIN file' : file'[i] # Torn
    BY <2>2, <2>3, LenProperties, ElementOfSeq, MarkerAssumption
  <2> QED
    BY <2>1, <2>4 DEF TailInv, Readable
<1>7. CASE RewriteState \/ Seal \/ \E s \in Sources : Format(s)
  BY <1>2, <1>7 DEF TailInv, RewriteState, Seal, Format, process, directory, Readable
<1>8. CASE Kill
  BY <1>8 DEF TailInv, Kill, Stop, directory, Readable
<1>9. CASE \E tail \in Tails : KillInAppend(tail)
  <2>1. PICK tail \in Tails : KillInAppend(tail)
    BY <1>9
  <2>2. /\ tail \in {"none", "torn"} /\ pc = "loop" /\ pc' = "off"
        /\ Len(records) < Len(Questions[run.source])
        /\ UNCHANGED <<state, manifest>>
    BY <2>1, BatchAssumption DEF KillInAppend
  <2>3. CASE tail = "none"
    BY <2>1, <2>2, <2>3, <1>2 DEF KillInAppend, TailInv, Readable
  <2>4. CASE tail = "torn"
    <3>1. file' = Append(records, Torn) /\ ended' = FALSE
      BY <2>1, <2>2, <2>4, <1>2, Answering DEF KillInAppend, Appended
    <3>2. /\ records \in Seq(Answer) /\ Given(records, run) /\ state.run = run
          /\ manifest = Missing /\ run \in Run
      BY <2>2, Answering
    <3>3. /\ file' \in Seq(Line) /\ Len(file') = Len(records) + 1
          /\ file'[Len(records) + 1] = Torn
          /\ \A i \in 1..Len(records) : file'[i] = records[i]
      BY <3>1, <3>2, SeqMonotonic, AppendedLine DEF Line
    <3>4. Len(records) \in Nat /\ Len(Questions[run.source]) \in Nat
      BY <3>2, LenProperties, QuestionsTyped DEF Run
    <3>5. file' # Missing /\ file' # <<>>
      BY <3>3, <3>4, MarkerAssumption
    <3> QED
      BY <2>2, <3>1, <3>2, <3>3, <3>4, <3>5 DEF TailInv, Given
  <2> QED
    BY <2>2, <2>3, <2>4
<1>10. CASE UNCHANGED vars
  BY <1>10 DEF vars, process, directory, TailInv, Readable
<1> QED
  BY <1>3, <1>4, <1>5, <1>6, <1>7, <1>8, <1>9, <1>10 DEF Next, Step

\* How many lines are whole.
LEMMA WholeCount ==
    ASSUME NEW lines \in Seq(Line), NEW n \in 0..Len(lines),
           \A i \in 1..Len(lines) : lines[i] # Torn <=> i <= n
    PROVE  Cardinality({i \in DOMAIN lines : lines[i] # Torn}) = n
<1>1. Len(lines) \in Nat /\ DOMAIN lines = 1..Len(lines)
  BY LenProperties
<1>2. {i \in DOMAIN lines : lines[i] # Torn} = 1..n
  BY <1>1
<1>3. Cardinality(1..n) = n
  BY <1>1, FS_Interval
<1> QED
  BY <1>2, <1>3

LEMMA RecordsTyped ==
    ASSUME NEW r \in Run
    PROVE  Records(r) \in Seq(Answer) /\ Len(Records(r)) = Len(Questions[r.source])
<1>1. r.source \in Sources
  BY DEF Run
<1>2. /\ Len(Questions[r.source]) \in Nat
      /\ DOMAIN Questions[r.source] = 1..Len(Questions[r.source])
  BY <1>1, QuestionsTyped
<1>3. Records(r) = [i \in 1..Len(Questions[r.source]) |-> Record(r, i)]
  BY <1>2 DEF Records
<1>4. \A i \in 1..Len(Questions[r.source]) : Record(r, i) \in Answer
  BY RecordTyped
<1>5. Records(r) \in [1..Len(Questions[r.source]) -> Answer]
  BY <1>3, <1>4
<1>6. Records(r) \in Seq(Answer)
  BY <1>2, <1>5, SeqDef
<1> QED
  BY <1>2, <1>3, <1>6, LenProperties

\* The ledger a directory stands for.
OwnerOf == IF state = Missing THEN Missing ELSE state.run
AnsweredOf == Cardinality(WholeLines)
SealedOf == manifest # Missing
SubmittedOf == IF submission = Missing THEN Missing ELSE submission.answers

LEMMA AnsweredIsLength ==
    ASSUME TypeOK, Readable
    PROVE  AnsweredOf = Len(file)
<1>1. file \in Seq(Line) /\ file # Missing /\ \A i \in DOMAIN file : file[i] # Torn
  BY DEF TypeOK, Readable
<1>2. Len(file) \in Nat /\ DOMAIN file = 1..Len(file)
  BY <1>1, LenProperties
<1>3. \A i \in 1..Len(file) : file[i] # Torn <=> i <= Len(file)
  BY <1>1, <1>2
<1>4. Len(file) \in 0..Len(file)
  BY <1>2
<1>5. Cardinality({i \in DOMAIN file : file[i] # Torn}) = Len(file)
  BY <1>1, <1>3, <1>4, WholeCount
<1> QED
  BY <1>1, <1>5 DEF AnsweredOf, WholeLines

\* While answering, the ledger counts the records of the process.
LEMMA AnsweringLedger ==
    ASSUME IInv, TailInv, pc = "loop"
    PROVE  /\ ended /\ file = records /\ records \in Seq(Answer) /\ run \in Run
           /\ OwnerOf = run /\ run # Missing /\ ~SealedOf
           /\ AnsweredOf = Len(records) /\ Len(records) \in Nat
           /\ Len(Records(run)) = Len(Questions[run.source])
<1>1. Readable /\ ended /\ file = records
  BY DEF IInv, WorkInv, TailInv
<1>2. /\ records \in Seq(Answer) /\ run \in Run /\ state # Missing /\ state.run = run
      /\ manifest = Missing
  BY DEF IInv, TypeOK, OwnerInv, SealInv
<1>3. AnsweredOf = Len(records)
  BY <1>1, AnsweredIsLength DEF IInv
<1> QED
  BY <1>1, <1>2, <1>3, LenProperties, RecordsTyped, MarkerAssumption DEF OwnerOf, SealedOf

\* A step of the batch is a step of the ledger or leaves it alone.
LEMMA InitIsLedgerInit == Init => Ledger!Init
<1> SUFFICES ASSUME Init PROVE Ledger!Init
  OBVIOUS
<1>1. WholeLines = {}
  BY DEF Init, WholeLines
<1>2. Cardinality(WholeLines) = 0
  BY <1>1, FS_EmptySet
<1> QED
  BY <1>2 DEF Init, Ledger!Init

LEMMA ClaimIsClaim ==
    ASSUME IInv, Claim
    PROVE  Ledger!Next
<1>1. state = Missing /\ run \in Run /\ state'.run = run /\ UNCHANGED <<file, manifest, submission>>
  BY DEF IInv, TypeOK, OwnerInv, Claim
<1>2. state' # Missing
  BY ClaimKeeps, StateFields DEF Claim, IInv, OwnerInv
<1>3. UNCHANGED WholeLines
  BY <1>1 DEF WholeLines
<1>4. Ledger!Claim(run)
  BY <1>1, <1>2, <1>3 DEF Ledger!Claim
<1> QED
  BY <1>1, <1>4 DEF Ledger!Next

LEMMA LoadIsStutter ==
    ASSUME IInv, Load
    PROVE  UNCHANGED <<OwnerOf, AnsweredOf, SealedOf, SubmittedOf>>
<1> USE DEF OwnerOf, AnsweredOf, SealedOf, SubmittedOf
<1>1. CASE Stop
  BY <1>1 DEF Load, Stop, directory, WholeLines
<1>2. CASE ~Stop
  <2>1. /\ file' = (IF file = Missing THEN <<>> ELSE file)
        /\ state' = [state EXCEPT !.done = Synced(file')]
        /\ pc' = "loop" /\ UNCHANGED <<manifest, submission>>
    BY <1>2 DEF Load
  <2>2. state \in State /\ state # Missing
    BY DEF IInv, TypeOK, OwnerInv, Load
  <2>3. state'.run = state.run
    BY <2>1, <2>2, StateExcept
  <2>4. state' # Missing
    BY <2>1, LoadKeeps DEF IInv, OwnerInv
  <2>5. <<>> # Missing
    <3>1. <<>> \in Seq(Line)
      BY EmptySeq
    <3> QED
      BY <3>1, MarkerAssumption
  <2>6. UNCHANGED WholeLines
    BY <2>1, <2>5, SMTT(40) DEF WholeLines
  <2> QED
    BY <2>1, <2>2, <2>3, <2>4, <2>6
<1> QED
  BY <1>1, <1>2

LEMMA AnswerIsAnswer ==
    ASSUME IInv, TailInv, AnswerQuestion
    PROVE  Ledger!Next
<1> DEFINE record == Record(run, NextQuestion)
<1>1. /\ pc = "loop" /\ Len(records) < Len(Questions[run.source])
      /\ file' = Appended(record)
      /\ UNCHANGED <<state, manifest, submission>>
  BY DEF AnswerQuestion
<1>2. /\ file' = Append(records, record) /\ run \in Run /\ records \in Seq(Answer)
      /\ Given(records, run)
  BY <1>1, AnsweringLedger, Answering DEF Appended
<1>3. /\ Append(records, record) \in Seq(Answer)
      /\ Len(Append(records, record)) = Len(records) + 1
  BY <1>1, <1>2, NextRecord DEF IInv, NextQuestion
<1> HIDE DEF record
<1>4. /\ file' \in Seq(Line) /\ file' # Missing
      /\ Len(file') = Len(records) + 1 /\ Len(file') \in Nat
      /\ \A i \in 1..Len(file') : file'[i] # Torn
  BY <1>2, <1>3, LenProperties, ElementOfSeq, SeqMonotonic, MarkerAssumption DEF Line
<1>5. Cardinality({i \in DOMAIN file' : file'[i] # Torn}) = Len(records) + 1
  BY <1>4, WholeCount
<1>6. AnsweredOf' = AnsweredOf + 1
  BY <1>1, <1>4, <1>5, AnsweringLedger DEF AnsweredOf, WholeLines
<1>7. Ledger!Answer
  BY <1>1, <1>6, AnsweringLedger DEF Ledger!Answer, OwnerOf, AnsweredOf, SealedOf
<1> QED
  BY <1>7 DEF Ledger!Next

LEMMA SealIsSeal ==
    ASSUME IInv, TailInv, Seal
    PROVE  Ledger!Next
<1>1. /\ pc = "loop" /\ Len(records) = Len(Questions[run.source])
      /\ UNCHANGED <<file, state, submission>>
  BY DEF Seal
<1>2. manifest' # Missing
  BY SealKeeps
<1>3. UNCHANGED WholeLines
  BY <1>1 DEF WholeLines
<1>4. Ledger!Seal
  BY <1>1, <1>2, <1>3, AnsweringLedger DEF Ledger!Seal, OwnerOf, AnsweredOf, SealedOf
<1> QED
  BY <1>4 DEF Ledger!Next

LEMMA FormatIsSubmit ==
    ASSUME IInv, NEW s \in Sources, Format(s)
    PROVE  Ledger!Next
<1>1. /\ submission = Missing /\ manifest # Missing
      /\ UNCHANGED <<file, state, manifest>>
      /\ submission' = [for |-> s, answers |-> file]
  BY DEF Format, Submittable, directory
<1>2. state # Missing /\ state.run \in Run
  BY <1>1, StateFields DEF IInv, TypeOK, OwnerInv
<1>3. submission' # Missing /\ submission'.answers = Records(state.run)
  <2>1. submission' \in Submission
    <3>1. Readable
      BY DEF Format, Submittable
    <3>2. file \in Seq(Answer)
      BY <3>1, ReadableIsAnswers DEF IInv
    <3> QED
      BY <3>2, <1>1 DEF Submission
  <2> QED
    BY <2>1, FormatKeeps, MarkerAssumption
<1>4. UNCHANGED WholeLines
  BY <1>1 DEF WholeLines
<1>5. Ledger!Submit
  BY <1>1, <1>2, <1>3, <1>4 DEF Ledger!Submit
<1> QED
  BY <1>5 DEF Ledger!Next

LEMMA KillInAppendIsStutter ==
    ASSUME "unterminated" \notin Tails, IInv, TailInv, NEW tail \in Tails, KillInAppend(tail)
    PROVE  UNCHANGED <<OwnerOf, AnsweredOf, SealedOf, SubmittedOf>>
<1>1. /\ tail \in {"none", "torn"} /\ pc = "loop"
      /\ file' = IF tail = "none" THEN file ELSE Appended(Torn)
      /\ UNCHANGED <<state, manifest, submission>>
  BY BatchAssumption DEF KillInAppend
<1>2. AnsweredOf' = AnsweredOf
  <2>1. CASE tail = "none"
    BY <1>1, <2>1 DEF AnsweredOf, WholeLines
  <2>2. CASE tail = "torn"
    <3>1. file' = Append(records, Torn) /\ records \in Seq(Answer)
      BY <1>1, <2>2, AnsweringLedger DEF Appended
    <3>2. /\ file' \in Seq(Line) /\ Len(file') = Len(records) + 1
          /\ file'[Len(records) + 1] = Torn
          /\ \A i \in 1..Len(records) : file'[i] = records[i]
      BY <3>1, SeqMonotonic, AppendedLine DEF Line
    <3>3. Len(records) \in Nat /\ \A i \in 1..Len(records) : records[i] # Torn
      BY <3>1, LenProperties, ElementOfSeq, MarkerAssumption
    <3>4. \A i \in 1..Len(file') : file'[i] # Torn <=> i <= Len(records)
      BY <3>2, <3>3
    <3>5. Cardinality({i \in DOMAIN file' : file'[i] # Torn}) = Len(records)
      BY <3>2, <3>3, <3>4, WholeCount, SMTT(40)
    <3> QED
      BY <3>2, <3>5, <1>1, AnsweringLedger, MarkerAssumption DEF AnsweredOf, WholeLines
  <2> QED
    BY <1>1, <2>1, <2>2
<1> QED
  BY <1>1, <1>2 DEF OwnerOf, SealedOf, SubmittedOf

LEMMA OthersStutter ==
    ASSUME IInv, (\E r \in Run : Start(r)) \/ RewriteState \/ Kill \/ UNCHANGED vars
    PROVE  UNCHANGED <<OwnerOf, AnsweredOf, SealedOf, SubmittedOf>>
<1>1. UNCHANGED <<file, manifest, submission>>
  BY DEF Start, RewriteState, Kill, Stop, vars, directory
<1>2. OwnerOf' = OwnerOf
  <2>1. CASE RewriteState
    <3>1. state \in State /\ state # Missing
      BY <2>1 DEF IInv, TypeOK, OwnerInv, RewriteState
    <3>2. state' # Missing
      BY <2>1, RewriteStateKeeps DEF IInv, OwnerInv, RewriteState
    <3>3. state'.run = state.run
      BY <2>1, <3>1, StateExcept DEF RewriteState
    <3> QED
      BY <3>1, <3>2, <3>3 DEF OwnerOf
  <2>2. CASE ~RewriteState
    BY <2>2 DEF Start, Kill, Stop, vars, directory, OwnerOf
  <2> QED
    BY <2>1, <2>2
<1> QED
  BY <1>1, <1>2 DEF AnsweredOf, WholeLines, SealedOf, SubmittedOf

LEMMA NextIsLedgerNext ==
    ASSUME "unterminated" \notin Tails, IInv, TailInv, [Next]_vars
    PROVE  [Ledger!Next]_<<OwnerOf, AnsweredOf, SealedOf, SubmittedOf>>
<1>1. CASE Claim
  BY <1>1, ClaimIsClaim
<1>2. CASE Load
  BY <1>2, LoadIsStutter
<1>3. CASE AnswerQuestion
  BY <1>3, AnswerIsAnswer
<1>4. CASE Seal
  BY <1>4, SealIsSeal
<1>5. CASE \E s \in Sources : Format(s)
  BY <1>5, FormatIsSubmit
<1>6. CASE \E tail \in Tails : KillInAppend(tail)
  BY <1>6, KillInAppendIsStutter
<1>7. CASE (\E r \in Run : Start(r)) \/ RewriteState \/ Kill \/ UNCHANGED vars
  BY <1>7, OthersStutter
<1> QED
  BY <1>1, <1>2, <1>3, <1>4, <1>5, <1>6, <1>7 DEF Next, Step

\* A batch directory implements the ledger, as long as a kill leaves nothing of the
\* line it interrupts or a line that does not parse: it keeps its owner, grows
\* answer by answer in the order of its source, takes none back, is sealed when it
\* has all and only then submitted.
THEOREM BatchKeepsLedger ==
    ASSUME "unterminated" \notin Tails
    PROVE  Spec => KeepsLedger
<1>1. Init => IInv /\ TailInv /\ Ledger!Init
  BY InitKeeps, TailInit, InitIsLedgerInit
<1>2. IInv /\ TailInv /\ [Next]_vars => IInv' /\ TailInv'
  BY NextKeeps, TailKeeps
<1>3. IInv /\ TailInv /\ [Next]_vars
        => [Ledger!Next]_<<OwnerOf, AnsweredOf, SealedOf, SubmittedOf>>
  BY NextIsLedgerNext
<1>4. [Ledger!Next]_<<OwnerOf, AnsweredOf, SealedOf, SubmittedOf>>
        => [Ledger!Next]_Ledger!ledger
  BY DEF Ledger!ledger, OwnerOf, AnsweredOf, SealedOf, SubmittedOf
<1> QED
  BY <1>1, <1>2, <1>3, <1>4, PTL DEF Spec, KeepsLedger, Ledger!Spec
================================================================================
